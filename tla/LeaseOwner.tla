------------------------------ MODULE LeaseOwner ------------------------------
(***************************************************************************)
(* modeld's single owner (internal/modeld/owner): processes Join, the one  *)
(* that acquires the lease owns the model state and renews the lease in a  *)
(* loop, the others follow.  The owner stops touching the state when its   *)
(* lease is lost, or when a failing renewal comes within a margin of the   *)
(* lease's end.                                                            *)
(*                                                                         *)
(* Time passes only while every process waits, on its timer or on another  *)
(* process's lock directory: what a process can do, it does at once.       *)
(***************************************************************************)
EXTENDS Lease

CONSTANTS
    Interval,   \* the renew interval, TTL / 3
    Margin,     \* renewGiveUpMargin, TTL / 4
    RetryFloor  \* minRenewRetryInterval

ASSUME OwnerConstants ==
    /\ Interval \in Nat \ {0} /\ Margin \in Nat \ {0} /\ RetryFloor \in Nat \ {0}
    /\ Margin >= RetryFloor
    /\ Interval <= TTL

VARIABLES
    role,        \* what the process is to the model state
    loop,        \* where its renew loop is
    due,         \* when the loop's timer fires
    attempt,     \* attemptStart
    validUntil   \* validUntil

ownerVars == <<role, loop, due, attempt, validUntil>>
allVars == <<leaseVars, ownerVars>>

OwnerInit ==
    /\ Init
    /\ role = [p \in Procs |-> "out"]
    /\ loop = [p \in Procs |-> "none"]
    /\ due = [p \in Procs |-> 0]
    /\ attempt = [p \in Procs |-> 0]
    /\ validUntil = [p \in Procs |-> 0]

(* The process touches the state it owns until it learns that it must not. *)
Serving(p) == role[p] = "owner"

renewGaveUp(p) == now + Margin >= validUntil[p]

Larger(a, b) == IF a > b THEN a ELSE b
Smaller(a, b) == IF a < b THEN a ELSE b
renewRetryDelay(p) == Larger(Smaller((validUntil[p] - now) \div 2, Interval), RetryFloor)

-----------------------------------------------------------------------------
Join(p) ==
    /\ role[p] \in {"out", "follower"}
    /\ handle[p].id = NoId
    /\ AcquireContext(p)
    /\ role' = [role EXCEPT ![p] = "joining"]
    /\ UNCHANGED <<loop, due, attempt, validUntil>>

(* The renew loop ends, and its variables with it.                         *)
EndLoop(p) ==
    /\ loop' = [loop EXCEPT ![p] = "none"]
    /\ due' = [due EXCEPT ![p] = 0]
    /\ attempt' = [attempt EXCEPT ![p] = 0]
    /\ validUntil' = [validUntil EXCEPT ![p] = 0]

(* Join's acquire returned: owner; follower of the holder Inspect reads;   *)
(* out on another error, or to try again when the holder's file vanished.  *)
JoinReturns(p) ==
    /\ role[p] = "joining"
    /\ pc[p] = "idle"
    /\ IF ret[p] = "ok"
         THEN /\ role' = [role EXCEPT ![p] = "owner"]
              /\ loop' = [loop EXCEPT ![p] = "timer"]
              /\ due' = [due EXCEPT ![p] = now + Interval]
              /\ validUntil' = [validUntil EXCEPT ![p] = handle[p].renewed + TTL]
         ELSE /\ role' = [role EXCEPT ![p] =
                     IF ret[p] = "held" /\ file.id # NoId THEN "follower" ELSE "out"]
              /\ UNCHANGED <<loop, due, validUntil>>
    /\ UNCHANGED <<leaseVars, attempt>>

(* The loop's timer fired: one Renew.                                      *)
RenewTimer(p) ==
    /\ loop[p] = "timer"
    /\ now >= due[p]
    /\ RenewContext(p)
    /\ loop' = [loop EXCEPT ![p] = "renewing"]
    /\ attempt' = [attempt EXCEPT ![p] = now]
    /\ UNCHANGED <<role, due, validUntil>>

markLost(p) ==
    /\ role' = [role EXCEPT ![p] = "lost"]
    /\ EndLoop(p)

Rearm(p, delay) ==
    /\ due' = [due EXCEPT ![p] = now + delay]
    /\ loop' = [loop EXCEPT ![p] = "timer"]
    /\ attempt' = [attempt EXCEPT ![p] = 0]
    /\ UNCHANGED role

RenewReturnsAlwaysExtends(p) ==
    /\ loop[p] = "renewing"
    /\ pc[p] = "idle"
    /\ \/ /\ ret[p] # "lost"
          /\ validUntil' = [validUntil EXCEPT ![p] = attempt[p] + TTL]
          /\ Rearm(p, Interval)
       \/ ret[p] = "lost" /\ markLost(p)
    /\ UNCHANGED leaseVars

(* Renew returned: extend, fence for good, or try again while the lease is *)
(* still proven for longer than the margin.                                *)
RenewReturns(p) ==
    /\ loop[p] = "renewing"
    /\ pc[p] = "idle"
    /\ \/ /\ ret[p] = "ok"
          /\ validUntil' = [validUntil EXCEPT ![p] = attempt[p] + TTL]
          /\ Rearm(p, Interval)
       \/ /\ ret[p] = "lost" \/ (ret[p] # "ok" /\ renewGaveUp(p))
          /\ markLost(p)
       \/ /\ ret[p] \notin {"ok", "lost"} /\ ~renewGaveUp(p)
          /\ Rearm(p, renewRetryDelay(p))
          /\ UNCHANGED validUntil
    /\ UNCHANGED leaseVars

(* Release cancels the loop and gives the lease back if it is still ours.  *)
Release(p) ==
    /\ role[p] \in {"owner", "lost"}
    /\ loop[p] # "renewing"
    /\ ReleaseContext(p)
    /\ role' = [role EXCEPT ![p] = "out"]
    /\ EndLoop(p)

Die(p) ==
    /\ Crash(p)
    /\ role' = [role EXCEPT ![p] = "out"]
    /\ EndLoop(p)

(* The owner waits for the lock with context.Background: leaseLockMaxWait  *)
(* is longer than it takes a directory to grow stale.                      *)
LeaseStep(p) ==
    /\ Progress(p, {}) \/ CallFails(p) \/ ReadFails(p)
    /\ UNCHANGED ownerVars

(* The process has nothing to do but wait.                                 *)
Waiting(p) ==
    \/ pc[p] = "lock" /\ lock.by # NoProc /\ ~lockStale
    \/ /\ pc[p] = "idle" /\ role[p] # "joining"
       /\ loop[p] = "none" \/ (loop[p] = "timer" /\ now < due[p])

OwnerTick ==
    /\ \A p \in Procs : Waiting(p)
    /\ Tick
    /\ UNCHANGED ownerVars

OwnerNext ==
    \/ \E p \in Procs : \/ Join(p) \/ JoinReturns(p) \/ RenewTimer(p) \/ RenewReturns(p)
                        \/ Release(p) \/ Die(p) \/ LeaseStep(p)
    \/ OwnerTick

OwnerSpec == OwnerInit /\ [][OwnerNext]_allVars

-----------------------------------------------------------------------------
(* Properties                                                              *)

(* The owner never keeps touching state past the point another instance    *)
(* could take over: while it serves, the lease file holds its own record,  *)
(* that record has not expired, and validUntil, the owner's own estimate   *)
(* by which it gives up, does not lie beyond the record's expiry.  A lock  *)
(* directory left behind can lead to two owners (Lease), and a challenger  *)
(* that cannot read takes over a live record.                              *)
SelfFenced ==
    Only({"io"}) =>
      \A p \in Procs : Serving(p) =>
        /\ file.id = handle[p].id
        /\ ~expired(file, now)
        /\ validUntil[p] <= file.renewed + TTL

(* The owner gives up before expiry: it does not serve past the TTL of its *)
(* last successful write of the lease file, whoever holds the file now     *)
(* (a lease found lost by Renew is a handle forgotten, and marked next).   *)
(* It holds for I/O errors, and for one fault of any other kind: the       *)
(* margin is looked at after an attempt, so an attempt that a failure put  *)
(* off to the last moment and that then waits for a lock directory left    *)
(* behind returns too late.                                                *)
FencedInTime ==
    Only({"io"}) \/ faults.n <= 1 =>
      \A p \in Procs : Serving(p) /\ handle[p].id # NoId => now <= proven[p] + TTL
=============================================================================
