------------------------------- MODULE Routine -------------------------------
(***************************************************************************)
(* libroutine/routine.go: the circuit breaker every recurring task runs    *)
(* behind.  Execute is three separate critical sections of the breaker's   *)
(* mutex (Allow, the operation, MarkSuccess or MarkFailure), so several    *)
(* callers can be inside an operation at once and report late.             *)
(***************************************************************************)
EXTENDS Integers, FiniteSets

CONSTANTS Callers,       \* concurrent users of one Routine
          threshold,     \* consecutive failures that open the circuit
          ResetTimeout,  \* ticks the circuit stays Open
          MaxClock       \* bound: the clock stops here

ASSUME RoutineConstants ==
    /\ threshold \in Nat \ {0}
    /\ ResetTimeout \in Nat
    /\ MaxClock \in Nat

VARIABLES state, failureCount, lastFailureAt, inTest, clock,
          running        \* caller -> how Allow admitted it: "no", "closed" or "test"

fields == <<state, failureCount, lastFailureAt, inTest>>
routineVars == <<fields, clock, running>>

RoutineInit ==
    /\ state = "Closed"
    /\ failureCount = 0
    /\ lastFailureAt = 0
    /\ inTest = FALSE
    /\ clock = 0
    /\ running = [c \in Callers |-> "no"]

RoutineTick ==
    /\ clock < MaxClock
    /\ clock' = clock + 1
    /\ UNCHANGED <<fields, running>>

ResetElapsed == clock - lastFailureAt > ResetTimeout

(* AllowAt: an Open circuit past its reset timeout turns HalfOpen and the   *)
(* caller that noticed takes the one test slot.                             *)
Allow(c) ==
    /\ running[c] = "no"
    /\ \/ /\ state = "Closed"
          /\ running' = [running EXCEPT ![c] = "closed"]
          /\ UNCHANGED fields
       \/ /\ \/ state = "Open" /\ ResetElapsed
             \/ state = "HalfOpen" /\ ~inTest
          /\ state' = "HalfOpen"
          /\ inTest' = TRUE
          /\ running' = [running EXCEPT ![c] = "test"]
          /\ UNCHANGED <<failureCount, lastFailureAt>>
    /\ UNCHANGED clock

MarkSuccess_keepsCount ==
    \/ state # "HalfOpen" /\ UNCHANGED fields
    \/ /\ state = "HalfOpen"
       /\ state' = "Closed"
       /\ inTest' = FALSE
       /\ UNCHANGED <<failureCount, lastFailureAt>>

MarkSuccess ==
    \/ /\ state = "Closed"
       /\ failureCount' = 0
       /\ UNCHANGED <<state, lastFailureAt, inTest>>
    \/ /\ state = "HalfOpen"
       /\ state' = "Closed"
       /\ failureCount' = 0
       /\ inTest' = FALSE
       /\ UNCHANGED lastFailureAt
    \/ /\ state = "Open"
       /\ UNCHANGED fields

MarkFailure ==
    \/ /\ state = "Closed"
       /\ failureCount' = failureCount + 1
       /\ IF failureCount' >= threshold
            THEN state' = "Open" /\ lastFailureAt' = clock
            ELSE UNCHANGED <<state, lastFailureAt>>
       /\ UNCHANGED inTest
    \/ /\ state = "HalfOpen"
       /\ state' = "Open"
       /\ lastFailureAt' = clock
       /\ inTest' = FALSE
       /\ UNCHANGED failureCount
    \/ /\ state = "Open"
       /\ UNCHANGED fields

(* The second half of Execute: fn has returned, its outcome is marked.      *)
Finish(c) ==
    /\ running[c] # "no"
    /\ running' = [running EXCEPT ![c] = "no"]
    /\ MarkSuccess \/ MarkFailure
    /\ UNCHANGED clock

ForceOpen ==
    /\ state' = "Open"
    /\ lastFailureAt' = clock
    /\ failureCount' = threshold
    /\ inTest' = FALSE
    /\ UNCHANGED <<clock, running>>

ForceClose ==
    /\ state' = "Closed"
    /\ failureCount' = 0
    /\ inTest' = FALSE
    /\ UNCHANGED <<lastFailureAt, clock, running>>

RoutineNext ==
    \/ RoutineTick
    \/ \E c \in Callers : Allow(c) \/ Finish(c)
    \/ ForceOpen
    \/ ForceClose

RoutineSpec == RoutineInit /\ [][RoutineNext]_routineVars

-----------------------------------------------------------------------------
(* The values the Routine's fields take.                                    *)
RoutineTypeOK ==
    /\ state \in {"Closed", "Open", "HalfOpen"}
    /\ failureCount \in 0 .. threshold
    /\ lastFailureAt \in 0 .. clock
    /\ inTest \in BOOLEAN
    /\ clock \in 0 .. MaxClock
    /\ running \in [Callers -> {"no", "closed", "test"}]

(* A circuit that has collected its threshold of consecutive failures is    *)
(* not Closed: no interleaving of late results leaves it admitting calls.   *)
ClosedBelowThreshold ==
    state = "Closed" => failureCount < threshold

=============================================================================
