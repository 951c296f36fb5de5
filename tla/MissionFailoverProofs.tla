------------------------ MODULE MissionFailoverProofs -----------------------
(***************************************************************************)
(* The circuit breaker, the gateway's failover over several of them, and   *)
(* the mission row: three components that share no state, each with its    *)
(* own invariant, for every value of the constants.                        *)
(***************************************************************************)
EXTENDS Failover, Routine, Mission, TLAPS

-----------------------------------------------------------------------------
(* One breaker of libroutine/routine.go.                                    *)

RoutineInv == RoutineTypeOK /\ ClosedBelowThreshold

(* The breaker's fields keep their ranges and a Closed circuit is always    *)
(* below its threshold, for any number of callers and any timing: the       *)
(* critical sections of AllowAt, MarkSuccess, MarkFailureAt, ForceOpenAt    *)
(* and ForceClose preserve it one by one.                                   *)
THEOREM RoutineSafety == RoutineSpec => [](RoutineTypeOK /\ ClosedBelowThreshold)
<1> USE RoutineConstants DEF RoutineConstants, RoutineInv, RoutineTypeOK, ClosedBelowThreshold, fields
<1>1. RoutineInit => RoutineInv
  <2>1. 0 < threshold /\ 0 \in 0 .. threshold /\ 0 \in 0 .. 0 /\ 0 \in 0 .. MaxClock
    OBVIOUS
  <2> QED BY <2>1, Zenon DEF RoutineInit
<1>2. RoutineInv /\ [RoutineNext]_routineVars => RoutineInv'
  <2> SUFFICES ASSUME RoutineInv, [RoutineNext]_routineVars PROVE RoutineInv'
    OBVIOUS
  <2>0. /\ 0 < threshold
        /\ 0 \in 0 .. threshold
        /\ threshold \in 0 .. threshold
        /\ clock \in 0 .. clock
    OBVIOUS
  <2>1. CASE RoutineTick
    BY <2>1 DEF RoutineTick
  <2>2. ASSUME NEW c \in Callers, Allow(c) PROVE RoutineInv'
    BY <2>2, Zenon DEF Allow
  <2>3. ASSUME NEW c \in Callers, Finish(c) PROVE RoutineInv'
    <3>1. CASE MarkSuccess
      BY <2>3, <2>0, <3>1, Zenon DEF Finish, MarkSuccess
    <3>2. CASE MarkFailure
      <4>1. CASE state = "Closed"
        <5>1. /\ failureCount + 1 \in 0 .. threshold
              /\ ~(failureCount + 1 >= threshold) => failureCount + 1 < threshold
          BY <4>1
        <5> QED BY <2>3, <2>0, <3>2, <4>1, <5>1, Zenon DEF Finish, MarkFailure
      <4>2. CASE state # "Closed"
        BY <2>3, <2>0, <3>2, <4>2, Zenon DEF Finish, MarkFailure
      <4> QED BY <4>1, <4>2, Zenon
    <3> QED BY <2>3, <3>1, <3>2, Zenon DEF Finish
  <2>4. CASE ForceOpen
    BY <2>0, <2>4, Zenon DEF ForceOpen
  <2>5. CASE ForceClose
    BY <2>0, <2>5, Zenon DEF ForceClose
  <2>6. CASE UNCHANGED routineVars
    BY <2>6, Zenon DEF routineVars
  <2> QED BY <2>1, <2>2, <2>3, <2>4, <2>5, <2>6, Zenon DEF RoutineNext
<1> QED BY <1>1, <1>2, PTL DEF RoutineSpec

(* A test that is awaited has a caller inside its operation: the breaker    *)
(* is HalfOpen, and someone whose outcome will be marked was admitted as    *)
(* the test.                                                                *)
TestIsRunning ==
    inTest => state = "HalfOpen" /\ \E c \in Callers : running[c] = "test"

(* For any number of callers, whatever is forced and however late they      *)
(* report: a breaker that refuses callers because its test is out has a     *)
(* caller in Execute whose MarkSuccess or MarkFailureAt will free the slot. *)
(* A half-open breaker is never left waiting for nobody.                    *)
THEOREM AwaitedTestIsRunning == RoutineSpec => []TestIsRunning
<1> DEFINE Inv == running \in [Callers -> {"no", "closed", "test"}] /\ TestIsRunning
<1>1. RoutineInit => Inv
  BY Zenon DEF RoutineInit, TestIsRunning
<1>2. Inv /\ [RoutineNext]_routineVars => Inv'
  <2> SUFFICES ASSUME Inv, [RoutineNext]_routineVars PROVE Inv'
    OBVIOUS
  <2>1. CASE RoutineTick
    BY <2>1, Zenon DEF RoutineTick, TestIsRunning, fields
  <2>2. ASSUME NEW c \in Callers, Allow(c) PROVE Inv'
    <3>1. CASE state = "Closed"
      <4>1. ~inTest /\ state # "Open" /\ state # "HalfOpen"
        BY <3>1, Zenon DEF TestIsRunning
      <4>2. UNCHANGED fields /\ running' = [running EXCEPT ![c] = "closed"]
        BY <2>2, <4>1, Zenon DEF Allow
      <4>3. ~inTest'
        BY <4>1, <4>2, Zenon DEF fields
      <4> QED BY <4>2, <4>3, Zenon DEF TestIsRunning
    <3>2. CASE state # "Closed"
      <4>1. running' = [running EXCEPT ![c] = "test"] /\ state' = "HalfOpen"
        BY <2>2, <3>2, Zenon DEF Allow
      <4>2. running'[c] = "test"
        BY <4>1, Zenon
      <4> QED BY <4>1, <4>2, Zenon DEF TestIsRunning
    <3> QED BY <3>1, <3>2, Zenon
  <2>3. ASSUME NEW c \in Callers, Finish(c) PROVE Inv'
    <3>1. running' = [running EXCEPT ![c] = "no"]
      BY <2>3, Zenon DEF Finish
    <3>2. ~inTest'
      BY <2>3, Zenon DEF Finish, MarkSuccess, MarkFailure, TestIsRunning, fields
    <3> QED BY <3>1, <3>2, Zenon DEF TestIsRunning
  <2>4. CASE ForceOpen \/ ForceClose
    BY <2>4, Zenon DEF ForceOpen, ForceClose, TestIsRunning
  <2>5. CASE UNCHANGED routineVars
    BY <2>5, Zenon DEF routineVars, fields, TestIsRunning
  <2> QED BY <2>1, <2>2, <2>3, <2>4, <2>5, Zenon DEF RoutineNext
<1> QED BY <1>1, <1>2, PTL DEF RoutineSpec

-----------------------------------------------------------------------------
(***************************************************************************)
(* The turns of the gateway and the breakers of its backends.  While one   *)
(* backend works, no turn is refused for want of a backend: no failure is  *)
(* ever recorded against a backend that works, so its breaker stays        *)
(* Closed, and until it is asked it is still among the candidates of every *)
(* walk.                                                                   *)
(***************************************************************************)

Works == Backends \ Flaky

(* The breakers: the working backends are in service, and a Closed breaker  *)
(* is below its threshold.                                                  *)
BreakersInv ==
    /\ breaker \in [Backends -> Routines]
    /\ \A b \in Works : breaker[b].state = "Closed"
    /\ \A b \in Backends : breaker[b].state = "Closed" => breaker[b].count < Threshold

(* The working backends a request has yet to ask, by its program counter.   *)
KeepsCandidates(r) ==
    /\ r.kind \notin Embeds =>
         /\ r.pc \in {"authorize", "walk"} => Works \subseteq r.left
         /\ (r.pc = "ask" /\ r.at \in Flaky) => Works \subseteq r.left
    /\ r.kind \in Embeds =>
         /\ r.pc = "authorize" => Works \subseteq r.left
         /\ r.pc = "walk" => Works \subseteq (r.left \cup r.healthy)

(* Only a backend that may fail is blamed, on a route in use.               *)
Blames(r) ==
    /\ r.last \in Flaky \cup {NoBackend}
    /\ r.pc \in {"ask", "stream", "succeed"} => r.at \in Backends
    /\ (r.pc = "record" /\ r.result = "served") => r.at \in Backends
    /\ Works # {} => r.result # "exhausted"
    /\ r.kind \in traffic.kinds \cup {"none"}

RequestsInv ==
    /\ turn \in [Turns -> Requests]
    /\ outcome \in [Turns -> Endings]
    /\ \A t \in Turns : KeepsCandidates(turn[t]) /\ Blames(turn[t])
    /\ Works # {} => \A t \in Turns : outcome[t] \notin {"exhausted", "quarantined"}

Orderly == BreakersInv /\ RequestsInv
IInv == traffic \in Traffics /\ Orderly

-----------------------------------------------------------------------------
(* Admitting a turn leaves the breakers in order.                           *)
LEMMA AllowKeeps ==
    ASSUME BreakersInv, NEW b \in Backends, AllowAt(b)
    PROVE  BreakersInv'
  <1>1. CASE breaker[b].state = "Closed"
    BY <1>1, Zenon DEF AllowAt, BreakersInv
  <1>2. CASE breaker[b].state # "Closed"
    <2>. DEFINE new == [breaker[b] EXCEPT !.state = "HalfOpen", !.inTest = TRUE]
    <2>1. new \in Routines /\ new.state = "HalfOpen"
      BY Zenon DEF BreakersInv, Routines
    <2>2. breaker' = [breaker EXCEPT ![b] = new]
      BY <1>2, Zenon DEF AllowAt, BreakersInv, Routines
    <2>. HIDE DEF new
    <2>. QED BY <1>2, <2>1, <2>2, Zenon DEF BreakersInv, Works
  <1>. QED BY <1>1, <1>2, Zenon

(* So does a failure recorded against a backend that may fail.              *)
LEMMA FailureKeeps ==
    ASSUME BreakersInv, NEW b \in Flaky, NEW error, RecordFailure(b, error)
    PROVE  BreakersInv'
  <1>0. b \in Backends /\ Threshold \in Nat \ {0} /\ Cooldown \in Nat
    BY FailoverConstants, Zenon DEF FailoverConstants
  <1>. DEFINE r == breaker[b]
  <1>1. r \in Routines
    BY <1>0, Zenon DEF BreakersInv
  <1>o. \A n \in 0 .. Threshold : Opened(n) \in Routines /\ Opened(n).state = "Open"
    BY <1>0 DEF Opened, Routines
  <1>2. \E new \in Routines :
           /\ breaker' = [breaker EXCEPT ![b] = new]
           /\ new.state = "Closed" => new.count < Threshold
    <2>1. CASE error \in {"terminal", "rateLimited"}
      <3>1. breaker' = [breaker EXCEPT ![b] = Opened(Threshold)]
        BY <2>1, Zenon DEF RecordFailure, ForceOpenAt
      <3>2. Threshold \in 0 .. Threshold
        BY <1>0
      <3>. QED BY <1>o, <3>1, <3>2, Zenon
    <2>2. CASE error \notin {"terminal", "rateLimited"} /\ r.state = "HalfOpen"
      <3>1. breaker' = [breaker EXCEPT ![b] = Opened(r.count)]
        BY <2>2, Zenon DEF RecordFailure, MarkFailureAt
      <3>2. r.count \in 0 .. Threshold
        BY <1>1, Zenon DEF Routines
      <3>. QED BY <1>o, <3>1, <3>2, Zenon
    <2>3. CASE error \notin {"terminal", "rateLimited"} /\ r.state = "Open"
      <3>1. breaker' = [breaker EXCEPT ![b] = r]
        BY <2>3, Zenon DEF RecordFailure, MarkFailureAt
      <3>. QED BY <1>1, <2>3, <3>1, Zenon
    <2>4. CASE error \notin {"terminal", "rateLimited"} /\ r.state = "Closed"
      <3>0. r.count \in 0 .. Threshold /\ r.count < Threshold
        BY <1>0, <1>1, <2>4, Zenon DEF BreakersInv, Routines
      <3>1. CASE r.count + 1 >= Threshold
        <4>1. breaker' = [breaker EXCEPT ![b] = Opened(r.count + 1)]
          BY <2>4, <3>1, Zenon DEF RecordFailure, MarkFailureAt
        <4>2. r.count + 1 \in 0 .. Threshold
          BY <1>0, <3>0
        <4>. QED BY <1>o, <4>1, <4>2, Zenon
      <3>2. CASE ~(r.count + 1 >= Threshold)
        <4>. DEFINE new == [r EXCEPT !.count = r.count + 1]
        <4>1. new \in Routines /\ new.count = r.count + 1
          BY <1>0, <1>1, <3>0 DEF Routines
        <4>2. breaker' = [breaker EXCEPT ![b] = new]
          BY <2>4, <3>2, Zenon DEF RecordFailure, MarkFailureAt
        <4>3. new.count < Threshold
          BY <1>0, <3>0, <3>2, <4>1
        <4>. HIDE DEF new
        <4>. QED BY <4>1, <4>2, <4>3, Zenon
      <3>. QED BY <3>1, <3>2, Zenon
    <2>. QED BY <1>1, <2>1, <2>2, <2>3, <2>4, Zenon DEF Routines
  <1>. QED BY <1>0, <1>2, Zenon DEF BreakersInv, Works

(* And a success, of any backend.                                           *)
LEMMA SuccessKeeps ==
    ASSUME BreakersInv, NEW b \in Backends, RecordSuccess(b)
    PROVE  BreakersInv'
  <1>0. Threshold \in Nat \ {0}
    BY FailoverConstants, Zenon DEF FailoverConstants
  <1>. DEFINE new == [state |-> "Closed", count |-> 0, age |-> breaker[b].age, inTest |-> FALSE]
  <1>r. breaker[b] \in Routines
    BY Zenon DEF BreakersInv
  <1>1. new \in Routines /\ new.count = 0 /\ new.state = "Closed"
    BY <1>0, <1>r DEF Routines
  <1>2. breaker' = [breaker EXCEPT ![b] = new]
    BY Zenon DEF RecordSuccess
  <1>. HIDE DEF new
  <1>. QED BY <1>0, <1>1, <1>2 DEF BreakersInv, Works

(* And the passing of time.                                                 *)
LEMMA TickKeeps ==
    ASSUME BreakersInv, Tick
    PROVE  BreakersInv'
  <1>0. Cooldown \in Nat
    BY FailoverConstants, Zenon DEF FailoverConstants
  <1>. SUFFICES ASSUME NEW b \in Backends
       PROVE  /\ breaker'[b] \in Routines
              /\ breaker'[b].state = breaker[b].state
              /\ breaker'[b].count = breaker[b].count
    BY Zenon DEF BreakersInv, Works, Tick
  <1>1. breaker[b] \in Routines
    BY Zenon DEF BreakersInv
  <1>. DEFINE age == IF breaker[b].age > Cooldown THEN breaker[b].age ELSE breaker[b].age + 1
  <1>2. breaker'[b] = [breaker[b] EXCEPT !.age = age]
    BY Zenon DEF Tick
  <1>3. age \in 0 .. Cooldown + 1
    BY <1>0, <1>1 DEF Routines
  <1>. HIDE DEF age
  <1>. QED BY <1>1, <1>2, <1>3, Zenon DEF Routines

(* A working backend is never quarantined.                                  *)
LEMMA NotQuarantined ==
    ASSUME BreakersInv, Works # {}
    PROVE  ~quarantined
  BY Zenon DEF BreakersInv, quarantined, WouldAllowAt, Works

-----------------------------------------------------------------------------
(* A request that goes on in order keeps the requests in order ...          *)
LEMMA ContinueKeeps ==
    ASSUME RequestsInv, NEW t \in Turns, NEW new \in Requests,
           KeepsCandidates(new), Blames(new), Continue(t, new)
    PROVE  RequestsInv'
  BY Zenon DEF RequestsInv, Continue, Blames

(* ... and so does one that ends other than for want of a backend.          *)
LEMMA EndKeeps ==
    ASSUME RequestsInv, NEW t \in Turns, NEW how \in Endings, End(t, how),
           Works # {} => how \notin {"exhausted", "quarantined"}
    PROVE  RequestsInv'
  <1>1. Idle \in Requests /\ KeepsCandidates(Idle) /\ Blames(Idle)
    BY Zenon DEF Idle, Requests, KeepsCandidates, Blames
  <1>. QED BY <1>1, Zenon DEF RequestsInv, End, Blames

(* The steps of a request.  Those that ask nothing of a breaker first.      *)
LEMMA BeginKeeps ==
    ASSUME IInv, NEW t \in Turns, Begin(t)
    PROVE  Orderly'
  <1>1. BreakersInv' /\ traffic' = traffic
    BY Zenon DEF IInv, Orderly, BreakersInv, Begin, End
  <1>2. CASE quarantined
    <2>1. Works = {} /\ End(t, "quarantined")
      BY <1>2, NotQuarantined, Zenon DEF IInv, Orderly, Begin
    <2>. QED BY <1>1, <2>1, EndKeeps, Zenon DEF IInv, Orderly, Endings
  <1>3. CASE ~quarantined
    <2>1. PICK k \in traffic.kinds :
             /\ turn' = [turn EXCEPT ![t] = [Idle EXCEPT !.kind = k, !.left = Backends,
                           !.pc = IF k \in OpenAI THEN "authorize" ELSE "walk"]]
             /\ outcome' = [outcome EXCEPT ![t] = "none"]
      BY <1>3, Zenon DEF Begin
    <2>. DEFINE new == [Idle EXCEPT !.kind = k, !.left = Backends,
                           !.pc = IF k \in OpenAI THEN "authorize" ELSE "walk"]
    <2>0. k \in Kinds
      BY FailoverConstants, Zenon DEF FailoverConstants, IInv, Orderly
    <2>2. new \in Requests /\ KeepsCandidates(new) /\ Blames(new)
      BY <2>0, Zenon DEF Idle, Requests, KeepsCandidates, Blames, Works
    <2>. HIDE DEF new
    <2>3. turn' = [turn EXCEPT ![t] = new]
      BY <2>1, Zenon DEF new
    <2>4. outcome' \in [Turns -> Endings]
      BY <2>1, Zenon DEF IInv, Orderly, RequestsInv, Endings
    <2>5. turn' \in [Turns -> Requests]
      BY <2>2, <2>3, Zenon DEF IInv, Orderly, RequestsInv
    <2>. QED BY <1>1, <2>1, <2>2, <2>3, <2>4, <2>5, Zenon DEF IInv, Orderly, RequestsInv, Blames
  <1>. QED BY <1>2, <1>3, Zenon

LEMMA WalkKeeps ==
    ASSUME IInv, NEW t \in Turns, Authorize(t) \/ Skip(t) \/ Exhaust(t) \/ PickEmbed(t)
    PROVE  Orderly'
  <1>. DEFINE r == turn[t]
  <1>0. r \in Requests /\ KeepsCandidates(r) /\ Blames(r) /\ BreakersInv /\ RequestsInv
    BY Zenon DEF IInv, Orderly, RequestsInv
  <1>1. BreakersInv'
    BY Zenon DEF IInv, Orderly, BreakersInv, Authorize, Skip, Exhaust, PickEmbed
  <1>2. CASE Authorize(t)
    <2>1. CASE quarantined
      <3>1. Works = {} /\ End(t, "quarantined")
        BY <1>0, <1>2, <2>1, NotQuarantined, Zenon DEF Authorize
      <3>. QED BY <1>0, <1>1, <3>1, EndKeeps, Zenon DEF IInv, Orderly, Endings
    <2>2. CASE ~quarantined
      <3>. DEFINE new == [r EXCEPT !.pc = "walk"]
      <3>1. Continue(t, new)
        BY <1>2, <2>2, Zenon DEF Authorize
      <3>2. new \in Requests /\ KeepsCandidates(new) /\ Blames(new)
        BY <1>0, <1>2, Zenon DEF Requests, KeepsCandidates, Blames, Authorize
      <3>. HIDE DEF new
      <3>. QED BY <1>0, <1>1, <3>1, <3>2, ContinueKeeps, Zenon DEF IInv, Orderly
    <2>. QED BY <2>1, <2>2, Zenon
  <1>3. CASE Skip(t)
    <2>1. PICK b \in r.left : ~WouldAllowAt(b) /\ Continue(t, [r EXCEPT !.left = @ \ {b}])
      BY <1>3, Zenon DEF Skip
    <2>2. b \notin Works
      BY <1>0, <2>1, Zenon DEF BreakersInv, WouldAllowAt
    <2>. DEFINE new == [r EXCEPT !.left = r.left \ {b}]
    <2>3. new \in Requests /\ KeepsCandidates(new) /\ Blames(new)
      BY <1>0, <1>3, <2>2, Zenon DEF Requests, KeepsCandidates, Blames, Skip, Chats, Embeds
    <2>4. Continue(t, new)
      BY <2>1, Zenon
    <2>. HIDE DEF new
    <2>. QED BY <1>0, <1>1, <2>3, <2>4, ContinueKeeps, Zenon DEF IInv, Orderly
  <1>4. CASE Exhaust(t)
    <2>1. Works = {}
      BY <1>0, <1>4, Zenon DEF Exhaust, KeepsCandidates
    <2>. DEFINE new == [r EXCEPT !.pc = "record", !.result = "exhausted"]
    <2>2. Continue(t, new)
      BY <1>4, Zenon DEF Exhaust, Close
    <2>3. new \in Requests /\ KeepsCandidates(new) /\ Blames(new)
      BY <1>0, <2>1, Zenon DEF Requests, KeepsCandidates, Blames
    <2>. HIDE DEF new
    <2>. QED BY <1>0, <1>1, <2>2, <2>3, ContinueKeeps, Zenon DEF IInv, Orderly
  <1>5. CASE PickEmbed(t)
    <2>1. ASSUME NEW b \in r.healthy, Continue(t, [r EXCEPT !.pc = "ask", !.at = b, !.healthy = {}])
          PROVE  RequestsInv'
      <3>. DEFINE new == [r EXCEPT !.pc = "ask", !.at = b, !.healthy = {}]
      <3>1. new \in Requests /\ KeepsCandidates(new) /\ Blames(new)
        BY <1>0, <1>5, Zenon DEF Requests, KeepsCandidates, Blames, PickEmbed
      <3>2. Continue(t, new)
        BY <2>1, Zenon
      <3>. HIDE DEF new
      <3>. QED BY <1>0, <3>1, <3>2, ContinueKeeps, Zenon
    <2>2. ASSUME End(t, "failed")
          PROVE  RequestsInv'
      BY <1>0, <2>2, EndKeeps, Zenon DEF Endings
    <2>3. ASSUME r.healthy = {}, Continue(t, [r EXCEPT !.left = Backends, !.retried = TRUE])
          PROVE  RequestsInv'
      <3>. DEFINE new == [r EXCEPT !.left = Backends, !.retried = TRUE]
      <3>1. new \in Requests /\ KeepsCandidates(new) /\ Blames(new)
        BY <1>0, <1>5, Zenon DEF Requests, KeepsCandidates, Blames, PickEmbed, Works
      <3>2. Continue(t, new)
        BY <2>3, Zenon
      <3>. HIDE DEF new
      <3>. QED BY <1>0, <3>1, <3>2, ContinueKeeps, Zenon
    <2>4. ASSUME r.healthy = {}, End(t, "exhausted")
          PROVE  RequestsInv'
      <3>1. Works = {}
        BY <1>0, <1>5, <2>4, Zenon DEF PickEmbed, KeepsCandidates
      <3>. QED BY <1>0, <2>4, <3>1, EndKeeps, Zenon DEF Endings
    <2>. QED BY <1>1, <1>5, <2>1, <2>2, <2>3, <2>4, Zenon DEF PickEmbed, IInv, Orderly
  <1>. QED BY <1>2, <1>3, <1>4, <1>5, Zenon

LEMMA TakeKeeps ==
    ASSUME IInv, NEW t \in Turns, Take(t)
    PROVE  Orderly'
  <1>. DEFINE r == turn[t]
  <1>0. r \in Requests /\ KeepsCandidates(r) /\ Blames(r) /\ BreakersInv /\ RequestsInv
    BY Zenon DEF IInv, Orderly, RequestsInv
  <1>1. PICK b \in r.left :
          /\ IF r.kind \in Chats THEN AllowAt(b) ELSE UNCHANGED breaker
          /\ \/ Continue(t, [r EXCEPT !.pc = "ask", !.left = @ \ {b}, !.at = b])
             \/ /\ b \in Flaky /\ "connection" \in traffic.errors
                /\ IF r.refused # {}
                     THEN Continue(t, [r EXCEPT !.left = @ \ {b}, !.refused = @ \cup {b}])
                     ELSE End(t, "failed")
    BY Zenon DEF Take
  <1>2. b \in Backends
    BY <1>0, <1>1, Zenon DEF Requests
  <1>3. BreakersInv'
    <2>1. CASE r.kind \in Chats
      BY <1>0, <1>1, <1>2, <2>1, AllowKeeps, Zenon
    <2>2. CASE r.kind \notin Chats
      BY <1>0, <1>1, <2>2, Zenon DEF BreakersInv
    <2>. QED BY <2>1, <2>2, Zenon
  <1>4. CASE Continue(t, [r EXCEPT !.pc = "ask", !.left = @ \ {b}, !.at = b])
    <2>. DEFINE new == [r EXCEPT !.pc = "ask", !.left = r.left \ {b}, !.at = b]
    <2>1. new \in Requests /\ KeepsCandidates(new) /\ Blames(new)
      BY <1>0, <1>2, Zenon DEF Requests, KeepsCandidates, Blames, Take, Works
    <2>2. Continue(t, new)
      BY <1>4, Zenon
    <2>. HIDE DEF new
    <2>. QED BY <1>0, <1>3, <2>1, <2>2, ContinueKeeps, Zenon DEF IInv, Orderly
  <1>5. CASE b \in Flaky /\ Continue(t, [r EXCEPT !.left = @ \ {b}, !.refused = @ \cup {b}])
    <2>. DEFINE new == [r EXCEPT !.left = r.left \ {b}, !.refused = r.refused \cup {b}]
    <2>1. new \in Requests /\ KeepsCandidates(new) /\ Blames(new)
      BY <1>0, <1>2, <1>5, Zenon DEF Requests, KeepsCandidates, Blames, Take, Works
    <2>2. Continue(t, new)
      BY <1>5, Zenon
    <2>. HIDE DEF new
    <2>. QED BY <1>0, <1>3, <2>1, <2>2, ContinueKeeps, Zenon DEF IInv, Orderly
  <1>6. CASE End(t, "failed")
    BY <1>0, <1>3, <1>6, EndKeeps, Zenon DEF IInv, Orderly, Endings
  <1>. QED BY <1>1, <1>4, <1>5, <1>6, Zenon

LEMMA ReplyKeeps ==
    ASSUME IInv, NEW t \in Turns, Refuse(t) \/ Fail(t) \/ Answer(t) \/ StreamEnds(t) \/ EmbedAnswer(t)
    PROVE  Orderly'
  <1>. DEFINE r == turn[t]
  <1>0. r \in Requests /\ KeepsCandidates(r) /\ Blames(r) /\ BreakersInv /\ RequestsInv
    BY Zenon DEF IInv, Orderly, RequestsInv
  <1>1. BreakersInv'
    BY Zenon DEF IInv, Orderly, BreakersInv, Refuse, Fail, Answer, StreamEnds, EmbedAnswer
  <1>2. ASSUME NEW how \in {"served", "failed"}, Close(t, how), how = "served" => r.at \in Backends
        PROVE  RequestsInv'
    <2>. DEFINE new == [r EXCEPT !.pc = "record", !.result = how]
    <2>1. new \in Requests /\ KeepsCandidates(new) /\ Blames(new)
      BY <1>0, <1>2, Zenon DEF Requests, KeepsCandidates, Blames
    <2>2. Continue(t, new)
      BY <1>2, Zenon DEF Close
    <2>. HIDE DEF new
    <2>. QED BY <1>0, <2>1, <2>2, ContinueKeeps, Zenon
  <1>3. CASE Refuse(t)
    <2>. DEFINE new == [r EXCEPT !.pc = "walk", !.refused = r.refused \cup {r.at},
                                 !.last = r.at, !.at = NoBackend]
    <2>1. r.at \in Flaky /\ r.pc = "ask" /\ r.kind \notin Embeds
      BY <1>3, Zenon DEF Refuse, MayFail
    <2>2. r.at \in Backends
      BY <1>0, <2>1, Zenon DEF Blames
    <2>3. new \in Requests
      BY <1>0, <2>2, Zenon DEF Requests
    <2>4. KeepsCandidates(new) /\ Blames(new)
      BY <1>0, <2>1, Zenon DEF Requests, KeepsCandidates, Blames
    <2>5. Continue(t, new)
      BY <1>3, Zenon DEF Refuse
    <2>. HIDE DEF new
    <2>. QED BY <1>0, <1>1, <2>3, <2>4, <2>5, ContinueKeeps, Zenon DEF IInv, Orderly
  <1>4. CASE Fail(t)
    BY <1>1, <1>2, <1>4, Zenon DEF Fail, IInv, Orderly
  <1>5. CASE Answer(t)
    <2>1. CASE r.kind \in Chats
      BY <1>0, <1>1, <1>2, <1>5, <2>1, Zenon DEF Answer, IInv, Orderly, Blames
    <2>2. CASE r.kind \notin Chats
      <3>. DEFINE new == [r EXCEPT !.pc = "stream"]
      <3>1. new \in Requests /\ KeepsCandidates(new) /\ Blames(new)
        BY <1>0, <1>5, Zenon DEF Requests, KeepsCandidates, Blames, Answer
      <3>2. Continue(t, new)
        BY <1>5, <2>2, Zenon DEF Answer
      <3>. HIDE DEF new
      <3>. QED BY <1>0, <1>1, <3>1, <3>2, ContinueKeeps, Zenon DEF IInv, Orderly
    <2>. QED BY <2>1, <2>2, Zenon
  <1>6. CASE StreamEnds(t)
    <2>1. ASSUME Continue(t, [r EXCEPT !.pc = "succeed"]) PROVE RequestsInv'
      <3>. DEFINE new == [r EXCEPT !.pc = "succeed"]
      <3>1. new \in Requests /\ KeepsCandidates(new) /\ Blames(new)
        BY <1>0, <1>6, Zenon DEF Requests, KeepsCandidates, Blames, StreamEnds
      <3>2. Continue(t, new)
        BY <2>1, Zenon
      <3>. HIDE DEF new
      <3>. QED BY <1>0, <3>1, <3>2, ContinueKeeps, Zenon
    <2>2. ASSUME End(t, "gone") PROVE RequestsInv'
      BY <1>0, <2>2, EndKeeps, Zenon DEF Endings
    <2>. QED BY <1>1, <1>2, <1>6, <2>1, <2>2, Zenon DEF StreamEnds, IInv, Orderly
  <1>7. CASE EmbedAnswer(t)
    <2>1. ASSUME End(t, "served") PROVE RequestsInv'
      BY <1>0, <2>1, EndKeeps, Zenon DEF Endings
    <2>2. ASSUME Continue(t, [Idle EXCEPT !.pc = "walk", !.kind = r.kind, !.left = Backends])
          PROVE RequestsInv'
      <3>. DEFINE new == [Idle EXCEPT !.pc = "walk", !.kind = r.kind, !.left = Backends]
      <3>1. new \in Requests /\ KeepsCandidates(new) /\ Blames(new)
        BY <1>0, <1>7, Zenon DEF Idle, Requests, KeepsCandidates, Blames, EmbedAnswer, Works
      <3>2. Continue(t, new)
        BY <2>2, Zenon
      <3>. HIDE DEF new
      <3>. QED BY <1>0, <3>1, <3>2, ContinueKeeps, Zenon
    <2>. QED BY <1>1, <1>7, <2>1, <2>2, Zenon DEF EmbedAnswer, IInv, Orderly
  <1>. QED BY <1>3, <1>4, <1>5, <1>6, <1>7, Zenon

(* The steps that record what was seen, and the embedding's consultation.   *)
LEMMA ReportKeeps ==
    ASSUME IInv, NEW t \in Turns, Record(t) \/ Succeed(t)
    PROVE  Orderly'
  <1>. DEFINE r == turn[t]
  <1>0. r \in Requests /\ KeepsCandidates(r) /\ Blames(r) /\ BreakersInv /\ RequestsInv
    BY Zenon DEF IInv, Orderly, RequestsInv
  <1>1. CASE Record(t)
    <2>1. BreakersInv'
      <3>1. CASE r.last # NoBackend
        BY <1>0, <1>1, <3>1, FailureKeeps, Zenon DEF Record, Blames
      <3>2. CASE r.last = NoBackend
        BY <1>0, <1>1, <3>2, Zenon DEF Record, BreakersInv
      <3>. QED BY <3>1, <3>2, Zenon
    <2>2. CASE r.result = "served"
      <3>. DEFINE new == [r EXCEPT !.pc = "succeed"]
      <3>1. new \in Requests /\ KeepsCandidates(new) /\ Blames(new)
        BY <1>0, <1>1, <2>2, Zenon DEF Requests, KeepsCandidates, Blames, Record
      <3>2. Continue(t, new)
        BY <1>1, <2>2, Zenon DEF Record
      <3>. HIDE DEF new
      <3>. QED BY <1>0, <2>1, <3>1, <3>2, ContinueKeeps, Zenon DEF IInv, Orderly
    <2>3. CASE r.result # "served"
      <3>1. End(t, r.result) /\ r.result \in Endings
        BY <1>0, <1>1, <2>3, Zenon DEF Record, Requests, Endings
      <3>2. Works # {} => r.result \notin {"exhausted", "quarantined"}
        BY <1>0, Zenon DEF Blames, Requests
      <3>. QED BY <1>0, <2>1, <3>1, <3>2, EndKeeps, Zenon DEF IInv, Orderly
    <2>. QED BY <2>2, <2>3, Zenon
  <1>2. CASE Succeed(t)
    <2>1. BreakersInv'
      <3>1. CASE r.kind \in OpenAI
        BY <1>0, <1>2, <3>1, Zenon DEF Succeed, BreakersInv
      <3>2. CASE r.kind \notin OpenAI
        BY <1>0, <1>2, <3>2, SuccessKeeps, Zenon DEF Succeed, Blames
      <3>. QED BY <3>1, <3>2, Zenon
    <2>2. End(t, "served")
      BY <1>2, Zenon DEF Succeed
    <2>. QED BY <1>0, <2>1, <2>2, EndKeeps, Zenon DEF IInv, Orderly, Endings
  <1>. QED BY <1>1, <1>2, Zenon

LEMMA ConsultKeeps ==
    ASSUME IInv, NEW t \in Turns, Consult(t)
    PROVE  Orderly'
  <1>. DEFINE r == turn[t]
  <1>0. r \in Requests /\ KeepsCandidates(r) /\ Blames(r) /\ BreakersInv /\ RequestsInv
    BY Zenon DEF IInv, Orderly, RequestsInv
  <1>1. PICK b \in r.left :
         \/ /\ AllowAt(b)
            /\ Continue(t, [r EXCEPT !.left = @ \ {b}, !.healthy = @ \cup {b}])
         \/ /\ ~WouldAllowAt(b)
            /\ Continue(t, [r EXCEPT !.left = @ \ {b}])
            /\ UNCHANGED breaker
    BY Zenon DEF Consult
  <1>2. b \in Backends /\ r.pc = "walk" /\ r.kind \in Embeds
    BY <1>0, <1>1, Zenon DEF Requests, Consult
  <1>3. CASE AllowAt(b) /\ Continue(t, [r EXCEPT !.left = @ \ {b}, !.healthy = @ \cup {b}])
    <2>. DEFINE new == [r EXCEPT !.left = r.left \ {b}, !.healthy = r.healthy \cup {b}]
    <2>1. new \in Requests /\ KeepsCandidates(new) /\ Blames(new)
      BY <1>0, <1>2, Zenon DEF Requests, KeepsCandidates, Blames
    <2>2. Continue(t, new)
      BY <1>3, Zenon
    <2>. HIDE DEF new
    <2>. QED BY <1>0, <1>2, <1>3, <2>1, <2>2, ContinueKeeps, AllowKeeps, Zenon DEF IInv, Orderly
  <1>4. CASE ~WouldAllowAt(b) /\ Continue(t, [r EXCEPT !.left = @ \ {b}]) /\ UNCHANGED breaker
    <2>. DEFINE new == [r EXCEPT !.left = r.left \ {b}]
    <2>0. b \notin Works
      BY <1>0, <1>4, Zenon DEF BreakersInv, WouldAllowAt
    <2>1. new \in Requests /\ KeepsCandidates(new) /\ Blames(new)
      BY <1>0, <1>2, <2>0, Zenon DEF Requests, KeepsCandidates, Blames
    <2>2. Continue(t, new)
      BY <1>4, Zenon
    <2>3. BreakersInv'
      BY <1>0, <1>4, Zenon DEF BreakersInv
    <2>. HIDE DEF new
    <2>. QED BY <1>0, <2>1, <2>2, <2>3, ContinueKeeps, Zenon DEF IInv, Orderly
  <1>. QED BY <1>1, <1>3, <1>4, Zenon

(* An embedding blames a working backend only for a cancelled request.      *)
LEMMA EmbedFailsKeeps ==
    ASSUME IInv, NEW t \in Turns, EmbedFails(t),
           Patient
    PROVE  Orderly'
  <1>. DEFINE r == turn[t]
  <1>0. r \in Requests /\ BreakersInv /\ RequestsInv
    BY Zenon DEF IInv, Orderly, RequestsInv
  <1>1. PICK error \in {"terminal"} \cup Final :
          /\ MayFail(t, error)
          /\ IF r.kind = "embed" THEN RecordFailure(r.at, error) ELSE UNCHANGED breaker
    BY Zenon DEF EmbedFails
  <1>2. CASE r.kind = "embed"
    <2>1. "embed" \in traffic.kinds
      BY <1>2, Zenon DEF IInv, Orderly, RequestsInv, Blames
    <2>2. r.at \in Flaky
      BY <1>1, <2>1, Zenon DEF MayFail, Patient
    <2>. QED BY <1>0, <1>1, <1>2, <2>2, FailureKeeps, EndKeeps, Zenon DEF EmbedFails, IInv, Orderly, Endings
  <1>3. CASE r.kind # "embed"
    <2>1. BreakersInv'
      BY <1>0, <1>1, <1>3, Zenon DEF BreakersInv
    <2>. QED BY <1>0, <2>1, EndKeeps, Zenon DEF EmbedFails, IInv, Orderly, Endings
  <1>. QED BY <1>2, <1>3, Zenon

-----------------------------------------------------------------------------
LEMMA InitIInv == Init => IInv
  <1>. SUFFICES ASSUME Init PROVE IInv
    OBVIOUS
  <1>1. BreakersInv
    <2>. DEFINE new == [state |-> "Closed", count |-> 0, age |-> 0, inTest |-> FALSE]
    <2>1. 0 \in 0 .. Threshold /\ 0 \in 0 .. (Cooldown + 1) /\ 0 < Threshold
      BY FailoverConstants DEF FailoverConstants
    <2>2. new \in Routines
      BY <2>1, Zenon DEF Routines
    <2>3. breaker = [b \in Backends |-> new]
      BY Zenon DEF Init
    <2>4. new.state = "Closed" /\ new.count < Threshold
      BY <2>1, Zenon
    <2>. HIDE DEF new
    <2>. QED BY <2>2, <2>3, <2>4, Zenon DEF BreakersInv, Works
  <1>2. Idle \in Requests /\ KeepsCandidates(Idle) /\ Blames(Idle)
    BY Zenon DEF Idle, Requests, KeepsCandidates, Blames
  <1>. QED BY <1>1, <1>2, Zenon DEF Init, IInv, Orderly, RequestsInv, Endings

(* Whatever a request does, the traffic stays what it was.                  *)
LEMMA TrafficStays ==
    ASSUME [Next]_vars
    PROVE  traffic' = traffic
  <1>1. CASE Tick
    BY <1>1, Zenon DEF Tick
  <1>2. ASSUME NEW t \in Turns, Begin(t) PROVE traffic' = traffic
    BY <1>2, ZenonT(30) DEF Begin, End
  <1>3. ASSUME NEW t \in Turns, Walk(t) PROVE traffic' = traffic
    BY <1>3, Zenon DEF Walk, Authorize, Skip, Take, Exhaust, Consult, PickEmbed, Close, End, Continue
  <1>4. ASSUME NEW t \in Turns, Reply(t) PROVE traffic' = traffic
    BY <1>4, Zenon DEF Reply, Refuse, Fail, Answer, StreamEnds, EmbedFails, EmbedAnswer, Close, End, Continue
  <1>5. ASSUME NEW t \in Turns, Report(t) PROVE traffic' = traffic
    BY <1>5, Zenon DEF Report, Record, Succeed, End, Continue
  <1>. QED BY <1>1, <1>2, <1>3, <1>4, <1>5, Zenon DEF Next, vars

(* The invariant holds as long as nobody hangs up on an embedding.          *)
THEOREM IInvInvariant == Spec => [](Patient => IInv)
  <1>1. (Patient => IInv) /\ [Next]_vars => (Patient => IInv)'
    <2>. SUFFICES ASSUME Patient => IInv, [Next]_vars, Patient' PROVE IInv'
      OBVIOUS
    <2>0. Patient /\ IInv /\ traffic' = traffic
      BY TrafficStays, Zenon DEF Patient
    <2>1. CASE Tick
      BY <2>0, <2>1, TickKeeps, Zenon DEF IInv, Orderly, RequestsInv, Blames, Tick
    <2>2. ASSUME NEW t \in Turns, Begin(t) \/ Walk(t) \/ Reply(t) \/ Report(t)
          PROVE  IInv'
      <3>1. traffic' \in Traffics
        BY <2>0, Zenon DEF IInv
      <3>2. Orderly'
        BY <2>0, <2>2, BeginKeeps, WalkKeeps, TakeKeeps, ConsultKeeps, ReplyKeeps, EmbedFailsKeeps, ReportKeeps, Zenon
           DEF Walk, Reply, Report
      <3>. QED BY <3>1, <3>2, Zenon DEF IInv
    <2>3. CASE UNCHANGED vars
      BY <2>0, <2>3, Zenon DEF vars, IInv, Orderly, BreakersInv, RequestsInv, Blames
    <2>. QED BY <2>1, <2>2, <2>3, Zenon DEF Next
  <1>2. Init => (Patient => IInv)
    BY InitIInv, Zenon
  <1>. QED BY <1>1, <1>2, PTL DEF Spec

(* While one backend works no turn of any number of concurrent turns is     *)
(* refused for want of a backend (authorizeCaller, the llmrepo walks).      *)
THEOREM AlwaysServed == Spec => []ServedWhileOneWorks
  <1>1. (Patient => IInv) => ServedWhileOneWorks
    BY Zenon DEF IInv, Orderly, RequestsInv, ServedWhileOneWorks, Works
  <1>. QED BY <1>1, IInvInvariant, PTL

(* The breakers' counts stay within the threshold, and every field of a     *)
(* request keeps its type, for every number of turns and backends, as long  *)
(* as nobody hangs up on an embedding.                                      *)
THEOREM FailoverTypes == Spec => [](Patient => FailoverTypeOK)
  <1>1. IInv => FailoverTypeOK
    BY Zenon DEF IInv, Orderly, BreakersInv, RequestsInv, FailoverTypeOK
  <1>. QED BY <1>1, IInvInvariant, PTL

-----------------------------------------------------------------------------
(* The probe of a half-open breaker.  AllowAt lets one turn through and     *)
(* waits for its report; health.record and recordBackendSuccess are the     *)
(* only reports.                                                            *)

(* A chat that will still report on b: it is asking b or about to report    *)
(* its answer, or b's refusal is the one its tracker has captured.          *)
Reports(r, b) ==
    /\ r.kind = "chat"
    /\ \/ r.at = b /\ r.pc \in {"ask", "record", "succeed"}
       \/ r.last = b /\ r.pc \in {"walk", "ask", "record"}

(* What a chat carries from one step to the next.                           *)
Carries(r) ==
    r.kind = "chat" =>
      /\ r.pc \in {"walk", "ask", "record", "succeed"}
      /\ r.pc = "walk" => r.at = NoBackend
      /\ r.pc = "record" => r.result = "served" \/ r.at = NoBackend

Awaited ==
    \A b \in Backends : breaker[b].inTest =>
        breaker[b].state = "HalfOpen" /\ \E t \in Turns : Reports(turn[t], b)

(* A breaker that waits for its probe is half open and some chat will still *)
(* report to it, while chats and streams are the traffic and one backend    *)
(* fails: the probe is never lost (IsAvailable, health.record).             *)
ProbeIsHeld == ProbesReturn => Awaited

HeldInv == (\A t \in Turns : Carries(turn[t])) /\ Awaited

(* A step that starts no probe keeps the others' reports; its own must be   *)
(* kept, or be the one it makes.                                            *)
Calm == \A c \in Backends : breaker'[c].inTest =>
            breaker[c].inTest /\ breaker'[c].state = breaker[c].state

LEMMA HandOver ==
    ASSUME HeldInv, turn \in [Turns -> Requests], NEW t \in Turns, NEW new,
           turn' = [turn EXCEPT ![t] = new], Calm, Carries(new),
           \A b \in Backends : breaker'[b].inTest /\ Reports(turn[t], b) => Reports(new, b)
    PROVE  HeldInv'
  <1>1. turn'[t] = new /\ \A u \in Turns : u # t => turn'[u] = turn[u]
    BY Zenon
  <1>2. ASSUME NEW u \in Turns PROVE Carries(turn[u])'
    <2>1. Carries(turn'[u])
      BY <1>1, Zenon DEF HeldInv
    <2> QED BY <2>1, Zenon DEF Carries
  <1>3. ASSUME NEW b \in Backends, breaker'[b].inTest
        PROVE  breaker'[b].state = "HalfOpen" /\ \E u \in Turns : Reports(turn'[u], b)
    <2>1. breaker[b].inTest /\ breaker'[b].state = "HalfOpen"
      BY <1>3, Zenon DEF Calm, HeldInv, Awaited
    <2>2. PICK u \in Turns : Reports(turn[u], b)
      BY <2>1, Zenon DEF HeldInv, Awaited
    <2>3. Reports(turn'[u], b)
      BY <1>1, <1>3, <2>2, Zenon
    <2> QED BY <2>1, <2>3, Zenon
  <1>4. Awaited'
    BY <1>3, Zenon DEF Awaited, Reports
  <1> QED BY <1>2, <1>4, Zenon DEF HeldInv

(* A report ends the wait of its own breaker and touches no other.          *)
LEMMA ReportCalms ==
    ASSUME BreakersInv, NEW b \in Backends, RecordFailure(b, "terminal") \/ RecordSuccess(b)
    PROVE  Calm /\ ~breaker'[b].inTest
  <1>1. PICK new : breaker' = [breaker EXCEPT ![b] = new] /\ new.inTest = FALSE
    <2>1. CASE RecordFailure(b, "terminal")
      <3>1. breaker' = [breaker EXCEPT ![b] = Opened(Threshold)]
        BY <2>1, Zenon DEF RecordFailure, ForceOpenAt
      <3>2. Opened(Threshold).inTest = FALSE
        BY Zenon DEF Opened
      <3> QED BY <3>1, <3>2, Zenon
    <2>2. CASE RecordSuccess(b)
      <3> DEFINE closed == [state |-> "Closed", count |-> 0, age |-> breaker[b].age, inTest |-> FALSE]
      <3>1. closed.inTest = FALSE
        BY Zenon
      <3>2. breaker' = [breaker EXCEPT ![b] = closed]
        BY <2>2, Zenon DEF RecordSuccess
      <3> HIDE DEF closed
      <3> QED BY <3>1, <3>2, Zenon
    <2> QED BY <2>1, <2>2, Zenon
  <1>2. breaker'[b] = new /\ \A c \in Backends : c # b => breaker'[c] = breaker[c]
    BY <1>1, Zenon DEF BreakersInv
  <1> QED BY <1>1, <1>2, Zenon DEF Calm

LEMMA UntouchedCalms == breaker' = breaker => Calm
  BY Zenon DEF Calm

(* The requests in progress while probes return.                            *)
LEMMA Probing ==
    ASSUME ProbesReturn, IInv, HeldInv, NEW t \in Turns
    PROVE  /\ turn \in [Turns -> Requests]
           /\ turn[t] \in Requests
           /\ turn[t].kind \in {"none", "chat", "stream"}
           /\ turn[t].kind \notin Embeds /\ turn[t].kind \notin OpenAI
           /\ Carries(turn[t])
           /\ turn[t].last \in Flaky \cup {NoBackend}
           /\ turn[t].pc = "succeed" => turn[t].at \in Backends
           /\ \A error \in Final \cup {"connection"} : error \notin traffic.errors
  <1>1. /\ turn \in [Turns -> Requests]
        /\ Blames(turn[t]) /\ Carries(turn[t])
    BY Zenon DEF IInv, Orderly, RequestsInv, HeldInv
  <1>2. turn[t] \in Requests
    BY <1>1, Zenon
  <1>3. turn[t].kind \in {"none", "chat", "stream"}
    BY <1>1, Zenon DEF Blames, ProbesReturn
  <1>4. turn[t].kind \notin Embeds /\ turn[t].kind \notin OpenAI
    BY <1>3, Zenon DEF Embeds, OpenAI
  <1>5. \A error \in Final \cup {"connection"} : error # "terminal"
    BY Zenon DEF Final
  <1>6. \A error \in Final \cup {"connection"} : error \notin traffic.errors
    BY <1>5, Zenon DEF ProbesReturn
  <1> QED BY <1>1, <1>2, <1>3, <1>4, <1>6, Zenon DEF Blames

(* Only a chat reports, and a request that is over is none.                 *)
LEMMA NothingToReport ==
    /\ Carries(Idle)
    /\ \A r, b : r.kind # "chat" => ~Reports(r, b) /\ Carries(r)
  <1>1. Idle.kind = "none"
    BY Zenon DEF Idle
  <1>2. Carries(Idle)
    BY <1>1, Zenon DEF Carries
  <1> QED BY <1>2, Zenon DEF Reports, Carries

LEMMA BeginHolds ==
    ASSUME ProbesReturn, IInv, HeldInv, NEW t \in Turns, Begin(t)
    PROVE  HeldInv'
  <1>1. /\ turn \in [Turns -> Requests]
        /\ Calm
        /\ \A b \in Backends : ~Reports(turn[t], b)
    <2>1. breaker' = breaker /\ turn[t].pc = "idle"
      BY Zenon DEF Begin
    <2>2. \A b \in Backends : ~Reports(turn[t], b)
      BY <2>1, Zenon DEF Reports
    <2> QED BY <2>1, <2>2, Probing, UntouchedCalms, Zenon
  <1>2. CASE turn' = [turn EXCEPT ![t] = Idle]
    BY <1>1, <1>2, HandOver, NothingToReport, Zenon
  <1>3. ASSUME NEW k \in traffic.kinds,
               turn' = [turn EXCEPT ![t] = [Idle EXCEPT !.kind = k, !.left = Backends,
                          !.pc = IF k \in OpenAI THEN "authorize" ELSE "walk"]]
        PROVE  HeldInv'
    <2> DEFINE new == [Idle EXCEPT !.kind = k, !.left = Backends,
                          !.pc = IF k \in OpenAI THEN "authorize" ELSE "walk"]
    <2>1. k \notin OpenAI
      BY Zenon DEF ProbesReturn, OpenAI
    <2>2. new.pc = "walk" /\ new.at = NoBackend
      BY <2>1, Zenon DEF Idle
    <2>3. Carries(new)
      BY <2>2, Zenon DEF Carries
    <2>4. turn' = [turn EXCEPT ![t] = new]
      BY <1>3, Zenon
    <2> HIDE DEF new
    <2> QED BY <1>1, <2>3, <2>4, HandOver, Zenon
  <1> QED BY <1>2, <1>3, Zenon DEF Begin, End

(* Authorize is on the OpenAI routes only.                                  *)
LEMMA WalkHolds ==
    ASSUME ProbesReturn, IInv, HeldInv, NEW t \in Turns,
           Authorize(t) \/ Skip(t) \/ Exhaust(t) \/ Consult(t) \/ PickEmbed(t)
    PROVE  HeldInv'
  <1>0. /\ turn \in [Turns -> Requests]
        /\ turn[t] \in Requests
        /\ turn[t].kind \notin Embeds
        /\ Carries(turn[t])
    BY Probing, Zenon
  <1>1. CASE Authorize(t)
    <2>1. turn[t].pc = "authorize" /\ breaker' = breaker
      BY <1>1, Zenon DEF Authorize
    <2>2. turn[t].kind # "chat"
      BY <1>0, <2>1, Zenon DEF Carries
    <2>3. \E new : turn' = [turn EXCEPT ![t] = new] /\ Carries(new)
      <3>1. CASE turn' = [turn EXCEPT ![t] = Idle]
        BY <3>1, NothingToReport, Zenon
      <3>2. CASE turn' = [turn EXCEPT ![t] = [turn[t] EXCEPT !.pc = "walk"]]
        <4>1. [turn[t] EXCEPT !.pc = "walk"].kind = turn[t].kind
          BY <1>0, Zenon DEF Requests
        <4> QED BY <2>2, <3>2, <4>1, NothingToReport, Zenon
      <3> QED BY <1>1, <3>1, <3>2, Zenon DEF Authorize, End, Continue
    <2>4. \A b \in Backends : ~Reports(turn[t], b)
      BY <2>2, NothingToReport, Zenon
    <2> QED BY <1>0, <2>1, <2>3, <2>4, HandOver, UntouchedCalms, Zenon
  <1>2. CASE Skip(t)
    <2>1. PICK b \in turn[t].left :
             turn' = [turn EXCEPT ![t] = [turn[t] EXCEPT !.left = turn[t].left \ {b}]]
      BY <1>2, Zenon DEF Skip, Continue
    <2> DEFINE new == [turn[t] EXCEPT !.left = turn[t].left \ {b}]
    <2>2. new.kind = turn[t].kind /\ new.pc = turn[t].pc /\ new.at = turn[t].at
          /\ new.last = turn[t].last /\ new.result = turn[t].result
      BY <1>0, Zenon DEF Requests
    <2>3. breaker' = breaker /\ turn' = [turn EXCEPT ![t] = new]
      BY <1>2, <2>1, Zenon DEF Skip
    <2> HIDE DEF new
    <2>4. Carries(new) /\ \A c \in Backends : Reports(turn[t], c) => Reports(new, c)
      BY <1>0, <2>2, Zenon DEF Carries, Reports
    <2> QED BY <1>0, <2>3, <2>4, HandOver, UntouchedCalms, Zenon
  <1>3. CASE Exhaust(t)
    <2> DEFINE new == [turn[t] EXCEPT !.pc = "record", !.result = "exhausted"]
    <2>1. turn[t].pc = "walk" /\ breaker' = breaker /\ turn' = [turn EXCEPT ![t] = new]
      BY <1>3, Zenon DEF Exhaust, Close, Continue
    <2>2. new.kind = turn[t].kind /\ new.pc = "record" /\ new.at = turn[t].at /\ new.last = turn[t].last
      BY <1>0, Zenon DEF Requests
    <2> HIDE DEF new
    <2>3. Carries(new) /\ \A c \in Backends : Reports(turn[t], c) => Reports(new, c)
      BY <1>0, <2>1, <2>2, Zenon DEF Carries, Reports
    <2> QED BY <1>0, <2>1, <2>3, HandOver, UntouchedCalms, Zenon
  <1>4. CASE Consult(t) \/ PickEmbed(t)
    BY <1>0, <1>4, Zenon DEF Consult, PickEmbed
  <1> QED BY <1>1, <1>2, <1>3, <1>4, Zenon

(* A chat that is let through is the one that will report.                  *)
LEMMA TakeHolds ==
    ASSUME ProbesReturn, IInv, HeldInv, NEW t \in Turns, Take(t)
    PROVE  HeldInv'
  <1>0. /\ turn \in [Turns -> Requests]
        /\ turn[t] \in Requests
        /\ breaker \in [Backends -> Routines]
        /\ turn[t].left \subseteq Backends
        /\ turn[t].pc = "walk"
        /\ "connection" \notin traffic.errors
    BY Probing, Zenon DEF Take, IInv, Orderly, BreakersInv, Requests
  <1>1. PICK b \in turn[t].left :
          /\ IF turn[t].kind \in Chats THEN AllowAt(b) ELSE UNCHANGED breaker
          /\ turn' = [turn EXCEPT ![t] = [turn[t] EXCEPT !.pc = "ask", !.left = @ \ {b}, !.at = b]]
    BY <1>0, Zenon DEF Take, Continue
  <1> DEFINE new == [turn[t] EXCEPT !.pc = "ask", !.left = @ \ {b}, !.at = b]
  <1>2. new.kind = turn[t].kind /\ new.pc = "ask" /\ new.at = b /\ new.last = turn[t].last
    BY <1>0, Zenon DEF Requests
  <1>3. turn' = [turn EXCEPT ![t] = new]
    BY <1>1, Zenon
  <1> HIDE DEF new
  <1>4. Carries(new) /\ \A c \in Backends : Reports(turn[t], c) => Reports(new, c)
    BY <1>0, <1>2, Zenon DEF Carries, Reports
  <1>5. CASE breaker' = breaker
    BY <1>0, <1>3, <1>4, <1>5, HandOver, UntouchedCalms, Zenon
  <1>6. CASE breaker' # breaker
    <2>1. turn[t].kind = "chat" /\ AllowAt(b) /\ breaker[b].state # "Closed"
      <3>1. turn[t].kind \in Chats /\ AllowAt(b)
        BY <1>1, <1>6, Zenon
      <3>2. turn[t].kind = "chat"
        BY <3>1, Probing, Zenon DEF Chats
      <3> QED BY <1>6, <3>1, <3>2, Zenon DEF AllowAt
    <2>2. /\ breaker'[b].state = "HalfOpen"
          /\ \A c \in Backends : c # b => breaker'[c] = breaker[c]
      BY <1>0, <2>1, Zenon DEF AllowAt, Routines
    <2>3. Reports(new, b)
      BY <1>2, <2>1, Zenon DEF Reports
    <2>4. turn'[t] = new /\ \A u \in Turns : u # t => turn'[u] = turn[u]
      BY <1>0, <1>3, Zenon
    <2>5. ASSUME NEW u \in Turns PROVE Carries(turn[u])'
      <3>1. Carries(turn'[u])
        BY <1>4, <2>4, Zenon DEF HeldInv
      <3> QED BY <3>1, Zenon DEF Carries
    <2>6. ASSUME NEW c \in Backends, breaker'[c].inTest
          PROVE  breaker'[c].state = "HalfOpen" /\ \E u \in Turns : Reports(turn'[u], c)
      <3>1. CASE c = b
        BY <2>2, <2>3, <2>4, <3>1, Zenon
      <3>2. CASE c # b
        <4>1. breaker[c].inTest /\ breaker'[c].state = breaker[c].state
          BY <2>2, <2>6, <3>2, Zenon
        <4>2. PICK u \in Turns : Reports(turn[u], c)
          BY <4>1, Zenon DEF HeldInv, Awaited
        <4>3. Reports(turn'[u], c)
          BY <1>4, <2>4, <4>2, Zenon
        <4> QED BY <4>1, <4>3, Zenon DEF HeldInv, Awaited
      <3> QED BY <3>1, <3>2, Zenon
    <2>7. Awaited'
      BY <2>6, Zenon DEF Awaited, Reports
    <2> QED BY <2>5, <2>7, Zenon DEF HeldInv
  <1> QED BY <1>5, <1>6, Zenon

(* A refusal is captured over at most the refusal of the same backend.      *)
LEMMA ReplyHolds ==
    ASSUME ProbesReturn, IInv, HeldInv, NEW t \in Turns, Reply(t)
    PROVE  HeldInv'
  <1>0. /\ turn \in [Turns -> Requests]
        /\ turn[t] \in Requests
        /\ turn[t].kind \notin Embeds
        /\ Carries(turn[t])
        /\ turn[t].last \in Flaky \cup {NoBackend}
        /\ \A error \in Final : error \notin traffic.errors
    BY Probing, Zenon
  <1>n. NoBackend \notin Backends
    BY FailoverConstants, Zenon DEF FailoverConstants
  <1>1. CASE Refuse(t)
    <2> DEFINE new == [turn[t] EXCEPT !.pc = "walk", !.refused = @ \cup {turn[t].at},
                                      !.last = turn[t].at, !.at = NoBackend]
    <2>1. turn[t].pc = "ask" /\ breaker' = breaker /\ turn' = [turn EXCEPT ![t] = new]
      BY <1>1, Zenon DEF Refuse, MayFail, Continue
    <2>2. new.kind = turn[t].kind /\ new.pc = "walk" /\ new.at = NoBackend /\ new.last = turn[t].at
      BY <1>0, Zenon DEF Requests
    <2> HIDE DEF new
    <2>3. turn[t].at \in Flaky
      <3>1. "terminal" # "cancelled"
        OBVIOUS
      <3> QED BY <1>1, <3>1, Zenon DEF Refuse, MayFail
    <2>4. ASSUME NEW c \in Backends, Reports(turn[t], c) PROVE c = turn[t].at
      <3>1. turn[t].last = c \/ turn[t].at = c
        BY <2>4, Zenon DEF Reports
      <3>2. turn[t].last = c => c \in Flaky
        BY <1>0, <1>n, Zenon
      <3> QED BY <2>3, <3>1, <3>2, Zenon DEF ProbesReturn
    <2>5. ASSUME NEW c \in Backends, Reports(turn[t], c) PROVE Reports(new, c)
      <3>1. new.kind = "chat" /\ new.last = c /\ new.pc \in {"walk", "ask", "record"}
        BY <2>2, <2>4, <2>5, Zenon DEF Reports
      <3> QED BY <3>1, Zenon DEF Reports
    <2>6. Carries(new)
      BY <2>2, Zenon DEF Carries
    <2> QED BY <1>0, <2>1, <2>5, <2>6, HandOver, UntouchedCalms, Zenon
  <1>2. CASE Fail(t)
    BY <1>0, <1>2, Zenon DEF Fail, MayFail
  <1>3. CASE Answer(t) /\ turn[t].kind \in Chats
    <2> DEFINE new == [turn[t] EXCEPT !.pc = "record", !.result = "served"]
    <2>1. turn[t].pc = "ask" /\ breaker' = breaker /\ turn' = [turn EXCEPT ![t] = new]
      BY <1>3, Zenon DEF Answer, Close, Continue
    <2>2. /\ new.kind = turn[t].kind /\ new.pc = "record" /\ new.result = "served"
          /\ new.at = turn[t].at /\ new.last = turn[t].last
      BY <1>0, Zenon DEF Requests
    <2> HIDE DEF new
    <2>3. Carries(new) /\ \A c \in Backends : Reports(turn[t], c) => Reports(new, c)
      BY <2>1, <2>2, Zenon DEF Carries, Reports
    <2> QED BY <1>0, <2>1, <2>3, HandOver, UntouchedCalms, Zenon
  <1>4. CASE (Answer(t) /\ turn[t].kind \notin Chats) \/ StreamEnds(t)
    <2>1. turn[t].kind # "chat"
      BY <1>0, <1>4, Zenon DEF Chats, StreamEnds, Carries
    <2>2. ASSUME NEW new, turn' = [turn EXCEPT ![t] = new], new.kind # "chat" PROVE HeldInv'
      <3>1. breaker' = breaker
        BY <1>4, Zenon DEF Answer, StreamEnds
      <3> QED BY <1>0, <2>1, <2>2, <3>1, HandOver, UntouchedCalms, NothingToReport, Zenon
    <2>3. Idle.kind # "chat"
      BY Zenon DEF Idle
    <2>4. \A p : [turn[t] EXCEPT !.pc = p].kind # "chat"
      BY <1>0, <2>1, Zenon DEF Requests
    <2>5. \A how : [turn[t] EXCEPT !.pc = "record", !.result = how].kind # "chat"
      BY <1>0, <2>1, Zenon DEF Requests
    <2> QED BY <1>4, <2>2, <2>3, <2>4, <2>5, Zenon DEF Answer, StreamEnds, Close, End, Continue
  <1>5. CASE EmbedFails(t) \/ EmbedAnswer(t)
    BY <1>0, <1>5, Zenon DEF EmbedFails, EmbedAnswer
  <1> QED BY <1>1, <1>2, <1>3, <1>4, <1>5, Zenon DEF Reply

(* The report reaches the breaker that waits for it.                        *)
LEMMA ReportHolds ==
    ASSUME ProbesReturn, IInv, HeldInv, NEW t \in Turns, Report(t)
    PROVE  HeldInv'
  <1>0. /\ turn \in [Turns -> Requests]
        /\ turn[t] \in Requests
        /\ turn[t].kind \notin OpenAI
        /\ Carries(turn[t])
        /\ turn[t].last \in Flaky \cup {NoBackend}
        /\ turn[t].pc = "succeed" => turn[t].at \in Backends
        /\ BreakersInv
    BY Probing, Zenon DEF IInv, Orderly
  <1>n. NoBackend \notin Backends /\ Flaky \subseteq Backends
    BY FailoverConstants, Zenon DEF FailoverConstants
  <1>1. CASE Record(t)
    <2>0. turn[t].pc = "record"
      BY <1>1, Zenon DEF Record
    <2>1. Calm /\ (turn[t].last # NoBackend => ~breaker'[turn[t].last].inTest)
      <3>1. CASE turn[t].last # NoBackend
        BY <1>0, <1>n, <1>1, <3>1, ReportCalms, Zenon DEF Record
      <3>2. CASE turn[t].last = NoBackend
        BY <1>1, <3>2, UntouchedCalms, Zenon DEF Record
      <3> QED BY <3>1, <3>2, Zenon
    <2>2. ASSUME NEW c \in Backends, breaker'[c].inTest, Reports(turn[t], c)
          PROVE  turn[t].kind = "chat" /\ turn[t].at = c /\ turn[t].result = "served"
      <3>1. turn[t].last # c
        BY <1>n, <2>1, <2>2, Zenon
      <3>2. turn[t].kind = "chat" /\ turn[t].at = c
        BY <2>2, <3>1, Zenon DEF Reports
      <3> QED BY <1>0, <1>n, <2>0, <3>2, Zenon DEF Carries
    <2>3. CASE turn[t].result = "served"
      <3> DEFINE new == [turn[t] EXCEPT !.pc = "succeed"]
      <3>1. turn' = [turn EXCEPT ![t] = new]
        BY <1>1, <2>3, Zenon DEF Record, Continue
      <3>2. new.kind = turn[t].kind /\ new.pc = "succeed" /\ new.at = turn[t].at
        BY <1>0, Zenon DEF Requests
      <3> HIDE DEF new
      <3>3. Carries(new)
        BY <3>2, Zenon DEF Carries
      <3>4. \A c \in Backends : breaker'[c].inTest /\ Reports(turn[t], c) => Reports(new, c)
        BY <2>2, <3>2, Zenon DEF Reports
      <3> QED BY <1>0, <2>1, <3>1, <3>3, <3>4, HandOver, Zenon
    <2>4. CASE turn[t].result # "served"
      <3>1. turn' = [turn EXCEPT ![t] = Idle]
        BY <1>1, <2>4, Zenon DEF Record, End
      <3> QED BY <1>0, <2>1, <2>2, <2>4, <3>1, HandOver, NothingToReport, Zenon
    <2> QED BY <2>3, <2>4, Zenon
  <1>2. CASE Succeed(t)
    <2>1. turn[t].pc = "succeed" /\ RecordSuccess(turn[t].at) /\ turn' = [turn EXCEPT ![t] = Idle]
      BY <1>0, <1>2, Zenon DEF Succeed, End
    <2>2. Calm /\ ~breaker'[turn[t].at].inTest
      BY <1>0, <2>1, ReportCalms, Zenon
    <2>3. \A c \in Backends : Reports(turn[t], c) => c = turn[t].at
      BY <2>1, Zenon DEF Reports
    <2>4. \A c \in Backends : breaker'[c].inTest /\ Reports(turn[t], c) => Reports(Idle, c)
      BY <2>2, <2>3, Zenon
    <2>5. Carries(Idle)
      BY NothingToReport, Zenon
    <2> QED BY <1>0, <2>1, <2>2, <2>4, <2>5, HandOver, Zenon
  <1> QED BY <1>1, <1>2, Zenon DEF Report

(* Time moves no probe.                                                     *)
LEMMA TickHolds ==
    ASSUME BreakersInv, HeldInv, Tick
    PROVE  HeldInv'
  <1>1. ASSUME NEW c \in Backends
        PROVE  breaker'[c].inTest = breaker[c].inTest /\ breaker'[c].state = breaker[c].state
    <2>1. breaker[c] \in Routines
      BY Zenon DEF BreakersInv
    <2>2. PICK age : breaker'[c] = [breaker[c] EXCEPT !.age = age]
      BY Zenon DEF Tick
    <2> QED BY <2>1, <2>2, Zenon DEF Routines
  <1>2. turn' = turn
    BY Zenon DEF Tick
  <1> QED BY <1>1, <1>2, ZenonT(30) DEF HeldInv, Awaited, Carries, Reports

(* For any number of turns and backends, while chats and streams are the    *)
(* traffic and at most one backend fails, terminally: a breaker that has    *)
(* let its probe through always has a chat that will report to it, so the   *)
(* probe cannot be lost (circuit.go IsAvailable, service.go record and      *)
(* recordBackendSuccess).  This is the safety half of Recovers.             *)
THEOREM ProbeNeverLost == Spec => []ProbeIsHeld
  <1>1. Init => (ProbesReturn => HeldInv)
    <2> SUFFICES ASSUME Init PROVE HeldInv
      OBVIOUS
    <2>1. \A t \in Turns : turn[t] = Idle
      BY Zenon DEF Init
    <2>2. \A b \in Backends : breaker[b].inTest = FALSE
      BY Zenon DEF Init
    <2> QED BY <2>1, <2>2, NothingToReport, Zenon DEF HeldInv, Awaited
  <1>2. (Patient => IInv) /\ (ProbesReturn => HeldInv) /\ [Next]_vars => (ProbesReturn => HeldInv)'
    <2> SUFFICES ASSUME Patient => IInv, ProbesReturn => HeldInv, [Next]_vars, ProbesReturn'
                 PROVE  HeldInv'
      OBVIOUS
    <2>0. ProbesReturn /\ IInv /\ HeldInv
      <3>1. ProbesReturn
        BY TrafficStays, Zenon DEF ProbesReturn
      <3>2. "cancelled" \notin {"terminal"}
        OBVIOUS
      <3>3. Patient
        BY <3>1, <3>2, Zenon DEF Patient, ProbesReturn
      <3> QED BY <3>1, <3>3, Zenon
    <2>1. CASE Tick
      BY <2>0, <2>1, TickHolds, Zenon DEF IInv, Orderly
    <2>2. ASSUME NEW t \in Turns, Begin(t) \/ Walk(t) \/ Reply(t) \/ Report(t)
          PROVE  HeldInv'
      BY <2>0, <2>2, BeginHolds, WalkHolds, TakeHolds, ReplyHolds, ReportHolds, Zenon DEF Walk
    <2>3. CASE UNCHANGED vars
      <3>1. breaker' = breaker /\ turn' = turn
        BY <2>3, Zenon DEF vars
      <3> QED BY <2>0, <3>1, Zenon DEF HeldInv, Awaited, Carries, Reports
    <2> QED BY <2>1, <2>2, <2>3, Zenon DEF Next
  <1>3. (ProbesReturn => HeldInv) => ProbeIsHeld
    BY Zenon DEF HeldInv, ProbeIsHeld
  <1> QED BY <1>1, <1>2, <1>3, IInvInvariant, PTL DEF Spec

-----------------------------------------------------------------------------
(***************************************************************************)
(* The mission row under any number of callers.  The theorems hold until   *)
(* an intent refresh writes the row unconditionally (blind), the step that *)
(* TLC shows to undo a finished mission.                                   *)
(*                                                                         *)
(* The inductive invariant says that a pending write carries a snapshot it *)
(* was judged on (JudgedInv) and, while every write was conditional, that  *)
(* acknowledged outcomes and revisions are those of the row (OutcomeInv),  *)
(* that a heartbeat never lags the one it was read over (BeatInv), and     *)
(* that only the writer of the outcome still has it to announce            *)
(* (EventInv).                                                             *)
(***************************************************************************)

Judged(w) ==
  /\ at[w] <= now
  /\ op[w] = "finish" => arg[w] \in Outcomes
  /\ op[w] = "bind" => arg[w] \in Insts
  /\ pc[w] = "bound" => op[w] = "sweep"
  /\ pc[w] \in {"bound", "write"} => Admits(w, snap[w])
  /\ pc[w] = "publish" => op[w] \in {"finish", "sweep"}

JudgedInv == \A w \in Threads : Judged(w)

OutcomeInv ==
  /\ AckedOutcomeStands /\ RevisionsCounted
  /\ row.reason = "swept" => row.status \in {"abandoned", "absent"}

BeatInv ==
  /\ row.beat <= now
  /\ \A w \in Threads : pc[w] = "write" /\ op[w] = "beat" => snap[w].beat <= at[w]

EventInv ==
  /\ events <= 1
  /\ row.status = "open" => events = 0
  /\ \A w \in Threads : pc[w] = "publish" => row.status # "open" /\ events = 0
  /\ \A w, v \in Threads : pc[w] = "publish" /\ pc[v] = "publish" => w = v
  /\ \A w \in Threads : pc[w] = "publish" /\ op[w] = "sweep" => row.reason = "swept"
  /\ report = "reclaimed" => row.reason = "swept"

-----------------------------------------------------------------------------
(* What Finished makes of a row, written out: it changes two fields.  *)
LEMMA FinishedRow ==
  ASSUME NEW m \in Rows, NEW s
  PROVE  Finished(m, s) = [status |-> s, reason |-> "caller", inst |-> m.inst, beat |-> m.beat,
                           rev |-> m.rev, plan |-> m.plan, stamp |-> m.stamp]
<1> DEFINE once == [m EXCEPT !.status = s]
<1>1. once = [status |-> s, reason |-> m.reason, inst |-> m.inst, beat |-> m.beat,
              rev |-> m.rev, plan |-> m.plan, stamp |-> m.stamp]
  BY DEF Rows
<1>2. [once EXCEPT !.reason = "caller"]
        = [status |-> s, reason |-> "caller", inst |-> m.inst, beat |-> m.beat,
           rev |-> m.rev, plan |-> m.plan, stamp |-> m.stamp]
  <2> HIDE DEF once
  <2> QED BY <1>1
<1> QED BY <1>2, Zenon DEF Finished

(* What Reclaimed makes of a row, written out: it changes two fields. *)
LEMMA ReclaimedRow ==
  ASSUME NEW m \in Rows
  PROVE  Reclaimed(m) = [status |-> "abandoned", reason |-> "swept", inst |-> m.inst, beat |-> m.beat,
                         rev |-> m.rev, plan |-> m.plan, stamp |-> m.stamp]
<1> DEFINE once == [m EXCEPT !.status = "abandoned"]
<1>1. once = [status |-> "abandoned", reason |-> m.reason, inst |-> m.inst, beat |-> m.beat,
              rev |-> m.rev, plan |-> m.plan, stamp |-> m.stamp]
  BY DEF Rows
<1>2. [once EXCEPT !.reason = "swept"]
        = [status |-> "abandoned", reason |-> "swept", inst |-> m.inst, beat |-> m.beat,
           rev |-> m.rev, plan |-> m.plan, stamp |-> m.stamp]
  <2> HIDE DEF once
  <2> QED BY <1>1
<1> QED BY <1>2, Zenon DEF Reclaimed

(* What Planned makes of a row, written out: it changes two fields.   *)
LEMMA PlannedRow ==
  ASSUME NEW m \in Rows, NEW d
  PROVE  Planned(m, d) = [status |-> m.status, reason |-> m.reason, inst |-> m.inst, beat |-> m.beat,
                          rev |-> m.rev + 1, plan |-> d, stamp |-> m.stamp]
<1> DEFINE once == [m EXCEPT !.plan = d]
<1>1. once = [status |-> m.status, reason |-> m.reason, inst |-> m.inst, beat |-> m.beat,
              rev |-> m.rev, plan |-> d, stamp |-> m.stamp]
  BY DEF Rows
<1>2. [once EXCEPT !.rev = m.rev + 1]
        = [status |-> m.status, reason |-> m.reason, inst |-> m.inst, beat |-> m.beat,
           rev |-> m.rev + 1, plan |-> d, stamp |-> m.stamp]
  <2> HIDE DEF once
  <2> QED BY <1>1
<1> QED BY <1>2, Zenon DEF Planned

(* What a call writes, field by field.                                     *)
LEMMA NewRowFields ==
  ASSUME MissionTypeOK, NEW w \in Threads
  PROVE  LET n == NewRow(w) m == snap[w] IN
         /\ n = [status |-> n.status, reason |-> n.reason, inst |-> n.inst,
                 beat |-> n.beat, rev |-> n.rev, plan |-> n.plan, stamp |-> n.stamp]
         /\ n.status = IF op[w] = "finish" THEN arg[w]
                       ELSE IF op[w] = "sweep" THEN "abandoned" ELSE m.status
         /\ n.reason = IF op[w] = "finish" THEN "caller"
                       ELSE IF op[w] = "sweep" THEN "swept" ELSE m.reason
         /\ n.inst = IF op[w] = "bind" THEN arg[w] ELSE m.inst
         /\ n.beat = IF op[w] = "beat" THEN at[w] ELSE m.beat
         /\ n.rev = IF op[w] = "plan" THEN m.rev + 1 ELSE m.rev
         /\ n.plan = IF op[w] = "plan" THEN draft[w] ELSE m.plan
         /\ n.stamp = row.stamp + 1
<1>1. snap[w] \in Rows
  BY Zenon DEF MissionTypeOK
<1>2. CASE op[w] = "finish"
  <2>1. Changed(w) = Finished(snap[w], arg[w])
    BY <1>2, Zenon DEF Changed
  <2>2. Changed(w) = [status |-> arg[w], reason |-> "caller", inst |-> snap[w].inst,
                     beat |-> snap[w].beat, rev |-> snap[w].rev,
                     plan |-> snap[w].plan, stamp |-> snap[w].stamp]
    BY <2>1, <1>1, FinishedRow, Zenon
  <2> QED BY <1>2, <2>2 DEF NewRow
<1>3. CASE op[w] = "bind"
  <2>1. Changed(w) = Bound(snap[w], arg[w])
    BY <1>3, Zenon DEF Changed
  <2>2. Changed(w) = [status |-> snap[w].status, reason |-> snap[w].reason, inst |-> arg[w],
                     beat |-> snap[w].beat, rev |-> snap[w].rev,
                     plan |-> snap[w].plan, stamp |-> snap[w].stamp]
    BY <2>1, <1>1, Zenon DEF Bound, Rows
  <2> QED BY <1>3, <2>2 DEF NewRow
<1>4. CASE op[w] = "beat"
  <2>1. Changed(w) = Beaten(snap[w], at[w])
    BY <1>4, Zenon DEF Changed
  <2>2. Changed(w) = [status |-> snap[w].status, reason |-> snap[w].reason, inst |-> snap[w].inst,
                     beat |-> at[w], rev |-> snap[w].rev,
                     plan |-> snap[w].plan, stamp |-> snap[w].stamp]
    BY <2>1, <1>1, Zenon DEF Beaten, Rows
  <2> QED BY <1>4, <2>2 DEF NewRow
<1>5. CASE op[w] = "plan"
  <2>1. Changed(w) = Planned(snap[w], draft[w])
    BY <1>5, Zenon DEF Changed
  <2>2. Changed(w) = [status |-> snap[w].status, reason |-> snap[w].reason, inst |-> snap[w].inst,
                     beat |-> snap[w].beat, rev |-> snap[w].rev + 1,
                     plan |-> draft[w], stamp |-> snap[w].stamp]
    BY <2>1, <1>1, PlannedRow, Zenon
  <2> QED BY <1>5, <2>2 DEF NewRow
<1>6. CASE op[w] = "sweep"
  <2>1. Changed(w) = Reclaimed(snap[w])
    BY <1>6, Zenon DEF Changed
  <2>2. Changed(w) = [status |-> "abandoned", reason |-> "swept", inst |-> snap[w].inst,
                     beat |-> snap[w].beat, rev |-> snap[w].rev,
                     plan |-> snap[w].plan, stamp |-> snap[w].stamp]
    BY <2>1, <1>1, ReclaimedRow, Zenon
  <2> QED BY <1>6, <2>2 DEF NewRow
<1>7. CASE op[w] \notin {"finish", "bind", "beat", "plan", "sweep"}
  <2>1. Changed(w) = snap[w]
    BY <1>7, Zenon DEF Changed
  <2> QED BY <1>1, <1>7, <2>1 DEF NewRow, Rows
<1> QED
  BY <1>2, <1>3, <1>4, <1>5, <1>6, <1>7, Zenon

(* What a thread writes is a well-formed row.                              *)
LEMMA NewRowType ==
  ASSUME MissionTypeOK, NEW w \in Threads, op[w] = "finish" => arg[w] \in Outcomes,
         op[w] = "bind" => arg[w] \in Insts
  PROVE  NewRow(w) \in Rows
<1>1. snap[w] \in Rows /\ row \in Rows /\ draft[w] \in Plans /\ at[w] \in Nat
  BY Zenon DEF MissionTypeOK
<1>2. /\ NewRow(w).status \in Terminal \cup {"open", "absent"}
      /\ NewRow(w).reason \in {"none", "caller", "swept"}
      /\ NewRow(w).inst \in Insts \cup {"none"}
  BY <1>1, NewRowFields, MissionConstants, Zenon DEF MissionConstants, Rows, Terminal
<1>3. /\ NewRow(w).beat \in Nat /\ NewRow(w).rev \in Nat
      /\ NewRow(w).plan \in Plans /\ NewRow(w).stamp \in Nat
  BY <1>1, NewRowFields DEF Rows
<1> QED
  BY <1>2, <1>3, NewRowFields DEF Rows

(* The created row and the empty plan are well formed.                     *)
LEMMA CreatedType == Created \in Rows /\ NoPlan \in Plans /\ "none" \in Args
BY Zenon DEF Created, Rows, NoPlan, Plans, Args

(* A call that returns leaves well-typed locals behind.                    *)
LEMMA ReturnType ==
  ASSUME MissionTypeOK, NEW w \in Threads, Return(w)
  PROVE  /\ pc' \in [Threads -> {"idle", "read", "bound", "write", "publish"}]
         /\ op' \in [Threads -> AllOps \cup {"none"}] /\ arg' \in [Threads -> Args]
         /\ draft' \in [Threads -> Plans] /\ snap' \in [Threads -> Rows]
         /\ at' \in [Threads -> Nat] /\ tries' \in [Threads -> Nat]
BY CreatedType, Zenon DEF MissionTypeOK, Return

(* Every step keeps the types.                                             *)
LEMMA MissionTypeStep == MissionTypeOK /\ JudgedInv /\ [MissionNext]_missionVars => MissionTypeOK'
<1> SUFFICES ASSUME MissionTypeOK, JudgedInv, [MissionNext]_missionVars PROVE MissionTypeOK'
  BY Zenon
<1> USE DEF MissionTypeOK, fixed
<1>1. CASE MissionTick \/ FileAsk \/ CloseAsk
  BY <1>1, MissionConstants DEF MissionConstants, MissionTick, FileAsk, CloseAsk, callVars
<1>2. CASE Delete
  BY <1>2, Zenon DEF Delete, Rows, callVars
<1>3. ASSUME NEW w \in Threads, NEW o \in AllOps, NEW a \in Args, NEW d \in Plans,
             Call(w, o, a, d)
      PROVE  MissionTypeOK'
  BY <1>3, MissionConstants, Zenon DEF MissionConstants, Call
<1>4. ASSUME NEW w \in Threads, Read(w) PROVE MissionTypeOK'
  <2>1. CASE Admits(w, row)
    BY <1>4, <2>1, Zenon DEF Read
  <2>2. CASE ~Admits(w, row)
    BY <1>4, <2>2, ReturnType DEF Read, JudgedInv, Judged
  <2> QED BY <2>1, <2>2, Zenon
<1>5. ASSUME NEW w \in Threads, JudgeBound(w) PROVE MissionTypeOK'
  <2>1. CASE Return(w)
    BY <1>5, <2>1, ReturnType, Zenon DEF JudgeBound
  <2>2. CASE ~Return(w)
    BY <1>5, <2>2, Zenon DEF JudgeBound
  <2> QED BY <2>1, <2>2, Zenon
<1>6. ASSUME NEW w \in Threads, Landed(w) PROVE MissionTypeOK'
  <2>1. row' \in Rows
    BY <1>6, NewRowType, Zenon DEF Landed, JudgedInv, Judged
  <2>2. acked' \subseteq Outcomes /\ planned' \in Nat
    BY <1>6 DEF Landed, JudgedInv, Judged
  <2>3. CASE op[w] \in {"finish", "sweep"}
    BY <1>6, <2>1, <2>2, <2>3, Zenon DEF Landed
  <2>4. CASE op[w] \notin {"finish", "sweep"}
    BY <1>6, <2>1, <2>2, <2>4, ReturnType, Zenon DEF Landed
  <2> QED BY <2>3, <2>4, Zenon
<1>7. ASSUME NEW w \in Threads, WriteLost(w) PROVE MissionTypeOK'
  <2>1. CASE Return(w)
    BY <1>7, <2>1, ReturnType, Zenon DEF WriteLost
  <2>2. CASE ~Return(w)
    BY <1>7, <2>2 DEF WriteLost
  <2> QED BY <2>1, <2>2, Zenon
<1>8. ASSUME NEW w \in Threads, Publish(w) PROVE MissionTypeOK'
  BY <1>8, ReturnType DEF Publish, publishStatusChanged, fileAbandonedReport
<1>9. ASSUME NEW w \in Threads, WriteIntent(w) PROVE MissionTypeOK'
  <2>1. CASE Landed(w)
    BY <1>6, <2>1, Zenon
  <2>2. CASE ~Landed(w)
    BY <1>9, <2>2, ReturnType, Zenon DEF WriteIntent
  <2> QED BY <2>1, <2>2, Zenon
<1>10. CASE UNCHANGED missionVars
  BY <1>10, Zenon DEF missionVars
<1> HIDE DEF MissionTypeOK, fixed
<1> QED
  BY <1>1, <1>2, <1>3, <1>4, <1>5, <1>6, <1>7, <1>8, <1>9, <1>10, Zenon
  DEF MissionNext, Step, WriteIfUnchanged

(* The locals of every call but w's.                                       *)
OthersStay(w) ==
  /\ now' = now
  /\ \A q \in Threads \ {w} :
       /\ pc'[q] = pc[q] /\ op'[q] = op[q] /\ arg'[q] = arg[q]
       /\ draft'[q] = draft[q] /\ snap'[q] = snap[q] /\ at'[q] = at[q]

(* What a call was judged on is its own: no other call touches it.         *)
LEMMA JudgedKept ==
  ASSUME NEW q \in Threads, Judged(q), at'[q] <= now',
         pc'[q] = pc[q], op'[q] = op[q], arg'[q] = arg[q],
         draft'[q] = draft[q], snap'[q] = snap[q], at'[q] = at[q]
  PROVE  Judged(q)'
BY Zenon DEF Judged, Admits

(* A step of w keeps the judgements if it keeps its own.                   *)
LEMMA OwnJudged ==
  ASSUME JudgedInv, NEW w \in Threads, OthersStay(w), Judged(w)'
  PROVE  JudgedInv'
<1> SUFFICES ASSUME NEW q \in Threads, q # w PROVE Judged(q)'
  BY Zenon DEF JudgedInv
<1>1. /\ pc'[q] = pc[q] /\ op'[q] = op[q] /\ arg'[q] = arg[q]
      /\ draft'[q] = draft[q] /\ snap'[q] = snap[q] /\ at'[q] = at[q]
  BY Zenon DEF OthersStay
<1>2. Judged(q) /\ at[q] <= now /\ now' = now
  BY Zenon DEF JudgedInv, Judged, OthersStay
<1> QED BY <1>1, <1>2, JudgedKept, Zenon

(* A call that returned has nothing pending.                               *)
LEMMA ReturnJudged ==
  ASSUME MissionTypeOK, JudgedInv, NEW w \in Threads, Return(w), now' = now
  PROVE  JudgedInv'
<1>1. OthersStay(w)
  BY Zenon DEF Return, MissionTypeOK, OthersStay
<1>2. pc'[w] = "idle" /\ op'[w] = "none" /\ at'[w] = 0 /\ 0 <= now'
  BY DEF Return, MissionTypeOK
<1>3. Judged(w)'
  BY <1>2, Zenon DEF Judged
<1> QED BY <1>1, <1>3, OwnJudged, Zenon

(* A pending write was admitted on its snapshot, and stays so: nothing but *)
(* its own thread touches what it was judged on.                           *)
LEMMA JudgedStep ==
  ASSUME MissionTypeOK, JudgedInv, [MissionNext]_missionVars
  PROVE  JudgedInv'
<1>1. CASE MissionTick \/ FileAsk \/ CloseAsk \/ Delete
  <2>1. UNCHANGED callVars /\ now \in Nat /\ now' \in {now, now + 1}
    BY <1>1, Zenon DEF MissionTick, FileAsk, CloseAsk, Delete, MissionTypeOK
  <2> SUFFICES ASSUME NEW q \in Threads PROVE Judged(q)'
    BY Zenon DEF JudgedInv
  <2>2. Judged(q) /\ at[q] \in Nat /\ at[q] <= now
    BY Zenon DEF JudgedInv, Judged, MissionTypeOK
  <2>3. at'[q] <= now'
    BY <2>1, <2>2 DEF callVars
  <2> QED BY <2>1, <2>2, <2>3, JudgedKept, Zenon DEF callVars
<1>2. ASSUME NEW w \in Threads, NEW o \in AllOps, NEW a \in Args, NEW d \in Plans,
             Call(w, o, a, d)
      PROVE  JudgedInv'
  <2>1. OthersStay(w)
    BY <1>2, Zenon DEF Call, MissionTypeOK, OthersStay
  <2>2. /\ pc'[w] = "read" /\ op'[w] = o /\ arg'[w] = a /\ at'[w] = now
        /\ now' = now /\ now <= now
        /\ o = "finish" => a \in Outcomes
        /\ o = "bind" => a \in Insts
    BY <1>2 DEF Call, MissionTypeOK
  <2>3. Judged(w)'
    BY <2>2, Zenon DEF Judged
  <2> QED BY <2>1, <2>3, OwnJudged, Zenon
<1>3. ASSUME NEW w \in Threads, Read(w) PROVE JudgedInv'
  <2>1. CASE Admits(w, row)
    <3>1. OthersStay(w)
      BY <1>3, <2>1, Zenon DEF Read, MissionTypeOK, OthersStay
    <3>2. /\ pc'[w] = IF op[w] = "sweep" THEN "bound" ELSE "write"
          /\ op'[w] = op[w] /\ arg'[w] = arg[w] /\ draft'[w] = draft[w]
          /\ snap'[w] = row /\ at'[w] \in {now, at[w]} /\ now' = now /\ now <= now
          /\ op[w] = "sweep" => at'[w] = at[w]
      BY <1>3, <2>1 DEF Read, MissionTypeOK
    <3>3. Admits(w, snap[w])'
      BY <2>1, <3>2, Zenon DEF Admits
    <3>4. Judged(w)
      BY Zenon DEF JudgedInv
    <3>5. Judged(w)'
      BY <3>2, <3>3, <3>4, ZenonT(30) DEF Judged
    <3> QED BY <3>1, <3>5, OwnJudged, Zenon
  <2>2. CASE ~Admits(w, row)
    BY <1>3, <2>2, ReturnJudged, Zenon DEF Read
  <2> QED BY <2>1, <2>2, Zenon
<1>4. ASSUME NEW w \in Threads, pc[w] \in {"bound", "write"},
             \/ pc' = [pc EXCEPT ![w] = "write"]
             \/ pc' = [pc EXCEPT ![w] = "read"]
             \/ pc' = [pc EXCEPT ![w] = "publish"] /\ op[w] \in {"finish", "sweep"},
             UNCHANGED <<op, arg, draft, snap, at, now>>
      PROVE  JudgedInv'
  <2>1. OthersStay(w)
    BY <1>4, Zenon DEF MissionTypeOK, OthersStay
  <2>2. /\ pc'[w] \in {"write", "read", "publish"}
        /\ pc'[w] = "publish" => op[w] \in {"finish", "sweep"}
        /\ UNCHANGED <<op, arg, draft, snap, at, now>>
    BY <1>4, Zenon DEF MissionTypeOK
  <2>3. Judged(w) /\ Admits(w, snap[w])
    BY <1>4, Zenon DEF JudgedInv, Judged
  <2>4. Admits(w, snap[w])'
    BY <2>2, <2>3, Zenon DEF Admits
  <2>5. Judged(w)'
    BY <2>2, <2>3, <2>4, Zenon DEF Judged
  <2> QED BY <2>1, <2>5, OwnJudged, Zenon
<1>5. ASSUME NEW w \in Threads, JudgeBound(w) PROVE JudgedInv'
  BY <1>4, <1>5, ReturnJudged, Zenon DEF JudgeBound
<1>6. ASSUME NEW w \in Threads, pc[w] = "write", Landed(w) PROVE JudgedInv'
  BY <1>4, <1>6, ReturnJudged, Zenon DEF Landed
<1>7. ASSUME NEW w \in Threads, WriteLost(w) PROVE JudgedInv'
  BY <1>4, <1>7, ReturnJudged, Zenon DEF WriteLost
<1>8. ASSUME NEW w \in Threads, Publish(w) PROVE JudgedInv'
  BY <1>8, ReturnJudged, Zenon DEF Publish
<1>9. ASSUME NEW w \in Threads, WriteIntent(w) PROVE JudgedInv'
  BY <1>6, <1>9, ReturnJudged, Zenon DEF WriteIntent
<1>10. CASE UNCHANGED missionVars
  BY <1>10, Zenon DEF missionVars, JudgedInv, Judged, Admits
<1> QED
  BY <1>1, <1>2, <1>3, <1>5, <1>6, <1>7, <1>8, <1>9, <1>10, ZenonT(30) DEF MissionNext, Step, WriteIfUnchanged

(* Every step that is not a landed write leaves the row, its revision      *)
(* count and the threads' other calls alone, but for Delete.               *)
LEMMA OutcomeStep ==
  ASSUME MissionTypeOK, JudgedInv, OutcomeInv, [MissionNext]_missionVars,
         blind = "no", blind' = "no"
  PROVE  OutcomeInv'
<1> USE DEF MissionTypeOK, OutcomeInv, AckedOutcomeStands, RevisionsCounted
<1>1. CASE MissionTick \/ FileAsk \/ CloseAsk
  BY <1>1, Zenon DEF MissionTick, FileAsk, CloseAsk
<1>2. CASE Delete
  BY <1>2, Zenon DEF Delete, Rows
<1>3. ASSUME NEW w \in Threads, NEW o \in AllOps, NEW a \in Args, NEW d \in Plans,
             Call(w, o, a, d)
      PROVE  OutcomeInv'
  BY <1>3, Zenon DEF Call
<1>4. ASSUME NEW w \in Threads, Read(w) PROVE OutcomeInv'
  BY <1>4, Zenon DEF Read
<1>5. ASSUME NEW w \in Threads, JudgeBound(w) PROVE OutcomeInv'
  BY <1>5, Zenon DEF JudgeBound
<1>6. ASSUME NEW w \in Threads, WriteIfUnchanged(w) PROVE OutcomeInv'
  <2>1. row = snap[w] /\ Admits(w, row) /\ row' = NewRow(w)
    BY <1>6, Zenon DEF WriteIfUnchanged, Landed, JudgedInv, Judged
  <2>2. CASE op[w] \in {"finish", "sweep"}
    <3>1. row.status \notin Terminal /\ row.status # "absent"
      BY <2>1, <2>2, Zenon DEF Admits, isTerminal, isStale, Terminal
    <3>2. acked = {}
      BY <3>1, MissionConstants, Zenon DEF MissionConstants
    <3> QED
      BY <1>6, <2>1, <2>2, <3>2, NewRowFields DEF WriteIfUnchanged, Landed
  <2>3. CASE op[w] \notin {"finish", "sweep"}
    BY <1>6, <2>1, <2>3, NewRowFields DEF WriteIfUnchanged, Landed
  <2> QED BY <2>2, <2>3, Zenon
<1>7. ASSUME NEW w \in Threads, WriteLost(w) PROVE OutcomeInv'
  BY <1>7, Zenon DEF WriteLost
<1>8. ASSUME NEW w \in Threads, Publish(w) PROVE OutcomeInv'
  BY <1>8, Zenon DEF Publish, publishStatusChanged, fileAbandonedReport
<1>9. ASSUME NEW w \in Threads, WriteIntent(w) PROVE OutcomeInv'
  BY <1>9, Zenon DEF WriteIntent, Landed, Return
<1>10. CASE UNCHANGED missionVars
  BY <1>10, Zenon DEF missionVars
<1> HIDE DEF MissionTypeOK, OutcomeInv, AckedOutcomeStands, RevisionsCounted
<1> QED
  BY <1>1, <1>2, <1>3, <1>4, <1>5, <1>6, <1>7, <1>8, <1>9, <1>10, Zenon
  DEF MissionNext, Step

(* A heartbeat's time is no earlier than the one it was read over.         *)
LEMMA BeatStep ==
  ASSUME MissionTypeOK, JudgedInv, BeatInv, [MissionNext]_missionVars,
         blind = "no", blind' = "no"
  PROVE  BeatInv'
<1> USE DEF MissionTypeOK, BeatInv
<1>1. CASE MissionTick \/ FileAsk \/ CloseAsk
  BY <1>1 DEF MissionTick, FileAsk, CloseAsk, callVars, Rows
<1>2. CASE Delete
  BY <1>2, Zenon DEF Delete, Rows, callVars
<1>3. ASSUME NEW w \in Threads, NEW o \in AllOps, NEW a \in Args, NEW d \in Plans,
             Call(w, o, a, d)
      PROVE  BeatInv'
  BY <1>3, Zenon DEF Call
<1>4. ASSUME NEW w \in Threads, Read(w) PROVE BeatInv'
  BY <1>4, Zenon DEF Read, Return
<1>5. ASSUME NEW w \in Threads, JudgeBound(w) PROVE BeatInv'
  BY <1>5, Zenon DEF JudgeBound, Return, JudgedInv, Judged
<1>6. ASSUME NEW w \in Threads, WriteIfUnchanged(w) PROVE BeatInv'
  <2>1. row'.beat <= now
    BY <1>6, NewRowFields, ZenonT(30) DEF WriteIfUnchanged, Landed, JudgedInv, Judged
  <2> QED
    BY <1>6, <2>1 DEF WriteIfUnchanged, Landed, Return
<1>7. ASSUME NEW w \in Threads, WriteLost(w) PROVE BeatInv'
  BY <1>7, Zenon DEF WriteLost, Return
<1>8. ASSUME NEW w \in Threads, Publish(w) PROVE BeatInv'
  BY <1>8, Zenon DEF Publish, publishStatusChanged, fileAbandonedReport, Return
<1>9. ASSUME NEW w \in Threads, WriteIntent(w) PROVE BeatInv'
  BY <1>9, Zenon DEF WriteIntent, Landed, Return
<1>10. CASE UNCHANGED missionVars
  BY <1>10, Zenon DEF missionVars
<1> HIDE DEF MissionTypeOK, BeatInv
<1> QED
  BY <1>1, <1>2, <1>3, <1>4, <1>5, <1>6, <1>7, <1>8, <1>9, <1>10, Zenon
  DEF MissionNext, Step

(* An outcome has one writer, so one announcement and a truthful report.   *)
LEMMA EventStep ==
  ASSUME MissionTypeOK, JudgedInv, OutcomeInv, EventInv, [MissionNext]_missionVars,
         blind = "no", blind' = "no"
  PROVE  EventInv'
<1> USE DEF MissionTypeOK, EventInv
<1>1. CASE MissionTick \/ FileAsk \/ CloseAsk
  BY <1>1, Zenon DEF MissionTick, FileAsk, CloseAsk, callVars
<1>2. CASE Delete
  BY <1>2, Zenon DEF Delete, Rows, callVars
<1>3. ASSUME NEW w \in Threads, NEW o \in AllOps, NEW a \in Args, NEW d \in Plans,
             Call(w, o, a, d)
      PROVE  EventInv'
  BY <1>3, Zenon DEF Call
<1>4. ASSUME NEW w \in Threads, Read(w) PROVE EventInv'
  BY <1>4 DEF Read, Return
<1>5. ASSUME NEW w \in Threads, JudgeBound(w) PROVE EventInv'
  BY <1>5 DEF JudgeBound, Return
<1>6. ASSUME NEW w \in Threads, WriteIfUnchanged(w) PROVE EventInv'
  <2>1. row = snap[w] /\ Admits(w, row) /\ row' = NewRow(w)
    BY <1>6, Zenon DEF WriteIfUnchanged, Landed, JudgedInv, Judged
  <2>2. CASE op[w] \in {"finish", "sweep"}
    <3>1. row.status = "open"
      BY <2>1, <2>2, Zenon DEF Admits, isTerminal, isStale, Terminal, Rows
    <3>2. events = 0 /\ report = "none" /\ \A v \in Threads : pc[v] # "publish"
      BY <3>1, Zenon DEF OutcomeInv
    <3>3. row'.status # "open" /\ (op[w] = "sweep" => row'.reason = "swept")
      BY <2>1, <2>2, NewRowFields, MissionConstants, ZenonT(30)
      DEF MissionConstants, JudgedInv, Judged, Terminal
    <3> QED
      BY <1>6, <2>2, <3>2, <3>3, Zenon DEF WriteIfUnchanged, Landed
  <2>3. CASE op[w] \notin {"finish", "sweep"}
    <3>1. row'.status = row.status /\ row'.reason = row.reason
      BY <2>1, <2>3, NewRowFields, Zenon
    <3> QED
      BY <1>6, <2>3, <3>1 DEF WriteIfUnchanged, Landed, Return
  <2> QED BY <2>2, <2>3, ZenonT(30)
<1>7. ASSUME NEW w \in Threads, WriteLost(w) PROVE EventInv'
  BY <1>7 DEF WriteLost, Return
<1>8. ASSUME NEW w \in Threads, Publish(w) PROVE EventInv'
  BY <1>8 DEF Publish, publishStatusChanged, fileAbandonedReport, Return
<1>9. ASSUME NEW w \in Threads, WriteIntent(w) PROVE EventInv'
  BY <1>9 DEF WriteIntent, Landed, Return
<1>10. CASE UNCHANGED missionVars
  BY <1>10, Zenon DEF missionVars
<1> HIDE DEF MissionTypeOK, EventInv
<1> QED
  BY <1>1, <1>2, <1>3, <1>4, <1>5, <1>6, <1>7, <1>8, <1>9, <1>10, Zenon
  DEF MissionNext, Step

-----------------------------------------------------------------------------
MissionInv ==
  /\ MissionTypeOK /\ JudgedInv
  /\ blind = "no" => OutcomeInv /\ BeatInv /\ EventInv

(* A row that was once overwritten blindly stays so.                       *)
LEMMA BlindForGood == [MissionNext]_missionVars /\ blind' = "no" => blind = "no"
BY DEF MissionNext, Step, MissionTick, FileAsk, CloseAsk, Delete, Call, Read, JudgeBound, Landed,
   WriteIfUnchanged, WriteLost, WriteIntent, Publish, fixed, missionVars

(* The inductive invariant of the specification.                           *)
THEOREM MissionInductive ==
  MissionSpec => []MissionInv
<1>1. ASSUME MissionInit PROVE MissionInv
  <2>1. Created \in Rows /\ ops \in SUBSET AllOps
    BY <1>1, CreatedType, MissionConstants, Zenon DEF MissionConstants, MissionInit
  <2>2. MissionTypeOK
    BY <1>1, <2>1, CreatedType, Zenon DEF MissionInit, MissionTypeOK
  <2>3. JudgedInv
    BY <1>1 DEF MissionInit, JudgedInv, Judged
  <2>4. /\ Created.status = "open" /\ Created.reason # "swept" /\ Created.beat = 0 /\ Created.rev = 0
    BY Zenon DEF Created
  <2>5. OutcomeInv
    BY <1>1, <2>4, Zenon DEF MissionInit, OutcomeInv, AckedOutcomeStands, RevisionsCounted
  <2>6. BeatInv /\ EventInv
    BY <1>1, <2>4 DEF MissionInit, BeatInv, EventInv
  <2> QED
    BY <2>2, <2>3, <2>5, <2>6, Zenon DEF MissionInv
<1>2. MissionInv /\ [MissionNext]_missionVars => MissionInv'
  BY MissionTypeStep, JudgedStep, OutcomeStep, BeatStep, EventStep, BlindForGood, Zenon DEF MissionInv
<1> QED
  BY <1>1, <1>2, PTL DEF MissionSpec

(* Row, snapshots and locals keep their types.                             *)
THEOREM MissionTypes ==
  MissionSpec => []MissionTypeOK
BY MissionInductive, PTL DEF MissionInv

(* The outcome a Finish reported is the outcome of the mission.            *)
THEOREM FirstWriterOwnsOutcome ==
  MissionSpec => []AckedOutcomeStands
<1>1. MissionInv => AckedOutcomeStands
  BY Zenon DEF MissionInv, OutcomeInv, AckedOutcomeStands
<1> QED
  BY MissionInductive, <1>1, PTL

(* No plan revision is lost to a concurrent writer.                        *)
THEOREM NoRevisionLost ==
  MissionSpec => []RevisionsCounted
<1>1. MissionInv => RevisionsCounted
  BY Zenon DEF MissionInv, OutcomeInv, RevisionsCounted
<1> QED
  BY MissionInductive, <1>1, PTL

(* One announcement, and a reclaim report only on a reclaimed mission.     *)
THEOREM EndToldOnceAndTruly ==
  MissionSpec => []ToldOnceAndTruly
<1>1. MissionInv => ToldOnceAndTruly
  BY Zenon DEF MissionInv, EventInv, ToldOnceAndTruly
<1> QED
  BY MissionInductive, <1>1, PTL

(* What a step may do to the row, from the invariant: a landed write was   *)
(* admitted on exactly the row it replaces.                                *)
LEMMA RowStep ==
  ASSUME MissionInv, [MissionNext]_missionVars,
         blind = "no", blind' = "no"
  PROVE  /\ isTerminal(row) => row'.status \in {row.status, "absent"}
         /\ row.inst # "none" => row'.inst = row.inst
         /\ KeepsCompleted(row.plan, row'.plan)
         /\ row'.reason = "swept" /\ row.reason # "swept" => isStale(row, now)
         /\ row'.beat >= row.beat
<1> USE DEF MissionInv, MissionTypeOK
<1>1. CASE row' = row
  BY <1>1 DEF KeepsCompleted, Rows
<1>2. CASE Delete
  BY <1>2 DEF Delete, Rows, KeepsCompleted
<1>3. ASSUME NEW w \in Threads, WriteIfUnchanged(w)
      PROVE  /\ isTerminal(row) => row'.status \in {row.status, "absent"}
             /\ row.inst # "none" => row'.inst = row.inst
             /\ KeepsCompleted(row.plan, row'.plan)
             /\ row'.reason = "swept" /\ row.reason # "swept" => isStale(row, now)
             /\ row'.beat >= row.beat
  <2>1. /\ row = snap[w] /\ Admits(w, row) /\ row' = NewRow(w)
        /\ at[w] <= now /\ at[w] \in Nat /\ row.beat \in Nat
        /\ Floor \in Nat /\ now \in Nat
    BY <1>3, MissionConstants, Zenon
    DEF MissionConstants, WriteIfUnchanged, Landed, JudgedInv, Judged, Rows
  <2>2. isTerminal(row) => row'.status \in {row.status, "absent"}
    BY <2>1, NewRowFields, Zenon DEF Admits, isTerminal, isStale, Terminal
  <2>3. row.inst # "none" => row'.inst = row.inst
    BY <2>1, NewRowFields, Zenon DEF Admits
  <2>4. KeepsCompleted(row.plan, row'.plan)
    BY <2>1, NewRowFields, Zenon DEF Admits, KeepsCompleted
  <2>5. row'.reason = "swept" /\ row.reason # "swept" => op[w] = "sweep"
    BY <2>1, NewRowFields, Zenon
  <2>6. op[w] = "sweep" => isStale(row, now)
    BY <2>1 DEF Admits, isStale
  <2>7. row'.beat >= row.beat
    BY <1>3, <2>1, NewRowFields, SMTT(20) DEF BeatInv, WriteIfUnchanged
  <2> QED
    BY <2>2, <2>3, <2>4, <2>5, <2>6, <2>7, Zenon
<1>4. row' = row \/ Delete \/ \E w \in Threads : WriteIfUnchanged(w)
  BY ZenonT(30) DEF MissionNext, Step, MissionTick, FileAsk, CloseAsk, Call, Read, JudgeBound,
     WriteLost, WriteIntent, Landed, Publish, missionVars
<1> QED
  BY <1>1, <1>2, <1>3, <1>4, Zenon

(* A terminal mission never moves again.                                   *)
THEOREM TerminalForGood ==
  MissionSpec => TerminalStays
<1>1. MissionInv /\ [MissionNext]_missionVars =>
        [blind' = "no" /\ isTerminal(row) => row'.status \in {row.status, "absent"}]_missionVars
  BY RowStep, BlindForGood, Zenon
<1> QED
  BY MissionInductive, <1>1, PTL DEF MissionSpec, TerminalStays

(* A mission keeps the instance it was first bound to.                     *)
THEOREM BindingForGood ==
  MissionSpec => BoundOnce
<1>1. MissionInv /\ [MissionNext]_missionVars =>
        [blind' = "no" /\ row.inst # "none" => row'.inst = row.inst]_missionVars
  BY RowStep, BlindForGood, Zenon
<1> QED
  BY MissionInductive, <1>1, PTL DEF MissionSpec, BoundOnce

(* No snapshot rewrites completed work.                                    *)
THEOREM CompletedWorkKept ==
  MissionSpec => CompletedKept
<1>1. MissionInv /\ [MissionNext]_missionVars => [blind' = "no" => KeepsCompleted(row.plan, row'.plan)]_missionVars
  BY RowStep, BlindForGood, Zenon
<1> QED
  BY MissionInductive, <1>1, PTL DEF MissionSpec, CompletedKept

(* Only a mission that is silent when the write lands is reclaimed.        *)
THEOREM ReclaimOnlySilent ==
  MissionSpec => ReclaimedWasSilent
<1>1. MissionInv /\ [MissionNext]_missionVars =>
        [blind' = "no" /\ row'.reason = "swept" /\ row.reason # "swept"
           => isStale(row, now)]_missionVars
  BY RowStep, BlindForGood, Zenon
<1> QED
  BY MissionInductive, <1>1, PTL DEF MissionSpec, ReclaimedWasSilent

(* A mission's last sign of life never goes back.                          *)
THEOREM LivenessForward ==
  MissionSpec => BeatForward
<1>1. MissionInv /\ [MissionNext]_missionVars => [blind' = "no" => row'.beat >= row.beat]_missionVars
  BY RowStep, BlindForGood, Zenon
<1> QED
  BY MissionInductive, <1>1, PTL DEF MissionSpec, BeatForward
=============================================================================
