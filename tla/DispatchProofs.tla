--------------------------- MODULE DispatchProofs ---------------------------
(***************************************************************************)
(* Dispatch for every number of dispatchers, triggers, events and days:    *)
(* types, one run per recorded claim, final outcomes, the hop budget, and  *)
(* a cursor that passes no event without a claim.                          *)
(***************************************************************************)
EXTENDS Dispatch, FiniteSetTheorems, WellFoundedInduction, TLAPS

Busy == {"run", "chain", "finish"}

(* Where the loop of a dispatcher and the locals of handle() fit together. *)
Shape ==
    /\ \A w \in Workers : job[w].pc # "idle" => job[w].ev \in Appended
    /\ \A w \in Workers : job[w].pc \in Busy => job[w].left # {}
    /\ \A n \in NIDs : job[n].pc # "idle" => n \in Appended
    /\ \A d \in Dispatchers :
         /\ disp[d].batch \subseteq Appended
         /\ disp[d].pc = "pick" => disp[d].batch # {}
         /\ disp[d].pc = "handle" <=> job[d].pc # "idle"

StraysOK == strays \subseteq Appended

Underway(n, t) == \E w \in Workers : Holds(w, n, t) /\ job[w].pc # "run"

(* A row in play has at most one holder, and a run that is neither under   *)
(* way nor recorded has been counted as lost.                              *)
RowOK(n, t) ==
    /\ \A w \in Workers : Holds(w, n, t) => firing[n][t] = "running"
    /\ \A v, w \in Workers : Holds(v, n, t) /\ Holds(w, n, t) => v = w
    /\ firing[n][t] \notin Settled /\ ~Underway(n, t) => ran[n][t] <= died[n][t]
    /\ ran[n][t] <= 1 + died[n][t]

Rows == \A n \in NIDs, t \in Triggers : RowOK(n, t)

IInv == DispatchTypeOK /\ Shape /\ StraysOK /\ (Unseen({"slow"}) => Rows)

(* Generations are what the hops say, and only an event within the budget  *)
(* has had its chain started.                                              *)
Hops ==
    /\ strays = {}
    /\ \A n \in Appended : log[n].hop = log[n].depth /\ log[n].depth <= MaxHop + 1
    /\ \A n \in NIDs, t \in Triggers : ran[n][t] > 0 => n \in Appended /\ log[n].hop <= MaxHop

Loopless == Unseen({"suspend", "stray"})
-----------------------------------------------------------------------------
(* A non-empty set of numbers has a least member.                          *)
LEMMA LeastIn ==
    ASSUME NEW S \in SUBSET Nat, S # {}
    PROVE  Least(S) \in S /\ \A y \in S : Least(S) <= y
  <1> DEFINE R == OpToRel(<, Nat)
  <1>a. \A x, y \in Nat : <<x, y>> \in R <=> x < y
    BY Zenon DEF OpToRel
  <1>b. IsWellFoundedOn(R, Nat)
    BY NatLessThanWellFounded, Zenon
  <1> HIDE DEF R
  <1>c. S \subseteq Nat /\ S # {}
    OBVIOUS
  <1>1. \E x \in S : \A y \in S : ~ (<<y, x>> \in R)
    BY <1>b, <1>c, WFMin, Zenon
  <1>2. PICK x \in S : \A y \in S : ~ (<<y, x>> \in R)
    BY <1>1, Zenon
  <1>3. ASSUME NEW y \in S PROVE x <= y
    <2>1. ~ (y < x)  BY <1>a, <1>2, <1>c, Zenon
    <2>2. x \in Nat /\ y \in Nat  BY <1>c, Zenon
    <2> QED  BY <2>1, <2>2
  <1> QED  BY <1>2, <1>3, Zenon DEF Least

(* The first k members of a set are members of it.                         *)
LEMMA FirstIn == ASSUME NEW S, NEW k PROVE First(S, k) \subseteq S
  BY Zenon DEF First

(* The trigger a busy worker is at is one it still has to do.              *)
LEMMA TrigIn ==
    ASSUME DispatchTypeOK, NEW w \in Workers, job[w].left # {}
    PROVE  Trig(w) \in job[w].left /\ Trig(w) \in Triggers
  <1>1. job[w].left \in SUBSET Triggers
    BY Zenon DEF DispatchTypeOK, Jobs
  <1>2. job[w].left \in SUBSET Nat
    BY <1>1, DispatchConstants DEF Triggers, DispatchConstants
  <1> QED  BY <1>1, <1>2, LeastIn, Zenon DEF Trig

(* What a loop's record may become.                                        *)
LoopPcs == {"off", "list", "read", "pick", "handle", "wait"}

LEMMA LoopTo == ASSUME NEW r \in Loops, NEW pc \in LoopPcs PROVE [r EXCEPT !.pc = pc] \in Loops
  BY Zenon DEF Loops, LoopPcs

LEMMA LoopCtx == ASSUME NEW r \in Loops, NEW c \in {"live", "done"} PROVE [r EXCEPT !.ctx = c] \in Loops
  BY Zenon DEF Loops

LEMMA LoopLists ==
    ASSUME NEW r \in Loops, NEW pc \in LoopPcs, NEW ps \in SUBSET Days, NEW b \in SUBSET NIDs
    PROVE  [r EXCEPT !.pc = pc, !.parts = ps, !.batch = b] \in Loops
  BY Zenon DEF Loops, LoopPcs

LEMMA LoopReads ==
    ASSUME NEW r \in Loops, NEW ps \in SUBSET Days, NEW b \in SUBSET NIDs
    PROVE  [r EXCEPT !.parts = ps, !.batch = b] \in Loops
  BY Zenon DEF Loops

LEMMA LoopSorts ==
    ASSUME NEW r \in Loops, NEW pc \in LoopPcs, NEW b \in SUBSET NIDs, NEW f \in BOOLEAN
    PROVE  [r EXCEPT !.pc = pc, !.batch = b, !.full = f] \in Loops
  BY Zenon DEF Loops, LoopPcs

LEMMA LoopMoves ==
    ASSUME NEW r \in Loops, NEW pc \in LoopPcs, NEW b \in SUBSET NIDs, NEW c \in 0 .. MaxEvents
    PROVE  [r EXCEPT !.cursor = c, !.batch = b, !.pc = pc] \in Loops
  BY Zenon DEF Loops, LoopPcs

LEMMA LoopStarts ==
    ASSUME NEW r \in Loops, NEW pc \in LoopPcs, NEW c \in 0 .. MaxEvents
    PROVE  [r EXCEPT !.pc = pc, !.cursor = c] \in Loops
  BY Zenon DEF Loops, LoopPcs

LEMMA OffIsLoop == Off \in Loops
  <1>1. {} \in SUBSET Days /\ {} \in SUBSET NIDs /\ 0 \in 0 .. MaxEvents /\ FALSE \in BOOLEAN
    BY DispatchConstants DEF DispatchConstants
  <1> QED  BY <1>1, Zenon DEF Off, Loops

(* The fields of a dispatcher's loop.                                      *)
LEMMA LoopFields ==
    ASSUME DispatchTypeOK, NEW d \in Dispatchers
    PROVE  disp[d] \in Loops /\ disp[d].cursor \in Nat
  <1>1. disp[d] \in Loops
    BY Zenon DEF DispatchTypeOK
  <1>2. MaxEvents \in Nat
    BY DispatchConstants, Zenon DEF DispatchConstants
  <1> QED
    BY <1>1, <1>2 DEF Loops

LEMMA TableFields == DispatchTypeOK => Len(log) \in Nat /\ dbCursor \in Nat /\ Appended \subseteq Nat
  <1> SUFFICES ASSUME DispatchTypeOK PROVE Len(log) \in Nat /\ dbCursor \in Nat /\ Appended \subseteq Nat
    OBVIOUS
  <1>1. log \in Seq([type : Types, day : Days, hop : Nat, depth : Nat]) /\ dbCursor \in 0 .. MaxEvents
    BY Zenon DEF DispatchTypeOK
  <1>2. MaxEvents \in Nat
    BY DispatchConstants, Zenon DEF DispatchConstants
  <1>3. Len(log) \in Nat
    BY <1>1
  <1> QED
    BY <1>1, <1>2, <1>3 DEF Appended

(* The counters of FiresOnce after one more run.                           *)
LEMMA OneMoreRun == ASSUME NEW k \in Nat, NEW n \in Nat, k <= n PROVE k + 1 <= 1 + n
  OBVIOUS

(* The initial state.                                                      *)
LEMMA InitIInv == Init => IInv
  <1> SUFFICES ASSUME Init PROVE IInv
    OBVIOUS
  <1> USE DispatchConstants DEF DispatchConstants
  <1>1. IdleJob \in Jobs
    BY DEF IdleJob, Jobs, Settled
  <1>2. Off \in Loops
    BY OffIsLoop, Zenon
  <1>3. today \in Days /\ parts \subseteq Days /\ dbCursor \in 0 .. MaxEvents /\ faults \in FaultLog
    BY DEF Init, Days, FaultLog
  <1>4. log \in Seq([type : Types, day : Days, hop : Nat, depth : Nat]) /\ Len(log) = 0
    BY DEF Init
  <1>5. disp \in [Dispatchers -> Loops] /\ job \in [Workers -> Jobs]
    BY <1>1, <1>2, Zenon DEF Init
  <1>6. DispatchTypeOK
    BY <1>3, <1>4, <1>5 DEF Init, DispatchTypeOK, Statuses
  <1>7. \A w \in Workers : job[w].pc = "idle"
    BY Zenon DEF Init, IdleJob
  <1>8. \A d \in Dispatchers : disp[d].batch = {} /\ disp[d].pc = "off"
    BY Zenon DEF Init, Off
  <1>9. Shape
    BY <1>7, <1>8, Zenon DEF Shape, Busy, Workers
  <1>10. Rows
    BY <1>7 DEF Init, Rows, RowOK, Holds, Underway
  <1> QED  BY <1>6, <1>9, <1>10, Zenon DEF IInv, StraysOK, Init

(* What a job may become.                                                  *)
JobPcs == {"idle", "claim", "run", "chain", "finish"}

LEMMA JobTo == ASSUME NEW r \in Jobs, NEW pc \in JobPcs PROVE [r EXCEPT !.pc = pc] \in Jobs
  BY Zenon DEF Jobs, JobPcs

LEMMA JobEnds ==
    ASSUME NEW r \in Jobs, NEW o \in Settled PROVE [r EXCEPT !.pc = "finish", !.outcome = o] \in Jobs
  BY Zenon DEF Jobs

LEMMA JobPasses ==
    ASSUME NEW r \in Jobs, NEW l \in SUBSET Triggers
    PROVE  [r EXCEPT !.left = l, !.pc = "claim", !.outcome = "done"] \in Jobs
  BY Zenon DEF Jobs, Settled

LEMMA JobNew ==
    ASSUME NEW n \in 0 .. MaxEvents, NEW l \in SUBSET Triggers
    PROVE  [pc |-> "claim", ev |-> n, left |-> l, outcome |-> "done"] \in Jobs
  BY Zenon DEF Jobs, Settled

LEMMA IdleIsJob == IdleJob \in Jobs
  BY DispatchConstants DEF IdleJob, Jobs, Settled, DispatchConstants

(* A step of handle() keeps the worker's event, and its trigger while busy. *)
LEMMA WorkerStep ==
    ASSUME DispatchTypeOK, Shape, NEW w \in Workers, NEW new \in Jobs,
           job[w].pc # "idle", job' = [job EXCEPT ![w] = new],
           new.pc # "idle", new.ev = job[w].ev, new.pc \in Busy => new.left # {},
           UNCHANGED <<log, disp>>
    PROVE  job' \in [Workers -> Jobs] /\ Shape'
  <1>1. job' \in [Workers -> Jobs]
    BY Zenon DEF DispatchTypeOK
  <1>2. \A v \in Workers : job'[v] = IF v = w THEN new ELSE job[v]
    BY Zenon DEF DispatchTypeOK
  <1>3. Appended' = Appended
    BY Zenon DEF Appended
  <1>4. \A v \in Workers : job'[v].pc # "idle" => job'[v].ev \in Appended
    BY <1>2, Zenon DEF Shape
  <1>5. \A v \in Workers : job'[v].pc \in Busy => job'[v].left # {}
    BY <1>2, Zenon DEF Shape
  <1>6. \A n \in NIDs : job'[n].pc # "idle" => n \in Appended
    BY <1>2, Zenon DEF Shape, Workers
  <1>7. \A d \in Dispatchers : disp[d].pc = "handle" <=> job'[d].pc # "idle"
    BY <1>2, Zenon DEF Shape, Workers
  <1> QED  BY <1>1, <1>3, <1>4, <1>5, <1>6, <1>7, Zenon DEF Shape

(* An append adds one event, and perhaps one goroutine that was idle.      *)
LEMMA AppendStep ==
    ASSUME DispatchTypeOK, Shape, NEW type \in Types, NEW hop \in Nat, NEW depth \in Nat,
           NEW hooked \in BOOLEAN, AppendEvent(type, hop, depth, hooked), UNCHANGED disp
    PROVE  /\ log' \in Seq([type : Types, day : Days, hop : Nat, depth : Nat])
           /\ Len(log') <= MaxEvents
           /\ job' \in [Workers -> Jobs] /\ Shape'
  <1> DEFINE n   == Len(log) + 1
             Rec == [type : Types, day : Days, hop : Nat, depth : Nat]
             new == [pc |-> "claim", ev |-> n, left |-> Matching(type), outcome |-> "done"]
  <1>1. n \in NIDs /\ n \in Workers
    BY Zenon DEF AppendEvent, Workers
  <1>2. PICK day \in parts : log' = Append(log, [type |-> type, day |-> day, hop |-> hop, depth |-> depth])
    BY Zenon DEF AppendEvent
  <1>3. [type |-> type, day |-> day, hop |-> hop, depth |-> depth] \in Rec
    BY Zenon DEF DispatchTypeOK
  <1>4. log \in Seq(Rec)
    BY Zenon DEF DispatchTypeOK
  <1>5. log' \in Seq(Rec) /\ Len(log') = n
    BY <1>2, <1>3, <1>4
  <1>6. Len(log') <= MaxEvents
    BY <1>1, <1>5 DEF NIDs
  <1>7. Matching(type) \in SUBSET Triggers /\ n \in 0 .. MaxEvents
    BY <1>1, DispatchConstants DEF Matching, NIDs, DispatchConstants
  <1>8. new \in Jobs
    BY <1>7, JobNew, Zenon
  <1>9. NewJob(n, type) = new
    BY Zenon DEF NewJob
  <1>10. job' = [job EXCEPT ![n] = new] \/ job' = job
    <2>1. CASE hooked  BY <1>9, <2>1, Zenon DEF AppendEvent
    <2>2. CASE ~hooked  BY <2>2, Zenon DEF AppendEvent
    <2> QED  BY <2>1, <2>2, Zenon
  <1>11. job' \in [Workers -> Jobs]
    BY <1>8, <1>10, Zenon DEF DispatchTypeOK
  <1>12. Appended' = Appended \cup {n} /\ n \notin Appended
    BY <1>4, <1>5 DEF Appended
  <1>13. job[n].pc = "idle" /\ n \notin Dispatchers
    BY <1>1, <1>12, DispatchConstants, Zenon DEF Shape, DispatchConstants
  <1>14. \A v \in Workers : job'[v] = job[v] \/ (v = n /\ job'[v] = new)
    BY <1>10, Zenon DEF DispatchTypeOK
  <1>15. new.pc = "claim" /\ new.ev = n
    OBVIOUS
  <1> HIDE DEF new, n
  <1>16. \A v \in Workers : job'[v].pc # "idle" => job'[v].ev \in Appended'
    BY <1>12, <1>14, <1>15, Zenon DEF Shape
  <1>17. \A v \in Workers : job'[v].pc \in Busy => job'[v].left # {}
    BY <1>14, <1>15, Zenon DEF Shape, Busy
  <1>18. \A v \in NIDs : job'[v].pc # "idle" => v \in Appended'
    BY <1>12, <1>14, <1>15, Zenon DEF Shape, Workers
  <1>19. \A d \in Dispatchers :
           /\ disp'[d].batch \subseteq Appended'
           /\ disp'[d].pc = "pick" => disp'[d].batch # {}
           /\ disp'[d].pc = "handle" <=> job'[d].pc # "idle"
    BY <1>12, <1>13, <1>14, Zenon DEF Shape, Workers
  <1>20. Shape'
    BY <1>16, <1>17, <1>18, <1>19, Zenon DEF Shape
  <1> QED  BY <1>5, <1>6, <1>11, <1>20, Zenon

LEMMA AppendedIn == DispatchTypeOK => Appended \subseteq NIDs
  BY DispatchConstants DEF DispatchTypeOK, Appended, NIDs, DispatchConstants

LEMMA FaultType == ASSUME DispatchTypeOK, NEW k, Fault(k) PROVE faults' \in FaultLog
  <1>1. faults.n \in 0 .. MaxFaults /\ faults.seen \in SUBSET Faults
    BY Zenon DEF DispatchTypeOK, FaultLog
  <1>2. faults.n + 1 \in 0 .. MaxFaults /\ faults.seen \cup {k} \in SUBSET Faults
    BY <1>1, DispatchConstants DEF Fault, DispatchConstants
  <1> QED  BY <1>2, Zenon DEF Fault, FaultLog

LEMMA RecordType ==
    ASSUME DispatchTypeOK, NEW w \in Workers, job[w].ev \in NIDs, NEW s \in Statuses, Record(w, s)
    PROVE  firing' \in [NIDs -> [Triggers -> Statuses]]
  BY Zenon DEF DispatchTypeOK, Record

LEMMA IncType ==
    ASSUME NEW g \in [Triggers -> Nat], NEW t
    PROVE  [g EXCEPT ![t] = @ + 1] \in [Triggers -> Nat]
  <1>1. CASE t \in Triggers  BY <1>1
  <1>2. CASE t \notin Triggers
    <2>1. [g EXCEPT ![t] = @ + 1] = g  BY <1>2, Zenon
    <2> QED  BY <2>1, Zenon
  <1> QED  BY <1>1, <1>2, Zenon

LEMMA CountType ==
    ASSUME DispatchTypeOK, NEW w \in Workers, job[w].ev \in NIDs
    PROVE  /\ Count(ran, w) \in [NIDs -> [Triggers -> Nat]]
           /\ Count(died, w) \in [NIDs -> [Triggers -> Nat]]
  <1>1. ASSUME NEW f \in [NIDs -> [Triggers -> Nat]]
        PROVE  Count(f, w) \in [NIDs -> [Triggers -> Nat]]
    <2> DEFINE new == [f[job[w].ev] EXCEPT ![Trig(w)] = @ + 1]
    <2>1. f[job[w].ev] \in [Triggers -> Nat]
      OBVIOUS
    <2>2. new \in [Triggers -> Nat]
      BY <2>1, IncType, Zenon
    <2>3. Count(f, w) = [f EXCEPT ![job[w].ev] = new]
      BY Zenon DEF Count
    <2> HIDE DEF new
    <2> QED  BY <2>2, <2>3, Zenon
  <1> QED  BY <1>1, Zenon DEF DispatchTypeOK

(* handle() keeps the types and the shape.                                 *)
LEMMA HandleTypes ==
    ASSUME DispatchTypeOK, Shape, NEW w \in Workers,
           \/ BeginFiring(w) \/ ClaimFails(w) \/ Refuse(w) \/ RunChain(w)
           \/ ChainReturns(w) \/ FinishFiring(w) \/ FinishFails(w)
    PROVE  DispatchTypeOK' /\ Shape'
  <1>1. job[w].pc # "idle"
    BY Zenon DEF BeginFiring, ClaimFails, Claims, Refuse, RunChain, ChainReturns, FinishFiring, FinishFails
  <1>2. job[w].ev \in NIDs
    BY <1>1, AppendedIn, Zenon DEF Shape
  <1>3. job[w] \in Jobs
    BY Zenon DEF DispatchTypeOK
  <1>4. job[w].left \ {Trig(w)} \in SUBSET Triggers
    BY <1>3, Zenon DEF Jobs
  <1> DEFINE To(pc)     == [job[w] EXCEPT !.pc = pc]
             EndsIn(o)  == [job[w] EXCEPT !.pc = "finish", !.outcome = o]
             Passed     == [job[w] EXCEPT !.left = job[w].left \ {Trig(w)}, !.pc = "claim", !.outcome = "done"]
  <1>5. To("run") \in Jobs /\ To("chain") \in Jobs
    BY <1>3, JobTo, Zenon DEF JobPcs
  <1>6. \A o \in Settled : EndsIn(o) \in Jobs
    BY <1>3, JobEnds, ZenonT(30)
  <1>7. Passed \in Jobs
    BY <1>3, <1>4, JobPasses, Zenon
  <1>8. /\ To("run").pc = "run" /\ To("run").ev = job[w].ev /\ To("run").left = job[w].left
        /\ To("chain").pc = "chain" /\ To("chain").ev = job[w].ev /\ To("chain").left = job[w].left
        /\ Passed.pc = "claim" /\ Passed.ev = job[w].ev
    BY <1>3, Zenon DEF Jobs
  <1>9. \A o \in Settled : EndsIn(o).pc = "finish" /\ EndsIn(o).ev = job[w].ev /\ EndsIn(o).left = job[w].left
    BY <1>3, Zenon DEF Jobs
  <1>10. NextTrigger(w) => job' = [job EXCEPT ![w] = Passed]
    BY Zenon DEF NextTrigger
  <1>11. \A o : Ends(w, o) => job' = [job EXCEPT ![w] = EndsIn(o)]
    BY Zenon DEF Ends
  <1>12. UNCHANGED <<today, parts, log, dbCursor, disp>>
    BY Zenon DEF BeginFiring, ClaimFails, Refuse, RunChain, ChainReturns, FinishFiring, FinishFails
  <1>13. ASSUME NextTrigger(w) PROVE job' \in [Workers -> Jobs] /\ Shape'
    <2> HIDE DEF Passed
    <2> QED  BY <1>1, <1>7, <1>8, <1>10, <1>12, <1>13, WorkerStep, Zenon DEF Busy
  <1>14. ASSUME NEW o \in Settled, Ends(w, o), job[w].left # {} PROVE job' \in [Workers -> Jobs] /\ Shape'
    <2> HIDE DEF EndsIn
    <2> QED  BY <1>1, <1>6, <1>9, <1>11, <1>12, <1>14, WorkerStep, Zenon
  <1>15. ASSUME NEW pc \in {"run", "chain"}, job' = [job EXCEPT ![w].pc = pc], job[w].left # {}
         PROVE job' \in [Workers -> Jobs] /\ Shape'
    <2>1. job' = [job EXCEPT ![w] = To(pc)]
      BY <1>15, Zenon
    <2> HIDE DEF To
    <2> QED  BY <1>1, <1>5, <1>8, <1>12, <1>15, <2>1, WorkerStep, Zenon
  <1> HIDE DEF To, EndsIn, Passed
  <1>16. ASSUME job' \in [Workers -> Jobs], firing' \in [NIDs -> [Triggers -> Statuses]],
                strays' \subseteq NIDs, ran' \in [NIDs -> [Triggers -> Nat]],
                died' \in [NIDs -> [Triggers -> Nat]], faults' \in FaultLog
         PROVE  DispatchTypeOK'
    BY <1>12, <1>16, Zenon DEF DispatchTypeOK
  <1>17. \A k : Fault(k) => faults' \in FaultLog
    BY FaultType, Zenon
  <1>18. job[w].pc \in Busy => job[w].left # {}
    BY Zenon DEF Shape
  <1>a. CASE BeginFiring(w)
    <2>1. firing' \in [NIDs -> [Triggers -> Statuses]]
      BY <1>a, <1>2, RecordType, Zenon DEF BeginFiring, Statuses, DispatchTypeOK
    <2>2. job' \in [Workers -> Jobs] /\ Shape'
      BY <1>a, <1>13, <1>15, Zenon DEF BeginFiring, Claims
    <2> QED  BY <1>a, <1>16, <2>1, <2>2, Zenon DEF BeginFiring, ghosts, DispatchTypeOK
  <1>b. CASE ClaimFails(w)
    <2>1. faults' \in FaultLog
      BY <1>b, <1>17, Zenon DEF ClaimFails, DispatchTypeOK
    <2> QED  BY <1>b, <1>13, <1>16, <2>1, Zenon DEF ClaimFails, ghosts, DispatchTypeOK
  <1>c. CASE Refuse(w)
    <2>1. job' \in [Workers -> Jobs] /\ Shape'
      BY <1>c, <1>14, <1>18, Zenon DEF Refuse, Settled, Busy
    <2> QED  BY <1>c, <1>16, <2>1, Zenon DEF Refuse, ghosts, DispatchTypeOK
  <1>d. CASE RunChain(w)
    <2>1. job' \in [Workers -> Jobs] /\ Shape'
      BY <1>d, <1>15, <1>18, Zenon DEF RunChain, Busy
    <2> QED  BY <1>d, <1>2, <1>16, <2>1, CountType, Zenon DEF RunChain, DispatchTypeOK
  <1>e. CASE ChainReturns(w)
    <2>1. job' \in [Workers -> Jobs] /\ Shape'
      BY <1>e, <1>14, <1>18, Zenon DEF ChainReturns, Settled, Busy
    <2>2. strays' \subseteq NIDs
      BY <1>e, <1>2, Zenon DEF ChainReturns, DispatchTypeOK
    <2>3. faults' \in FaultLog
      BY <1>e, <1>17, Zenon DEF ChainReturns, DispatchTypeOK
    <2> QED  BY <1>e, <1>16, <2>1, <2>2, <2>3, Zenon DEF ChainReturns, ghosts, DispatchTypeOK
  <1>f. CASE FinishFiring(w)
    <2>1. firing' \in [NIDs -> [Triggers -> Statuses]]
      BY <1>f, <1>2, <1>3, RecordType, Zenon DEF FinishFiring, Statuses, Jobs, Settled
    <2> QED  BY <1>f, <1>13, <1>16, <2>1, Zenon DEF FinishFiring, ghosts, DispatchTypeOK
  <1>g. CASE FinishFails(w)
    <2>1. faults' \in FaultLog
      BY <1>g, <1>17, Zenon DEF FinishFails
    <2> QED  BY <1>g, <1>2, <1>13, <1>16, <2>1, CountType, Zenon DEF FinishFails, DispatchTypeOK
  <1> QED  BY <1>a, <1>b, <1>c, <1>d, <1>e, <1>f, <1>g, Zenon

(* A step of the loop.                                                     *)
LEMMA LoopStep ==
    ASSUME DispatchTypeOK, Shape, NEW d \in Dispatchers, NEW new \in Loops,
           disp' = [disp EXCEPT ![d] = new], new.batch \subseteq Appended,
           new.pc = "pick" => new.batch # {}, new.pc = "handle" <=> job'[d].pc # "idle",
           NEW jnew \in Jobs, job' = [job EXCEPT ![d] = jnew],
           jnew.pc # "idle" => jnew.ev \in Appended, jnew.pc \in Busy => jnew.left # {}, UNCHANGED log
    PROVE  disp' \in [Dispatchers -> Loops] /\ job' \in [Workers -> Jobs] /\ Shape'
  <1>1. disp' \in [Dispatchers -> Loops] /\ job' \in [Workers -> Jobs]
    BY Zenon DEF DispatchTypeOK
  <1>2. \A v \in Workers : job'[v] = IF v = d THEN jnew ELSE job[v]
    BY Zenon DEF DispatchTypeOK
  <1>3. \A v \in Dispatchers : disp'[v] = IF v = d THEN new ELSE disp[v]
    BY Zenon DEF DispatchTypeOK
  <1>4. Appended' = Appended /\ d \in Workers /\ d \notin NIDs
    BY DispatchConstants, Zenon DEF Appended, Workers, DispatchConstants
  <1>5. \A v \in Workers : job'[v].pc # "idle" => job'[v].ev \in Appended
    BY <1>2, Zenon DEF Shape
  <1>6. \A v \in Workers : job'[v].pc \in Busy => job'[v].left # {}
    BY <1>2, Zenon DEF Shape
  <1>7. \A n \in NIDs : job'[n].pc # "idle" => n \in Appended
    BY <1>2, <1>4, Zenon DEF Shape, Workers
  <1>8. ASSUME NEW v \in Dispatchers
        PROVE /\ disp'[v].batch \subseteq Appended
              /\ disp'[v].pc = "pick" => disp'[v].batch # {}
              /\ disp'[v].pc = "handle" <=> job'[v].pc # "idle"
    BY <1>2, <1>3, <1>4 DEF Shape, Workers
  <1> QED  BY <1>1, <1>4, <1>5, <1>6, <1>7, <1>8, Zenon DEF Shape

(* The loop keeps the types and the shape.                                 *)
LEMMA LoopTypes ==
    ASSUME DispatchTypeOK, Shape, NEW d \in Dispatchers,
           \/ Start(d) \/ ListEventPartitions(d) \/ ReadPartition(d) \/ SortEvents(d)
           \/ PickEvent(d) \/ SetCursor(d) \/ Tick(d) \/ Stop(d) \/ Interrupt(d)
    PROVE  DispatchTypeOK' /\ Shape'
  <1> DEFINE r == disp[d]
             j == job[d]
  <1>1. r \in Loops /\ d \in Workers /\ j \in Jobs
    BY Zenon DEF DispatchTypeOK, Workers
  <1>2. r.batch \subseteq Appended /\ r.batch \in SUBSET NIDs /\ r.parts \in SUBSET Days
    BY <1>1, Zenon DEF Shape, Loops
  <1>3. (r.pc = "pick" => r.batch # {}) /\ (r.pc = "handle" <=> j.pc # "idle")
    BY Zenon DEF Shape
  <1>4. (j.pc # "idle" => j.ev \in Appended) /\ (j.pc \in Busy => j.left # {})
    BY <1>1, Zenon DEF Shape
  <1>5. Appended \in SUBSET NIDs /\ NIDs \subseteq 0 .. MaxEvents /\ NIDs \subseteq Nat
    BY AppendedIn, DispatchConstants DEF NIDs, DispatchConstants
  <1>6. UNCHANGED <<today, parts, log, firing, strays, ghosts>>
    BY Zenon DEF Start, ListEventPartitions, ReadPartition, SortEvents, PickEvent, SetCursor, Tick, Stop, Interrupt
  <1>7. ASSUME disp' \in [Dispatchers -> Loops], job' \in [Workers -> Jobs],
               dbCursor' \in 0 .. MaxEvents, faults' \in FaultLog
        PROVE  DispatchTypeOK'
    BY <1>6, <1>7, Zenon DEF DispatchTypeOK, ghosts
  <1>8. ASSUME UNCHANGED <<job, dbCursor>>, UNCHANGED faults \/ faults' \in FaultLog,
               NEW new \in Loops, disp' = [disp EXCEPT ![d] = new],
               new.batch \subseteq Appended, new.pc = "pick" => new.batch # {},
               new.pc = "handle" <=> j.pc # "idle"
        PROVE  DispatchTypeOK' /\ Shape'
    <2>1. job' = [job EXCEPT ![d] = j]
      BY <1>8, Zenon DEF DispatchTypeOK
    <2>2. job'[d] = j
      BY <1>8, Zenon
    <2>3. disp' \in [Dispatchers -> Loops] /\ job' \in [Workers -> Jobs] /\ Shape'
      <3> HIDE DEF j
      <3> QED  BY <1>1, <1>4, <1>6, <1>8, <2>1, <2>2, LoopStep, Zenon
    <2> QED  BY <1>7, <1>8, <2>3, Zenon DEF DispatchTypeOK
  <1> USE DEF LoopPcs
  <1>a. CASE Start(d)
    <2> DEFINE new == [Off EXCEPT !.pc = "list", !.cursor = dbCursor]
    <2>1. new \in Loops
      BY OffIsLoop, LoopStarts, Zenon DEF DispatchTypeOK
    <2>2. new.batch = {} /\ new.pc = "list"
      BY Zenon DEF Off
    <2>3. disp' = [disp EXCEPT ![d] = new] /\ r.pc = "off" /\ UNCHANGED <<job, dbCursor, faults>>
      BY <1>a, Zenon DEF Start
    <2> HIDE DEF new
    <2> QED  BY <1>3, <1>8, <2>1, <2>2, <2>3, Zenon
  <1>b. CASE ListEventPartitions(d)
    <2> DEFINE new == [r EXCEPT !.pc = "read", !.parts = parts, !.batch = {}]
    <2>1. new \in Loops
      BY <1>1, LoopLists, Zenon DEF DispatchTypeOK
    <2>2. new.batch = {} /\ new.pc = "read"
      BY <1>1, Zenon DEF Loops
    <2>3. disp' = [disp EXCEPT ![d] = new] /\ r.pc = "list" /\ UNCHANGED <<job, dbCursor, faults>>
      BY <1>b, Zenon DEF ListEventPartitions
    <2> HIDE DEF new
    <2> QED  BY <1>3, <1>8, <2>1, <2>2, <2>3, Zenon
  <1>c. CASE ReadPartition(d)
    <2> DEFINE p    == Least(r.parts)
               rows == {n \in Appended : log[n].day = p /\ n > r.cursor}
               b    == r.batch \cup First(rows, Batch)
               new  == [r EXCEPT !.parts = r.parts \ {p}, !.batch = b]
               gone == [r EXCEPT !.pc = "wait", !.parts = {}, !.batch = {}]
    <2>1. b \subseteq Appended /\ b \in SUBSET NIDs
      BY <1>2, <1>5, FirstIn, Zenon
    <2>2. r.parts \ {p} \in SUBSET Days
      BY <1>2, Zenon
    <2>3. r.pc = "read" /\ UNCHANGED <<job, dbCursor, faults>>
      BY <1>c, Zenon DEF ReadPartition
    <2>4. disp' = [disp EXCEPT ![d] = new] \/ disp' = [disp EXCEPT ![d] = gone]
      BY <1>c, Zenon DEF ReadPartition
    <2> HIDE DEF b, p
    <2>5. new \in Loops /\ gone \in Loops
      BY <1>1, <2>1, <2>2, LoopReads, LoopLists, Zenon
    <2>6. new.batch = b /\ new.pc = r.pc /\ gone.batch = {} /\ gone.pc = "wait"
      BY <1>1, Zenon DEF Loops
    <2> HIDE DEF new, gone
    <2>7. CASE disp' = [disp EXCEPT ![d] = new]
      BY <1>3, <1>8, <2>1, <2>3, <2>5, <2>6, <2>7, Zenon
    <2>8. CASE disp' = [disp EXCEPT ![d] = gone]
      BY <1>3, <1>8, <2>3, <2>5, <2>6, <2>8, Zenon
    <2> QED  BY <2>4, <2>7, <2>8, Zenon
  <1>d. CASE SortEvents(d)
    <2> DEFINE b   == First(r.batch, Batch)
               pc  == IF b = {} THEN "wait" ELSE "pick"
               f   == (Cardinality(b) = Batch)
               new == [r EXCEPT !.pc = pc, !.batch = b, !.full = f]
    <2>1. b \subseteq Appended /\ b \in SUBSET NIDs /\ pc \in LoopPcs /\ f \in BOOLEAN
      BY <1>2, FirstIn, Zenon
    <2>2. r.pc = "read" /\ disp' = [disp EXCEPT ![d] = new] /\ UNCHANGED <<job, dbCursor, faults>>
      BY <1>d, Zenon DEF SortEvents
    <2>3. pc # "handle" /\ (pc = "pick" => b # {})
      OBVIOUS
    <2> HIDE DEF b, pc, f
    <2>4. new \in Loops
      BY <1>1, <2>1, LoopSorts, Zenon
    <2>5. new.batch = b /\ new.pc = pc
      BY <1>1, Zenon DEF Loops
    <2> HIDE DEF new
    <2> QED  BY <1>3, <1>8, <2>1, <2>2, <2>3, <2>4, <2>5, Zenon
  <1>e. CASE PickEvent(d)
    <2> DEFINE n    == Least(r.batch)
               jnew == [pc |-> "claim", ev |-> n, left |-> Matching(log[n].type), outcome |-> "done"]
               new  == [r EXCEPT !.pc = "handle"]
    <2>1. n \in r.batch
      BY <1>2, <1>3, <1>5, <1>e, LeastIn, Zenon DEF PickEvent
    <2>2. n \in Appended /\ n \in 0 .. MaxEvents /\ Matching(log[n].type) \in SUBSET Triggers
      BY <1>2, <1>5, <2>1, Zenon DEF Matching
    <2>3. /\ job' = [job EXCEPT ![d] = jnew] /\ disp' = [disp EXCEPT ![d] = new]
          /\ UNCHANGED <<dbCursor, faults>>
      BY <1>e, Zenon DEF PickEvent, NewJob
    <2>4. jnew.pc = "claim" /\ jnew.ev = n
      OBVIOUS
    <2> HIDE DEF n
    <2>5. jnew \in Jobs
      BY <2>2, JobNew, Zenon
    <2>6. new \in Loops
      BY <1>1, LoopTo, Zenon
    <2>7. new.batch = r.batch /\ new.pc = "handle"
      BY <1>1, Zenon DEF Loops
    <2> HIDE DEF jnew, new
    <2>8. job'[d] = jnew
      BY <1>1, <2>3, Zenon DEF DispatchTypeOK
    <2>9. disp' \in [Dispatchers -> Loops] /\ job' \in [Workers -> Jobs] /\ Shape'
      BY <1>2, <1>6, <2>2, <2>3, <2>4, <2>5, <2>6, <2>7, <2>8, LoopStep, Zenon DEF Busy
    <2> QED  BY <1>7, <2>3, <2>9, Zenon DEF DispatchTypeOK
  <1>f. CASE SetCursor(d)
    <2> DEFINE n    == j.ev
               b    == r.batch \ {n}
               pc   == IF b # {} THEN "pick" ELSE IF r.full THEN "list" ELSE "wait"
               new  == [r EXCEPT !.cursor = n, !.batch = b, !.pc = pc]
    <2>1. n \in Appended /\ n \in 0 .. MaxEvents
      BY <1>4, <1>5, <1>f, Zenon DEF SetCursor
    <2>2. b \subseteq Appended /\ b \in SUBSET NIDs /\ pc \in LoopPcs
      BY <1>2, Zenon
    <2>3. job' = [job EXCEPT ![d] = IdleJob] /\ disp' = [disp EXCEPT ![d] = new]
      BY <1>f, Zenon DEF SetCursor
    <2>4. pc # "handle" /\ (pc = "pick" => b # {})
      OBVIOUS
    <2>5. dbCursor' \in 0 .. MaxEvents /\ faults' \in FaultLog
      BY <1>f, <2>1, FaultType, DispatchConstants, Zenon DEF SetCursor, DispatchTypeOK, DispatchConstants
    <2> HIDE DEF n, b, pc
    <2>6. new \in Loops
      BY <1>1, <2>1, <2>2, LoopMoves, Zenon
    <2>7. new.batch = b /\ new.pc = pc
      BY <1>1, Zenon DEF Loops
    <2>8. job'[d] = IdleJob /\ IdleJob.pc = "idle"
      BY <1>1, <2>3, Zenon DEF DispatchTypeOK, IdleJob
    <2> HIDE DEF new
    <2>9. disp' \in [Dispatchers -> Loops] /\ job' \in [Workers -> Jobs] /\ Shape'
      BY <1>6, <2>2, <2>3, <2>4, <2>6, <2>7, <2>8, IdleIsJob, LoopStep, Zenon DEF Busy
    <2> QED  BY <1>7, <2>5, <2>9, Zenon
  <1>g. CASE Tick(d)
    <2> DEFINE new == [r EXCEPT !.pc = "list"]
    <2>1. new \in Loops
      BY <1>1, LoopTo, Zenon
    <2>2. new.batch = r.batch /\ new.pc = "list"
      BY <1>1, Zenon DEF Loops
    <2>3. disp' = [disp EXCEPT ![d] = new] /\ r.pc = "wait" /\ UNCHANGED <<job, dbCursor, faults>>
      BY <1>g, Zenon DEF Tick
    <2> HIDE DEF new
    <2> QED  BY <1>2, <1>3, <1>8, <2>1, <2>2, <2>3, Zenon
  <1>h. CASE Stop(d)
    <2>1. disp' = [disp EXCEPT ![d] = Off] /\ r.pc # "handle" /\ UNCHANGED <<job, dbCursor, faults>>
      BY <1>h, Zenon DEF Stop
    <2>2. Off.batch = {} /\ Off.pc = "off"
      BY Zenon DEF Off
    <2> QED  BY <1>3, <1>8, <2>1, <2>2, OffIsLoop, Zenon
  <1>i. CASE Interrupt(d)
    <2> DEFINE new == [r EXCEPT !.ctx = "done"]
    <2>1. new \in Loops
      BY <1>1, LoopCtx, Zenon
    <2>2. new.batch = r.batch /\ new.pc = r.pc
      BY <1>1, Zenon DEF Loops
    <2>3. disp' = [disp EXCEPT ![d] = new] /\ UNCHANGED <<job, dbCursor>> /\ faults' \in FaultLog
      BY <1>i, FaultType, Zenon DEF Interrupt
    <2> HIDE DEF new
    <2> QED  BY <1>2, <1>3, <1>8, <2>1, <2>2, <2>3, Zenon
  <1> QED  BY <1>a, <1>b, <1>c, <1>d, <1>e, <1>f, <1>g, <1>h, <1>i, Zenon

LEMMA EventType ==
    ASSUME DispatchTypeOK, NEW n \in Appended PROVE log[n].hop \in Nat /\ log[n].depth \in Nat
  <1> DEFINE Rec == [type : Types, day : Days, hop : Nat, depth : Nat]
  <1>1. log \in Seq(Rec)
    BY Zenon DEF DispatchTypeOK
  <1>2. \A r \in Rec : r.hop \in Nat /\ r.depth \in Nat
    OBVIOUS
  <1> HIDE DEF Rec
  <1>3. log[n] \in Rec
    BY <1>1 DEF Appended
  <1> QED  BY <1>2, <1>3, Zenon

(* Every step keeps the types and the shape.                               *)
LEMMA NextTypes == DispatchTypeOK /\ Shape /\ StraysOK /\ [Next]_vars => DispatchTypeOK' /\ Shape'
  <1> SUFFICES ASSUME DispatchTypeOK, Shape, StraysOK, [Next]_vars PROVE DispatchTypeOK' /\ Shape'
    BY Zenon
  <1>1. ASSUME UNCHANGED <<log, disp, job>> PROVE Shape'
    BY <1>1, Zenon DEF Shape, Appended
  <1>2. ASSUME NEW type \in Types, NEW hop \in Nat, NEW depth \in Nat, NEW hooked \in BOOLEAN,
               AppendEvent(type, hop, depth, hooked),
               UNCHANGED <<today, parts, firing, dbCursor, disp, strays, ghosts, faults>>
        PROVE  DispatchTypeOK' /\ Shape'
    <2>1. /\ log' \in Seq([type : Types, day : Days, hop : Nat, depth : Nat]) /\ Len(log') <= MaxEvents
          /\ job' \in [Workers -> Jobs] /\ Shape'
      BY <1>2, AppendStep, Zenon
    <2> QED  BY <1>2, <2>1, Zenon DEF DispatchTypeOK, ghosts
  <1>3. \A n \in Appended : log[n].hop \in Nat /\ log[n].depth \in Nat
    BY EventType, Zenon
  <1>a. CASE Midnight
    BY <1>1, <1>a, FaultType, DispatchConstants DEF Midnight, DispatchTypeOK, Days, ghosts, DispatchConstants
  <1>b. CASE EnsureEventPartitionExists
    BY <1>1, <1>b, Zenon DEF EnsureEventPartitionExists, DispatchTypeOK, ghosts
  <1>c. CASE PruneEventPartitionsBefore
    BY <1>1, <1>c, Zenon DEF PruneEventPartitionsBefore, DispatchTypeOK, ghosts
  <1>d. CASE Publish
    BY <1>2, <1>d, Zenon DEF Publish
  <1>e. ASSUME NEW n \in NIDs, ChainAppends(n) PROVE DispatchTypeOK' /\ Shape'
    <2>1. n \in Appended
      BY <1>e, Zenon DEF ChainAppends
    <2>2. log[n].hop + 1 \in Nat /\ log[n].depth + 1 \in Nat
      BY <1>3, <2>1
    <2> QED  BY <1>2, <1>e, <2>2, Zenon DEF ChainAppends
  <1>f. ASSUME NEW n \in NIDs, StrayAppends(n) PROVE DispatchTypeOK' /\ Shape'
    <2>1. PICK type \in Types, hooked \in BOOLEAN : AppendEvent(type, 0, log[n].depth + 1, hooked)
      BY <1>f, Zenon DEF StrayAppends
    <2>2. log[n].depth + 1 \in Nat
      BY <1>3, <1>f DEF StrayAppends, StraysOK
    <2> QED  BY <1>2, <1>f, <2>1, <2>2, Zenon DEF StrayAppends
  <1>g. ASSUME NEW w \in Workers,
               BeginFiring(w) \/ ClaimFails(w) \/ Refuse(w) \/ RunChain(w)
                 \/ ChainReturns(w) \/ FinishFiring(w) \/ FinishFails(w)
        PROVE  DispatchTypeOK' /\ Shape'
    BY <1>g, HandleTypes, Zenon
  <1>h. ASSUME NEW n \in NIDs, GoroutineEnds(n) PROVE DispatchTypeOK' /\ Shape'
    <2>1. n \in Workers /\ n \notin Dispatchers
      BY DispatchConstants, Zenon DEF Workers, DispatchConstants
    <2>2. job' \in [Workers -> Jobs] /\ \A v \in Workers : job'[v] = IF v = n THEN IdleJob ELSE job[v]
      BY <1>h, <2>1, IdleIsJob, Zenon DEF GoroutineEnds, DispatchTypeOK
    <2>3. IdleJob.pc = "idle"
      BY Zenon DEF IdleJob
    <2>4. Shape'
      BY <1>h, <2>1, <2>2, <2>3, Zenon DEF Shape, GoroutineEnds, Appended, Busy, Workers
    <2> QED  BY <1>h, <2>2, <2>4, Zenon DEF GoroutineEnds, DispatchTypeOK, ghosts
  <1>i. ASSUME NEW n \in NIDs, NEW t \in Triggers, ClaimGoesStale(n, t) PROVE DispatchTypeOK' /\ Shape'
    <2>1. firing' \in [NIDs -> [Triggers -> Statuses]]
      BY <1>i, Zenon DEF ClaimGoesStale, DispatchTypeOK, Statuses
    <2>2. faults' \in FaultLog
      BY <1>i, FaultType, Zenon DEF ClaimGoesStale, DispatchTypeOK
    <2> QED  BY <1>1, <1>i, <2>1, <2>2, Zenon DEF ClaimGoesStale, DispatchTypeOK, ghosts
  <1>j. ASSUME NEW d \in Dispatchers,
               Start(d) \/ ListEventPartitions(d) \/ ReadPartition(d) \/ SortEvents(d) \/ PickEvent(d)
                 \/ SetCursor(d) \/ Tick(d) \/ Stop(d) \/ Interrupt(d)
        PROVE  DispatchTypeOK' /\ Shape'
    BY <1>j, LoopTypes, Zenon
  <1>k. ASSUME NEW w \in Workers, Crash(w) PROVE DispatchTypeOK' /\ Shape'
    <2>1. job' \in [Workers -> Jobs] /\ \A v \in Workers : job'[v] = IF v = w THEN IdleJob ELSE job[v]
      BY <1>k, IdleIsJob, Zenon DEF Crash, DispatchTypeOK
    <2>2. disp' \in [Dispatchers -> Loops] /\ \A d \in Dispatchers : disp'[d] = IF d = w THEN Off ELSE disp[d]
      BY <1>k, OffIsLoop, Zenon DEF Crash, DispatchTypeOK
    <2>3. died' \in [NIDs -> [Triggers -> Nat]]
      <3>1. CASE job[w].pc \in Busy
        <4>1. job[w].ev \in NIDs
          BY <3>1, AppendedIn, Zenon DEF Shape, Busy
        <4> QED  BY <1>k, <3>1, <4>1, CountType, Zenon DEF Crash, Busy
      <3>2. CASE job[w].pc \notin Busy
        BY <1>k, <3>2, Zenon DEF Crash, Busy, DispatchTypeOK
      <3> QED  BY <3>1, <3>2, Zenon
    <2>4. IdleJob.pc = "idle" /\ Off.pc = "off" /\ Off.batch = {}
      BY Zenon DEF IdleJob, Off
    <2>5. faults' \in FaultLog
      BY <1>k, FaultType, Zenon DEF Crash
    <2>6. Appended' = Appended
      BY <1>k, Zenon DEF Crash, Appended
    <2>7. Shape'
      BY <2>1, <2>2, <2>4, <2>6, Zenon DEF Shape, Busy, Workers
    <2> QED  BY <1>k, <2>1, <2>2, <2>3, <2>5, <2>7, Zenon DEF Crash, DispatchTypeOK
  <1>l. ASSUME NEW w \in Workers, ChainStrays(w) PROVE DispatchTypeOK' /\ Shape'
    <2>1. job[w].ev \in NIDs
      BY <1>l, AppendedIn, Zenon DEF ChainStrays, Shape
    <2>2. strays' \subseteq NIDs
      BY <1>l, <2>1, Zenon DEF ChainStrays, DispatchTypeOK
    <2>3. faults' \in FaultLog
      BY <1>l, FaultType, Zenon DEF ChainStrays
    <2> QED  BY <1>1, <1>l, <2>2, <2>3, Zenon DEF ChainStrays, DispatchTypeOK, ghosts
  <1>m. CASE UNCHANGED vars
    BY <1>1, <1>m, Zenon DEF vars, DispatchTypeOK, ghosts
  <1> QED
    BY <1>a, <1>b, <1>c, <1>d, <1>e, <1>f, <1>g, <1>h, <1>i, <1>j, <1>k, <1>l, <1>m, Zenon DEF Next, Handle, Loop

(* Only an event of the log has strays.                                    *)
LEMMA NextStrays == DispatchTypeOK /\ Shape /\ StraysOK /\ [Next]_vars => StraysOK'
  <1> SUFFICES ASSUME DispatchTypeOK, Shape, StraysOK, [Next]_vars PROVE StraysOK'
    OBVIOUS
  <1>1. ASSUME UNCHANGED <<log, strays>> PROVE StraysOK'
    BY <1>1, Zenon DEF StraysOK, Appended
  <1>2. ASSUME UNCHANGED strays, NEW type, NEW hop, NEW depth, NEW hooked, AppendEvent(type, hop, depth, hooked)
        PROVE  StraysOK'
    <2>1. Len(log') = Len(log) + 1
      BY <1>2 DEF AppendEvent, DispatchTypeOK
    <2>2. Appended \subseteq Appended'
      BY <2>1 DEF Appended, DispatchTypeOK
    <2> QED  BY <1>2, <2>2, Zenon DEF StraysOK
  <1>3. ASSUME NEW w \in Workers, ChainReturns(w) \/ ChainStrays(w) PROVE StraysOK'
    <2>1. job[w].ev \in Appended
      BY <1>3, Zenon DEF ChainReturns, ChainStrays, Shape
    <2>2. strays' \subseteq strays \cup {job[w].ev} /\ log' = log
      BY <1>3, Zenon DEF ChainReturns, ChainStrays, ghosts
    <2> QED  BY <2>1, <2>2, Zenon DEF StraysOK, Appended
  <1>a. CASE Midnight \/ EnsureEventPartitionExists \/ PruneEventPartitionsBefore \/ UNCHANGED vars
    BY <1>1, <1>a, Zenon DEF Midnight, EnsureEventPartitionExists, PruneEventPartitionsBefore, vars
  <1>b. CASE Publish
    BY <1>2, <1>b, Zenon DEF Publish
  <1>c. ASSUME NEW n \in NIDs, ChainAppends(n) PROVE StraysOK'
    BY <1>2, <1>c, Zenon DEF ChainAppends
  <1>d. ASSUME NEW n \in NIDs, StrayAppends(n) PROVE StraysOK'
    BY <1>2, <1>d, Zenon DEF StrayAppends
  <1>e. ASSUME NEW w \in Workers,
               BeginFiring(w) \/ ClaimFails(w) \/ Refuse(w) \/ RunChain(w)
                 \/ FinishFiring(w) \/ FinishFails(w) \/ Crash(w)
        PROVE  StraysOK'
    BY <1>1, <1>e, Zenon DEF BeginFiring, ClaimFails, Refuse, RunChain, FinishFiring, FinishFails, Crash
  <1>f. ASSUME NEW n \in NIDs, GoroutineEnds(n) \/ \E t \in Triggers : ClaimGoesStale(n, t)
        PROVE  StraysOK'
    BY <1>1, <1>f, Zenon DEF GoroutineEnds, ClaimGoesStale
  <1>g. ASSUME NEW d \in Dispatchers, Start(d) \/ Loop(d) \/ Interrupt(d) PROVE StraysOK'
    BY <1>1, <1>g, ZenonT(30) DEF Start, Loop, Interrupt, ListEventPartitions, ReadPartition, SortEvents, PickEvent,
                      SetCursor, Tick, Stop
  <1> QED  BY <1>3, <1>a, <1>b, <1>c, <1>d, <1>e, <1>f, <1>g, Zenon DEF Next, Handle
-----------------------------------------------------------------------------
(* Rows.                                                                   *)

(* A worker that is not busy, and does not become so, changes no holder.   *)
LEMMA IdleMoves ==
    ASSUME Rows, NEW w \in Workers, \A v \in Workers : v # w => job'[v] = job[v],
           job[w].pc \notin Busy, job'[w].pc \notin Busy, UNCHANGED <<firing, ran, died>>
    PROVE  Rows'
  <1> SUFFICES ASSUME NEW n \in NIDs, NEW t \in Triggers PROVE RowOK(n, t)'
    BY Zenon DEF Rows
  <1>1. \A v \in Workers : Holds(v, n, t)' <=> Holds(v, n, t)
    BY Zenon DEF Holds, Trig, Busy
  <1>2. \A v \in Workers : Holds(v, n, t) => job'[v].pc = job[v].pc
    BY Zenon DEF Holds, Busy
  <1>3. Underway(n, t)' <=> Underway(n, t)
    BY <1>1, <1>2, Zenon DEF Underway
  <1>4. RowOK(n, t)
    BY Zenon DEF Rows
  <1> QED  BY <1>1, <1>3, <1>4, Zenon DEF RowOK

LEMMA RecordAt ==
    ASSUME DispatchTypeOK, NEW w \in Workers, job[w].ev \in NIDs, Trig(w) \in Triggers, NEW s, Record(w, s),
           NEW n \in NIDs, NEW t \in Triggers
    PROVE  firing'[n][t] = IF n = job[w].ev /\ t = Trig(w) THEN s ELSE firing[n][t]
  <1> DEFINE e == job[w].ev
             u == Trig(w)
  <1>1. e \in NIDs /\ u \in Triggers /\ firing' = [firing EXCEPT ![e][u] = s]
    BY Zenon DEF Record
  <1> HIDE DEF e, u
  <1>2. firing'[n][t] = IF n = e /\ t = u THEN s ELSE firing[n][t]
    BY <1>1, Zenon DEF DispatchTypeOK
  <1> QED  BY <1>2, Zenon DEF e, u

LEMMA CountAt ==
    ASSUME NEW f \in [NIDs -> [Triggers -> Nat]], NEW w, job[w].ev \in NIDs, Trig(w) \in Triggers,
           NEW n \in NIDs, NEW t \in Triggers
    PROVE  Count(f, w)[n][t] = IF n = job[w].ev /\ t = Trig(w) THEN f[n][t] + 1 ELSE f[n][t]
  <1> DEFINE e == job[w].ev
             u == Trig(w)
  <1>1. e \in NIDs /\ u \in Triggers /\ Count(f, w) = [f EXCEPT ![e][u] = @ + 1]
    BY Zenon DEF Count
  <1> HIDE DEF e, u
  <1>2. Count(f, w)[n][t] = IF n = e /\ t = u THEN f[n][t] + 1 ELSE f[n][t]
    BY <1>1
  <1> QED  BY <1>2, Zenon DEF e, u

(* ... and only there.                                                     *)
LEMMA RecordElsewhere ==
    ASSUME DispatchTypeOK, NEW w \in Workers, job[w].ev \in NIDs, Trig(w) \in Triggers, NEW s, Record(w, s),
           NEW n \in NIDs, NEW t \in Triggers, ~ (n = job[w].ev /\ t = Trig(w))
    PROVE  firing'[n][t] = firing[n][t]
  BY RecordAt

LEMMA CountElsewhere ==
    ASSUME NEW f \in [NIDs -> [Triggers -> Nat]], NEW w, job[w].ev \in NIDs, Trig(w) \in Triggers,
           NEW n \in NIDs, NEW t \in Triggers, ~ (n = job[w].ev /\ t = Trig(w))
    PROVE  Count(f, w)[n][t] = f[n][t]
  BY CountAt

(* handle() keeps the rows.                                                *)
LEMMA HandleRows ==
    ASSUME DispatchTypeOK, Shape, Rows, NEW w \in Workers,
           \/ BeginFiring(w) \/ ClaimFails(w) \/ Refuse(w) \/ RunChain(w) \/ ChainReturns(w)
           \/ FinishFiring(w) \/ FinishFails(w) \/ Crash(w)
    PROVE  Rows'
  <1> DEFINE e == job[w].ev
             u == Trig(w)
  <1>1. \A v \in Workers : v # w => job'[v] = job[v]
    BY Zenon DEF DispatchTypeOK, BeginFiring, NextTrigger, ClaimFails, Refuse, Ends, RunChain, ChainReturns,
           FinishFiring, FinishFails, Crash
  <1>2. NextTrigger(w) => job'[w].pc = "claim"
    BY DEF DispatchTypeOK, NextTrigger, Jobs
  <1>3. \A o : Ends(w, o) => job'[w].pc = "finish" /\ job'[w].ev = e /\ job'[w].left = job[w].left
    BY DEF DispatchTypeOK, Ends, Jobs
  <1>4. \A pc : job' = [job EXCEPT ![w].pc = pc] => job'[w].pc = pc /\ job'[w].ev = e /\ job'[w].left = job[w].left
    BY DEF DispatchTypeOK, Jobs
  <1>5. ASSUME job[w].pc # "idle", job[w].left # {} PROVE e \in NIDs /\ u \in Triggers
    BY <1>5, AppendedIn, TrigIn, Zenon DEF Shape
  <1>6. job[w].pc \in Busy => job[w].pc # "idle" /\ job[w].left # {} /\ Holds(w, e, u)
    BY Zenon DEF Shape, Busy, Holds
  <1>7. ASSUME NEW n, NEW t, NEW v \in Workers, v # w PROVE Holds(v, n, t)' <=> Holds(v, n, t)
    BY <1>1, <1>7, Zenon DEF Holds, Trig
  <1>8. ASSUME NEW n, NEW t, job'[w].pc \in Busy, job'[w].ev = e, job'[w].left = job[w].left
        PROVE  Holds(w, n, t)' <=> (n = e /\ t = u)
    BY <1>8, Zenon DEF Holds, Trig, Busy
  <1>9. ASSUME NEW n, NEW t, job'[w].pc \notin Busy PROVE ~ Holds(w, n, t)'
    BY <1>9, Zenon DEF Holds, Busy
  <1>10. \A n \in NIDs, t \in Triggers : RowOK(n, t)
    BY Zenon DEF Rows
  <1>11. \A n \in NIDs, t \in Triggers : ran[n][t] \in Nat /\ died[n][t] \in Nat
    BY Zenon DEF DispatchTypeOK
  (* A busy worker that stays busy: Refuse, RunChain and ChainReturns.      *)
  <1>12. ASSUME job[w].pc \in Busy, job'[w].pc \in Busy, job'[w].pc # "run", job'[w].ev = e,
                job'[w].left = job[w].left, UNCHANGED <<firing, died>>,
                ran' = IF job[w].pc = "run" /\ job'[w].pc = "chain" THEN Count(ran, w) ELSE ran
         PROVE  Rows'
    <2> SUFFICES ASSUME NEW n \in NIDs, NEW t \in Triggers PROVE RowOK(n, t)'
      BY Zenon DEF Rows
    <2>1. \A v \in Workers : Holds(v, n, t)' <=> Holds(v, n, t)
      <3>1. Holds(w, n, t) <=> (n = e /\ t = u)
        BY <1>12, ZenonT(30) DEF Holds, Busy
      <3> QED  BY <1>7, <1>8, <1>12, <3>1, Zenon
    <2>2. Underway(n, t) => Underway(n, t)'
      BY <1>1, <1>12, <2>1, ZenonT(30) DEF Underway
    <2>3. CASE ran' = ran
      BY <1>10, <1>12, <2>1, <2>2, <2>3, Zenon DEF RowOK
    <2>4. CASE ran' # ran
      <3>1. job[w].pc = "run" /\ ran' = Count(ran, w) /\ e \in NIDs /\ u \in Triggers
        BY <1>5, <1>6, <1>12, <2>4, Zenon
      <3>2. ran'[n][t] = IF n = e /\ t = u THEN ran[n][t] + 1 ELSE ran[n][t]
        <4>1. ran \in [NIDs -> [Triggers -> Nat]]
          BY Zenon DEF DispatchTypeOK
        <4>2. Count(ran, w)[n][t] = IF n = e /\ t = u THEN ran[n][t] + 1 ELSE ran[n][t]
          BY <3>1, <4>1, CountAt
        <4> QED  BY <3>1, <4>2, Zenon
      <3>3. CASE n = e /\ t = u
        <4>1. Holds(w, n, t) /\ RowOK(n, t)
          BY <1>6, <1>10, <1>12, <3>3, ZenonT(30)
        <4>2. firing[n][t] \notin Settled /\ ~ Underway(n, t)
          BY <3>1, <4>1, ZenonT(30) DEF RowOK, Underway, Settled
        <4>3. ran[n][t] <= died[n][t]
          BY <4>1, <4>2, ZenonT(30) DEF RowOK
        <4>4. Underway(n, t)'
          BY <1>12, <2>1, <4>1, Zenon DEF Underway
        <4>5. ran'[n][t] <= 1 + died'[n][t]
          BY <1>11, <1>12, <3>2, <3>3, <4>3, OneMoreRun, Zenon
        <4> QED  BY <1>12, <2>1, <4>1, <4>4, <4>5, Zenon DEF RowOK
      <3>4. CASE ~ (n = e /\ t = u)
        BY <1>10, <1>12, <2>1, <2>2, <3>2, <3>4, ZenonT(30) DEF RowOK
      <3> QED  BY <3>3, <3>4, Zenon
    <2> QED  BY <2>3, <2>4, Zenon
  (* A holder that lets go, its outcome recorded or the run counted as lost. *)
  <1>13. ASSUME job[w].pc \in Busy, job'[w].pc \notin Busy, UNCHANGED ran,
                \/ died' = Count(died, w) /\ UNCHANGED firing
                \/ UNCHANGED died /\ \E s \in Settled : Record(w, s)
         PROVE  Rows'
    <2> SUFFICES ASSUME NEW n \in NIDs, NEW t \in Triggers PROVE RowOK(n, t)'
      BY Zenon DEF Rows
    <2>1. e \in NIDs /\ u \in Triggers /\ Holds(w, e, u)
      BY <1>5, <1>6, <1>13, ZenonT(30)
    <2>2. CASE n = e /\ t = u
      <3>1. \A v \in Workers : ~ Holds(v, n, t)'
        BY <1>7, <1>9, <1>10, <1>13, <2>1, <2>2 DEF RowOK
      <3>2. ran[n][t] <= 1 + died[n][t]
        BY <1>10, Zenon DEF RowOK
      <3>3. CASE died' = Count(died, w)
        <4>1. died'[n][t] = died[n][t] + 1
          BY <2>1, <2>2, <3>3, CountAt, ZenonT(30) DEF DispatchTypeOK
        <4>2. ran'[n][t] = ran[n][t] /\ ran[n][t] \in Nat /\ died[n][t] \in Nat
          BY <1>11, <1>13, Zenon
        <4>3. ran'[n][t] <= died'[n][t] /\ ran'[n][t] <= 1 + died'[n][t]
          BY <3>2, <4>1, <4>2
        <4> QED  BY <3>1, <4>3, Zenon DEF RowOK
      <3>4. CASE UNCHANGED died /\ \E s \in Settled : Record(w, s)
        <4>1. firing'[n][t] \in Settled
          BY <2>1, <2>2, <3>4, RecordAt, Zenon
        <4>2. ran'[n][t] <= 1 + died'[n][t]
          BY <1>13, <3>2, <3>4, Zenon
        <4> QED  BY <3>1, <4>1, <4>2, Zenon DEF RowOK
      <3> QED  BY <1>13, <3>3, <3>4, ZenonT(30)
    <2>3. CASE ~ (n = e /\ t = u)
      <3>1. \A v \in Workers : Holds(v, n, t)' <=> Holds(v, n, t)
        <4>1. ~ Holds(w, n, t) /\ ~ Holds(w, n, t)'
          BY <1>9, <1>13, <2>3, Zenon DEF Holds
        <4> QED  BY <1>7, <4>1, Zenon
      <3>2. Underway(n, t)' <=> Underway(n, t)
        BY <1>1, <1>9, <1>13, <3>1, Zenon DEF Underway
      <3>3. died'[n][t] = died[n][t]
        <4>1. died \in [NIDs -> [Triggers -> Nat]]
          BY Zenon DEF DispatchTypeOK
        <4>2. Count(died, w)[n][t] = died[n][t]
          BY <2>1, <2>3, <4>1, CountElsewhere, Zenon
        <4> QED  BY <1>13, <4>2, Zenon
      <3>4. firing'[n][t] = firing[n][t]
        BY <1>13, <2>1, <2>3, RecordElsewhere, Zenon
      <3> QED  BY <1>10, <1>13, <3>1, <3>2, <3>3, <3>4, Zenon DEF RowOK
    <2> QED  BY <2>2, <2>3, Zenon
  <1>a. CASE BeginFiring(w)
    <2>1. job[w].pc = "claim" /\ job[w].left # {} /\ UNCHANGED <<ran, died>>
      BY <1>a, Zenon DEF BeginFiring, Claims, ghosts
    <2>2. CASE Status(w) \notin {"none", "stale"}
      <3>1. NextTrigger(w) /\ UNCHANGED firing
        BY <1>a, <2>2, Zenon DEF BeginFiring
      <3> QED  BY <1>1, <1>2, <2>1, <3>1, IdleMoves, Zenon DEF Busy
    <2>3. CASE Status(w) \in {"none", "stale"}
      <3>1. Record(w, "running") /\ job' = [job EXCEPT ![w].pc = "run"]
        BY <1>a, <2>3, Zenon DEF BeginFiring
      <3>2. e \in NIDs /\ u \in Triggers /\ firing[e][u] \in {"none", "stale"}
        BY <1>5, <2>1, <2>3, Zenon DEF Status
      <3>3. job'[w].pc = "run" /\ job'[w].ev = e /\ job'[w].left = job[w].left
        BY <1>4, <3>1, Zenon
      <3> SUFFICES ASSUME NEW n \in NIDs, NEW t \in Triggers PROVE RowOK(n, t)'
        BY Zenon DEF Rows
      <3>4. Holds(w, n, t)' <=> (n = e /\ t = u)
        BY <1>8, <3>3 DEF Busy
      <3>5. ~ Holds(w, n, t)
        BY <2>1, Zenon DEF Holds
      <3>6. firing'[n][t] = IF n = e /\ t = u THEN "running" ELSE firing[n][t]
        BY <3>1, <3>2, RecordAt
      <3>7. CASE n = e /\ t = u
        <4>1. \A v \in Workers : ~ Holds(v, n, t)
          BY <1>10, <3>2, <3>7, Zenon DEF RowOK
        <4>2. ran[n][t] <= died[n][t]
          BY <1>10, <3>2, <3>7, <4>1, Zenon DEF RowOK, Underway, Settled
        <4>3. \A v \in Workers : Holds(v, n, t)' <=> v = w
          BY <1>7, <3>4, <3>7, <4>1, Zenon
        <4>4. ran'[n][t] <= died'[n][t] /\ ran'[n][t] <= 1 + died'[n][t]
          BY <1>11, <2>1, <4>2
        <4> QED  BY <3>6, <3>7, <4>3, <4>4, Zenon DEF RowOK
      <3>8. CASE ~ (n = e /\ t = u)
        <4>1. \A v \in Workers : Holds(v, n, t)' <=> Holds(v, n, t)
          BY <1>7, <3>4, <3>5, <3>8, Zenon
        <4>2. Underway(n, t)' <=> Underway(n, t)
          BY <1>1, <3>5, <4>1, Zenon DEF Underway
        <4> QED  BY <1>10, <2>1, <3>6, <3>8, <4>1, <4>2, Zenon DEF RowOK
      <3> QED  BY <3>7, <3>8, Zenon
    <2> QED  BY <2>2, <2>3, Zenon
  <1>b. CASE ClaimFails(w)
    BY <1>1, <1>2, <1>b, IdleMoves, Zenon DEF ClaimFails, Claims, Busy, ghosts
  <1>c. CASE Refuse(w)
    BY <1>3, <1>12, <1>c, Zenon DEF Refuse, Busy, ghosts
  <1>d. CASE RunChain(w)
    <2>1. job[w].pc = "run" /\ job' = [job EXCEPT ![w].pc = "chain"] /\ ran' = Count(ran, w) /\ UNCHANGED <<firing, died>>
      BY <1>d, Zenon DEF RunChain
    <2>2. job'[w].pc = "chain" /\ job'[w].ev = e /\ job'[w].left = job[w].left
      BY <1>4, <2>1, Zenon
    <2> QED  BY <1>12, <2>1, <2>2, Zenon DEF Busy
  <1>e. CASE ChainReturns(w)
    BY <1>3, <1>12, <1>e, ZenonT(30) DEF ChainReturns, Busy, ghosts
  <1>f. CASE FinishFiring(w)
    <2>1. job[w].outcome \in Settled
      BY Zenon DEF DispatchTypeOK, Jobs
    <2> QED  BY <1>2, <1>13, <1>f, <2>1, Zenon DEF FinishFiring, Busy, ghosts
  <1>g. CASE FinishFails(w)
    BY <1>2, <1>13, <1>g, Zenon DEF FinishFails, Busy
  <1>h. CASE Crash(w)
    <2>1. job'[w].pc = "idle"
      BY <1>h, Zenon DEF Crash, DispatchTypeOK, IdleJob
    <2>2. CASE job[w].pc \in Busy
      BY <1>13, <1>h, <2>1, <2>2, Zenon DEF Crash, Busy
    <2>3. CASE job[w].pc \notin Busy
      BY <1>1, <1>h, <2>1, <2>3, IdleMoves, Zenon DEF Crash, Busy
    <2> QED  BY <2>2, <2>3, Zenon
  <1> QED  BY <1>a, <1>b, <1>c, <1>d, <1>e, <1>f, <1>g, <1>h, Zenon

(* What was seen stays seen.                                               *)
LEMMA FaultSeen == ASSUME NEW k, Fault(k) PROVE k \in faults'.seen /\ faults.seen \subseteq faults'.seen
  BY Zenon DEF Fault

LEMMA SeenGrows == ASSUME [Next]_vars, NEW kinds, Unseen(kinds)' PROVE Unseen(kinds)
  <1> SUFFICES faults.seen \subseteq faults'.seen
    BY Zenon DEF Unseen
  <1>1. UNCHANGED faults \/ \E k : Fault(k)
    <2>1. ASSUME NEW w \in Workers, Handle(w) \/ ChainStrays(w) \/ ClaimFails(w) \/ FinishFails(w) \/ Crash(w)
          PROVE  UNCHANGED faults \/ \E k : Fault(k)
      BY <2>1, Zenon DEF Handle, BeginFiring, ClaimFails, Refuse, RunChain, ChainReturns, FinishFiring,
                         ChainStrays, FinishFails, Crash
    <2>2. ASSUME NEW n \in NIDs, GoroutineEnds(n) \/ ChainAppends(n) \/ StrayAppends(n) PROVE UNCHANGED faults
      BY <2>2, Zenon DEF GoroutineEnds, ChainAppends, StrayAppends
    <2>3. ASSUME NEW n \in NIDs, NEW t \in Triggers, ClaimGoesStale(n, t)
          PROVE  UNCHANGED faults \/ \E k : Fault(k)
      BY <2>3, Zenon DEF ClaimGoesStale
    <2>4. ASSUME NEW d \in Dispatchers, Start(d) \/ Loop(d) \/ Interrupt(d)
          PROVE  UNCHANGED faults \/ \E k : Fault(k)
      BY <2>4, Zenon DEF Start, Loop, Interrupt, ListEventPartitions, ReadPartition, SortEvents, PickEvent,
                         SetCursor, Tick, Stop
    <2>5. CASE Midnight \/ EnsureEventPartitionExists \/ PruneEventPartitionsBefore \/ Publish \/ UNCHANGED vars
      BY <2>5, Zenon DEF Midnight, EnsureEventPartitionExists, PruneEventPartitionsBefore, Publish, vars
    <2> QED  BY <2>1, <2>2, <2>3, <2>4, <2>5, Zenon DEF Next
  <1> QED  BY <1>1, FaultSeen, Zenon

(* Every step keeps the rows, if no chain outlasts its claim.              *)
LEMMA NextRows == IInv /\ [Next]_vars /\ Unseen({"slow"})' => Rows'
  <1> SUFFICES ASSUME IInv, [Next]_vars, Unseen({"slow"})' PROVE Rows'
    OBVIOUS
  <1>0. DispatchTypeOK /\ Shape /\ StraysOK /\ Rows
    BY SeenGrows, Zenon DEF IInv
  <1> USE <1>0
  <1>1. ASSUME UNCHANGED <<job, firing, ran, died>> PROVE Rows'
    <2>1. ASSUME NEW w, NEW n, NEW t PROVE Holds(w, n, t)' <=> Holds(w, n, t)
      BY <1>1, Zenon DEF Holds, Trig
    <2>2. ASSUME NEW n, NEW t PROVE Underway(n, t)' <=> Underway(n, t)
      BY <1>1, <2>1, Zenon DEF Underway
    <2>3. ASSUME NEW n \in NIDs, NEW t \in Triggers PROVE RowOK(n, t)'
      BY <1>1, <2>1, <2>2, Zenon DEF Rows, RowOK
    <2> QED  BY <2>3, Zenon DEF Rows
  <1>2. ASSUME NEW type, NEW hop, NEW depth, NEW hooked, AppendEvent(type, hop, depth, hooked),
               UNCHANGED <<firing, ran, died>>
        PROVE  Rows'
    <2> DEFINE n == Len(log) + 1
    <2>1. n \in NIDs /\ n \in Workers
      BY <1>2, Zenon DEF AppendEvent, Workers
    <2>2. n \notin Appended
      BY DEF Appended, DispatchTypeOK
    <2>3. job[n].pc = "idle"
      BY <2>1, <2>2, Zenon DEF Shape
    <2>4. job' = [job EXCEPT ![n] = NewJob(n, type)] \/ job' = job
      <3>1. CASE hooked  BY <1>2, <3>1, Zenon DEF AppendEvent
      <3>2. CASE ~hooked  BY <1>2, <3>2, Zenon DEF AppendEvent
      <3> QED  BY <3>1, <3>2, Zenon
    <2> HIDE DEF n
    <2>5. job'[n].pc \notin Busy /\ \A v \in Workers : v # n => job'[v] = job[v]
      BY <2>1, <2>3, <2>4 DEF NewJob, Busy, DispatchTypeOK
    <2> QED  BY <1>2, <2>1, <2>3, <2>5, IdleMoves, Zenon DEF Busy
  <1>a. CASE Midnight \/ EnsureEventPartitionExists \/ PruneEventPartitionsBefore \/ UNCHANGED vars
    BY <1>1, <1>a, Zenon DEF Midnight, EnsureEventPartitionExists, PruneEventPartitionsBefore, vars, ghosts
  <1>b. CASE Publish
    BY <1>2, <1>b, Zenon DEF Publish, ghosts
  <1>c. ASSUME NEW n \in NIDs, ChainAppends(n) PROVE Rows'
    BY <1>2, <1>c, Zenon DEF ChainAppends, ghosts
  <1>d. ASSUME NEW n \in NIDs, StrayAppends(n) PROVE Rows'
    BY <1>2, <1>d, Zenon DEF StrayAppends, ghosts
  <1>s. ASSUME NEW w \in Workers, ChainStrays(w) PROVE Rows'
    BY <1>1, <1>s, Zenon DEF ChainStrays, ghosts
  <1>e. ASSUME NEW w \in Workers,
               BeginFiring(w) \/ ClaimFails(w) \/ Refuse(w) \/ RunChain(w) \/ ChainReturns(w)
                 \/ FinishFiring(w) \/ FinishFails(w) \/ Crash(w)
        PROVE  Rows'
    BY <1>e, HandleRows, Zenon
  <1>f. ASSUME NEW w \in Workers, job' = [job EXCEPT ![w] = IdleJob], job[w].pc \notin Busy,
               UNCHANGED <<firing, ran, died>>
        PROVE  Rows'
    <2>1. job'[w].pc = "idle" /\ \A v \in Workers : v # w => job'[v] = job[v]
      BY <1>f, Zenon DEF IdleJob, DispatchTypeOK
    <2> QED  BY <1>f, <2>1, IdleMoves, Zenon DEF Busy
  <1>g. ASSUME NEW n \in NIDs, GoroutineEnds(n) PROVE Rows'
    <2>1. n \in Workers
      BY Zenon DEF Workers
    <2> QED  BY <1>f, <1>g, <2>1, Zenon DEF GoroutineEnds, Busy, ghosts
  <1>h. ASSUME NEW e \in NIDs, NEW u \in Triggers, ClaimGoesStale(e, u) PROVE Rows'
    <2> SUFFICES ASSUME NEW n \in NIDs, NEW t \in Triggers PROVE RowOK(n, t)'
      BY Zenon DEF Rows
    <2>1. firing'[n][t] = IF n = e /\ t = u THEN "stale" ELSE firing[n][t]
      BY <1>h, Zenon DEF ClaimGoesStale, DispatchTypeOK
    <2>2. \A v \in Workers : Holds(v, n, t)' <=> Holds(v, n, t)
      BY <1>h, Zenon DEF ClaimGoesStale, Holds, Trig
    <2>3. Underway(n, t)' <=> Underway(n, t)
      BY <1>h, <2>2, Zenon DEF ClaimGoesStale, Underway
    <2>4. RowOK(n, t) /\ UNCHANGED <<ran, died>>
      BY <1>h, Zenon DEF Rows, ClaimGoesStale, ghosts
    <2>5. CASE n = e /\ t = u
      <3>1. ~ Fault("slow")
        BY FaultSeen, Zenon DEF Unseen
      <3>2. firing[n][t] = "running" /\ \A v \in Workers : ~ Holds(v, n, t)
        BY <1>h, <2>5, <3>1, Zenon DEF ClaimGoesStale
      <3> QED  BY <2>1, <2>2, <2>3, <2>4, <2>5, <3>2, ZenonT(30) DEF RowOK, Settled
    <2>6. CASE ~ (n = e /\ t = u)
      BY <2>1, <2>2, <2>3, <2>4, <2>6, Zenon DEF RowOK
    <2> QED  BY <2>5, <2>6, Zenon
  <1>i. ASSUME NEW d \in Dispatchers, Start(d) \/ ListEventPartitions(d) \/ ReadPartition(d)
                 \/ SortEvents(d) \/ Tick(d) \/ Stop(d) \/ Interrupt(d)
        PROVE  Rows'
    BY <1>1, <1>i, Zenon DEF Start, ListEventPartitions, ReadPartition, SortEvents, Tick, Stop, Interrupt, ghosts
  <1>j. ASSUME NEW d \in Dispatchers, PickEvent(d) PROVE Rows'
    <2>1. d \in Workers /\ job[d].pc = "idle"
      BY <1>j, Zenon DEF PickEvent, Shape, Workers
    <2>2. job'[d].pc = "claim" /\ \A v \in Workers : v # d => job'[v] = job[v]
      BY <1>j, <2>1, Zenon DEF PickEvent, NewJob, DispatchTypeOK
    <2> QED  BY <1>j, <2>1, <2>2, IdleMoves, Zenon DEF PickEvent, Busy, ghosts
  <1>k. ASSUME NEW d \in Dispatchers, SetCursor(d) PROVE Rows'
    <2>1. d \in Workers
      BY Zenon DEF Workers
    <2> QED  BY <1>f, <1>k, <2>1, Zenon DEF SetCursor, Busy, ghosts
  <1> QED
    BY <1>s, <1>a, <1>b, <1>c, <1>d, <1>e, <1>g, <1>h, <1>i, <1>j, <1>k, Zenon DEF Next, Handle, Loop

(* The tables and the locals of every worker keep their types.             *)
THEOREM TypesHold == Spec => []DispatchTypeOK
  <1>1. Init => DispatchTypeOK /\ Shape /\ StraysOK
    BY InitIInv, Zenon DEF IInv
  <1>2. DispatchTypeOK /\ Shape /\ StraysOK /\ [Next]_vars => (DispatchTypeOK /\ Shape /\ StraysOK)'
    BY NextTypes, NextStrays, Zenon
  <1> QED  BY <1>1, <1>2, PTL DEF Spec

(* IInv is an invariant.                                                   *)
LEMMA IInvHolds == Spec => []IInv
  <1>1. IInv /\ [Next]_vars => IInv'
    BY NextTypes, NextStrays, NextRows, Zenon DEF IInv
  <1> QED  BY <1>1, InitIInv, PTL DEF Spec

(* Any number of dispatchers, goroutines, crashes and failed writes: a     *)
(* chain that never outlasts StaleEventFiringClaim runs once, plus once    *)
(* for every claim whose outcome was never recorded.                       *)
THEOREM FiringOnce == Spec => []FiresOnce
  <1>1. IInv => FiresOnce
    BY Zenon DEF IInv, Rows, RowOK, FiresOnce
  <1> QED  BY <1>1, IInvHolds, PTL

(* And a recorded outcome is never overwritten, though FinishFiring checks *)
(* nothing: only the holder calls it, and only a running row has one.      *)
THEOREM OutcomesFinal == Spec => OutcomeFinal
  <1> DEFINE Keeps == Unseen({"slow"})' => \A n \in NIDs, t \in Triggers : firing[n][t] \in Settled => firing'[n][t] = firing[n][t]
  <1>1. IInv /\ [Next]_vars => [Keeps]_vars
    <2> SUFFICES ASSUME IInv, Next, Unseen({"slow"})',
                        NEW n \in NIDs, NEW t \in Triggers, firing[n][t] \in Settled
                 PROVE  firing'[n][t] = firing[n][t]
      BY Zenon DEF vars
    <2>0. DispatchTypeOK /\ Shape /\ StraysOK /\ Rows
      BY SeenGrows, Zenon DEF IInv
    <2> USE <2>0
    <2>1. \A w \in Workers : ~ Holds(w, n, t)
      BY Zenon DEF Rows, RowOK, Settled
    <2>2. ASSUME UNCHANGED firing PROVE firing'[n][t] = firing[n][t]
      BY <2>2, Zenon
    <2>3. ASSUME NEW w \in Workers, BeginFiring(w) PROVE firing'[n][t] = firing[n][t]
      <3>1. CASE UNCHANGED firing  BY <3>1, Zenon
      <3>2. CASE Record(w, "running") /\ Status(w) \in {"none", "stale"}
        <4>1. job[w].ev \in NIDs /\ Trig(w) \in Triggers
          BY <2>3, AppendedIn, TrigIn, Zenon DEF BeginFiring, Claims, Shape
        <4> QED  BY <3>2, <4>1, RecordAt DEF Status, Settled
      <3> QED  BY <2>3, <3>1, <3>2, Zenon DEF BeginFiring
    <2>4. ASSUME NEW w \in Workers, FinishFiring(w) PROVE firing'[n][t] = firing[n][t]
      <3>1. job[w].ev \in NIDs /\ job[w].left # {} /\ job[w].pc = "finish"
        BY <2>4, AppendedIn, Zenon DEF FinishFiring, Shape, Busy
      <3>2. Trig(w) \in Triggers
        BY <3>1, TrigIn, Zenon
      <3>3. ~ (n = job[w].ev /\ t = Trig(w))
        BY <2>1, <3>1, Zenon DEF Holds
      <3> QED  BY <2>4, <3>1, <3>2, <3>3, RecordAt DEF FinishFiring
    <2>5. ASSUME NEW e \in NIDs, NEW u \in Triggers, ClaimGoesStale(e, u) PROVE firing'[n][t] = firing[n][t]
      BY <2>5, Zenon DEF ClaimGoesStale, DispatchTypeOK, Settled
    <2>6. CASE Midnight \/ EnsureEventPartitionExists \/ PruneEventPartitionsBefore \/ Publish
      BY <2>2, <2>6, Zenon DEF Midnight, EnsureEventPartitionExists, PruneEventPartitionsBefore, Publish
    <2>7. ASSUME NEW w \in Workers, ClaimFails(w) \/ Refuse(w) \/ RunChain(w) \/ ChainReturns(w)
                   \/ ChainStrays(w) \/ FinishFails(w) \/ Crash(w)
          PROVE  firing'[n][t] = firing[n][t]
      BY <2>2, <2>7, Zenon DEF ClaimFails, Refuse, RunChain, ChainReturns, ChainStrays, FinishFails, Crash
    <2>8. ASSUME NEW k \in NIDs, GoroutineEnds(k) \/ ChainAppends(k) \/ StrayAppends(k)
          PROVE  firing'[n][t] = firing[n][t]
      BY <2>2, <2>8, ZenonT(30) DEF GoroutineEnds, ChainAppends, StrayAppends
    <2>9. ASSUME NEW d \in Dispatchers, Start(d) \/ Loop(d) \/ Interrupt(d) PROVE firing'[n][t] = firing[n][t]
      BY <2>2, <2>9, Zenon DEF Start, Loop, Interrupt, ListEventPartitions, ReadPartition, SortEvents, PickEvent,
                        SetCursor, Tick, Stop
    <2> QED  BY <2>3, <2>4, <2>5, <2>6, <2>7, <2>8, <2>9, Zenon DEF Next, Handle
  <1> HIDE DEF Keeps
  <1>2. Spec => [][Keeps]_vars
    BY <1>1, IInvHolds, PTL DEF Spec
  <1> QED  BY <1>2, Zenon DEF OutcomeFinal, Keeps

(* Every step keeps the hop equal to the depth while nothing forgets it.   *)
LEMMA NextHops ==
    DispatchTypeOK /\ Shape /\ (Loopless => Hops) /\ [Next]_vars => (Loopless => Hops)'
  <1> SUFFICES ASSUME DispatchTypeOK, Shape, Loopless => Hops, [Next]_vars, Loopless'
               PROVE  Hops'
    BY Zenon
  <1>0. Hops /\ ~ Fault("suspend") /\ ~ Fault("stray")
    BY SeenGrows, FaultSeen, Zenon DEF Unseen, Loopless
  <1> USE <1>0
  <1>1. ASSUME UNCHANGED <<log, strays, ran>> PROVE Hops'
    BY <1>1, Zenon DEF Hops, Appended
  <1>2. ASSUME NEW type, NEW h \in Nat, h <= MaxHop + 1, NEW hooked,
               AppendEvent(type, h, h, hooked), UNCHANGED <<strays, ran>>
        PROVE  Hops'
    <2> DEFINE n == Len(log) + 1
    <2>1. Len(log) \in Nat
      BY DEF DispatchTypeOK
    <2>2. PICK day : log' = Append(log, [type |-> type, day |-> day, hop |-> h, depth |-> h])
      BY <1>2, Zenon DEF AppendEvent
    <2>3. /\ Len(log') = n /\ \A k \in 1 .. Len(log) : log'[k] = log[k]
          /\ log'[n].hop = h /\ log'[n].depth = h
      BY <2>2 DEF DispatchTypeOK
    <2>4. Appended' = Appended \cup {n}
      BY <2>1, <2>3 DEF Appended
    <2>5. \A k \in Appended' : log'[k].hop = log'[k].depth /\ log'[k].depth <= MaxHop + 1
      BY <1>2, <2>3, <2>4, Zenon DEF Hops, Appended
    <2>6. \A k \in NIDs, t \in Triggers : ran'[k][t] > 0 => k \in Appended' /\ log'[k].hop <= MaxHop
      BY <1>2, <2>3, <2>4, Zenon DEF Hops, Appended
    <2> QED  BY <1>2, <2>5, <2>6, Zenon DEF Hops
  <1>a. CASE Midnight \/ EnsureEventPartitionExists \/ PruneEventPartitionsBefore \/ UNCHANGED vars
    BY <1>1, <1>a, Zenon DEF Midnight, EnsureEventPartitionExists, PruneEventPartitionsBefore, vars, ghosts
  <1>b. CASE Publish
    <2>1. 0 \in Nat /\ 0 <= MaxHop + 1
      BY DispatchConstants DEF DispatchConstants
    <2> QED  BY <1>2, <1>b, <2>1, Zenon DEF Publish, ghosts
  <1>c. ASSUME NEW n \in NIDs, ChainAppends(n) PROVE Hops'
    <2> DEFINE h == log[n].hop
    <2>1. h \in Nat /\ h = log[n].depth /\ h <= MaxHop
      BY <1>c, EventType, Zenon DEF ChainAppends, Hops
    <2>2. h + 1 \in Nat /\ h + 1 <= MaxHop + 1
      BY <2>1, DispatchConstants DEF DispatchConstants
    <2>3. PICK type \in Types, hooked \in BOOLEAN : AppendEvent(type, h + 1, h + 1, hooked)
      BY <1>c, <2>1, Zenon DEF ChainAppends
    <2> HIDE DEF h
    <2> QED  BY <1>2, <1>c, <2>2, <2>3, Zenon DEF ChainAppends, ghosts
  <1>d. ASSUME NEW n \in NIDs, StrayAppends(n) PROVE Hops'
    BY <1>d, Zenon DEF StrayAppends, Hops
  <1>e. ASSUME NEW w \in Workers, RunChain(w) PROVE Hops'
    <2>1. job[w].ev \in Appended /\ log[job[w].ev].hop <= MaxHop /\ UNCHANGED <<log, strays>>
      BY <1>e, Zenon DEF RunChain, Shape
    <2>2. \A n \in NIDs, t \in Triggers : n # job[w].ev => ran'[n][t] = ran[n][t]
      BY <1>e, Zenon DEF RunChain, Count, DispatchTypeOK
    <2>3. \A n \in NIDs, t \in Triggers : ran'[n][t] > 0 => n \in Appended /\ log[n].hop <= MaxHop
      BY <2>1, <2>2, Zenon DEF Hops
    <2> QED  BY <2>1, <2>3, Zenon DEF Hops, Appended
  <1>f. ASSUME NEW w \in Workers,
               \/ BeginFiring(w) \/ ClaimFails(w) \/ Refuse(w) \/ ChainReturns(w) \/ ChainStrays(w)
               \/ FinishFiring(w) \/ FinishFails(w) \/ Crash(w)
        PROVE  UNCHANGED <<log, strays, ran>>
    BY <1>f, Zenon DEF BeginFiring, ClaimFails, Refuse, ChainReturns, ChainStrays, FinishFiring, FinishFails,
                       Crash, ghosts
  <1>g. ASSUME NEW n \in NIDs, GoroutineEnds(n) \/ \E t \in Triggers : ClaimGoesStale(n, t)
        PROVE  UNCHANGED <<log, strays, ran>>
    BY <1>g, Zenon DEF GoroutineEnds, ClaimGoesStale, ghosts
  <1>h. ASSUME NEW d \in Dispatchers, Start(d) \/ Loop(d) \/ Interrupt(d) PROVE UNCHANGED <<log, strays, ran>>
    BY <1>h, ZenonT(30) DEF Start, Loop, Interrupt, ListEventPartitions, ReadPartition, SortEvents, PickEvent,
                      SetCursor, Tick, Stop, ghosts
  <1> QED
    BY <1>1, <1>a, <1>b, <1>c, <1>d, <1>e, <1>f, <1>g, <1>h, ZenonT(30) DEF Next, Handle

(* While no chain suspends or starts what is not given the hop, the line   *)
(* of events that triggers cause is never longer than the hop budget and   *)
(* one event, whatever the number of triggers, dispatchers, crashes and    *)
(* units of kind chain that outlive the chains that started them           *)
(* (dispatcher.go handle, DualPublisher, chainSpawner).                    *)
THEOREM HopsBounded == Spec => []HopBudget
  <1> DEFINE I == DispatchTypeOK /\ Shape /\ StraysOK /\ (Loopless => Hops)
  <1>1. Init => I
    <2>1. Init => Hops
      <3>1. Init => strays = {} /\ Appended = {}
        BY DEF Init, Appended
      <3>2. Init => \A n \in NIDs, t \in Triggers : ~ (ran[n][t] > 0)
        BY DEF Init
      <3> QED  BY <3>1, <3>2, Zenon DEF Hops
    <2> QED  BY <2>1, InitIInv, Zenon DEF IInv
  <1>2. I /\ [Next]_vars => I'
    BY NextTypes, NextStrays, NextHops, Zenon
  <1>3. I => HopBudget
    BY Zenon DEF Hops, HopBudget, Loopless
  <1> HIDE DEF I
  <1> QED  BY <1>1, <1>2, <1>3, PTL DEF Spec
-----------------------------------------------------------------------------
(* What the cursor says.  While the log is in one table and every claim    *)
(* can be written, every event up to a cursor, the stored one or the one a *)
(* dispatcher keeps, has been claimed; a batch begins after the cursor and *)
(* leaves no event out; and of the event at hand, what handle() has been   *)
(* through is claimed.                                                     *)
Quiet == Unseen({"claim", "interrupt", "midnight"})

OneTable == today = 1 /\ parts \subseteq {1} /\ \A n \in Appended : log[n].day = 1

Claimed(n) == \A t \in Matching(log[n].type) : firing[n][t] # "none"

Through(c) == \A n \in Appended : n <= c => Claimed(n)

NoGap(c, b) == \A n \in b : c < n /\ \A m \in Appended : c < m /\ m < n => m \in b

HandleOK(d) ==
    /\ disp[d].batch # {} /\ job[d].ev = Least(disp[d].batch)
    /\ \A t \in Matching(log[job[d].ev].type) \ job[d].left : firing[job[d].ev][t] # "none"
    /\ job[d].pc \in Busy => firing[job[d].ev][Trig(d)] # "none"

LoopOK(d) ==
    /\ disp[d].ctx = "live"
    /\ disp[d].cursor <= Len(log) /\ Through(disp[d].cursor)
    /\ disp[d].pc = "read" /\ disp[d].parts # {} => disp[d].parts = {1} /\ disp[d].batch = {}
    /\ disp[d].pc \in {"read", "pick", "handle"} => NoGap(disp[d].cursor, disp[d].batch)
    /\ disp[d].pc = "handle" => HandleOK(d)

CursorInv ==
    /\ OneTable
    /\ dbCursor <= Len(log) /\ Through(dbCursor)
    /\ \A d \in Dispatchers : LoopOK(d)

(* Events stay, and no row goes back to none.                              *)
Grown ==
    /\ Len(log) <= Len(log') /\ \A n \in Appended : log'[n] = log[n]
    /\ \A n \in NIDs, t \in Triggers : firing[n][t] # "none" => firing'[n][t] # "none"

(* The first members of a finite set of numbers leave none out.            *)
LEMMA FirstNoGap ==
    ASSUME NEW S \in SUBSET Nat, IsFiniteSet(S), NEW k \in Nat, NEW n \in First(S, k), NEW m \in S, m < n
    PROVE  m \in First(S, k)
  <1> DEFINE A == {x \in S : x < m}
             B == {x \in S : x < n}
  <1>0. n \in Nat /\ m \in Nat
    BY FirstIn, Zenon
  <1>1. A \subseteq B
    <2> SUFFICES ASSUME NEW x \in S, x < m PROVE x < n
      BY Zenon
    <2> QED  BY <1>0
  <1>2. IsFiniteSet(B)
    BY FS_Subset, Zenon
  <1>3. IsFiniteSet(A) /\ Cardinality(A) <= Cardinality(B)
    BY <1>1, <1>2, FS_Subset, Zenon
  <1>4. Cardinality(A) \in Nat /\ Cardinality(B) \in Nat
    BY <1>2, <1>3, FS_CardinalityType, Zenon
  <1>5. Cardinality(B) < k
    BY Zenon DEF First
  <1> HIDE DEF A, B
  <1>6. Cardinality(A) < k
    BY <1>3, <1>4, <1>5
  <1> QED  BY <1>6, Zenon DEF First, A

LEMMA ClaimedGrows ==
    ASSUME DispatchTypeOK, Grown, NEW n \in Appended, Claimed(n)
    PROVE  Claimed(n)'
  <1>1. n \in NIDs /\ log'[n] = log[n]
    BY AppendedIn, Zenon DEF Grown
  <1>2. ASSUME NEW t \in Matching(log[n].type) PROVE firing'[n][t] # "none"
    BY <1>1, <1>2, Zenon DEF Claimed, Grown, Matching
  <1> QED  BY <1>1, <1>2, Zenon DEF Claimed, Matching

LEMMA ThroughGrows ==
    ASSUME DispatchTypeOK, DispatchTypeOK', Grown, NEW c \in Nat, c <= Len(log), Through(c)
    PROVE  c <= Len(log') /\ Through(c)'
  <1>0. Len(log) \in Nat /\ Len(log') \in Nat /\ Len(log) <= Len(log')
    BY DEF DispatchTypeOK, Grown
  <1>1. ASSUME NEW n \in Appended', n <= c PROVE Claimed(n)'
    <2>1. n \in Appended
      BY <1>0, <1>1 DEF Appended
    <2>2. Claimed(n)
      BY <1>1, <2>1, Zenon DEF Through
    <2> QED  BY <2>1, <2>2, ClaimedGrows, Zenon
  <1>2. c <= Len(log')
    BY <1>0
  <1> QED  BY <1>1, <1>2, Zenon DEF Through

LEMMA NoGapGrows ==
    ASSUME DispatchTypeOK, DispatchTypeOK', Grown, NEW c \in Nat, NEW b \in SUBSET Appended, NoGap(c, b)
    PROVE  NoGap(c, b)'
  <1>0. Len(log) \in Nat /\ Len(log') \in Nat
    BY DEF DispatchTypeOK
  <1>1. ASSUME NEW n \in b, NEW m \in Appended', c < m, m < n PROVE m \in b
    <2>1. m \in Appended
      BY <1>0, <1>1 DEF Appended
    <2> QED  BY <1>1, <2>1, Zenon DEF NoGap
  <1>2. \A n \in b : c < n
    BY Zenon DEF NoGap
  <1> QED  BY <1>1, <1>2, Zenon DEF NoGap

(* A step appends one event at most, and rows are only ever written to     *)
(* running, stale or settled.                                              *)
LEMMA StepGrows == DispatchTypeOK /\ Shape /\ [Next]_vars => Grown
  <1> SUFFICES ASSUME DispatchTypeOK, Shape, [Next]_vars PROVE Grown
    BY Zenon
  <1>0. Len(log) \in Nat
    BY DEF DispatchTypeOK
  <1>1. ASSUME NEW type, NEW hop, NEW depth, NEW hooked, AppendEvent(type, hop, depth, hooked), UNCHANGED firing
        PROVE  Grown
    <2>1. PICK e : log' = Append(log, e)
      BY <1>1, Zenon DEF AppendEvent
    <2>2. Len(log') = Len(log) + 1 /\ \A n \in 1 .. Len(log) : log'[n] = log[n]
      BY <2>1 DEF DispatchTypeOK
    <2>3. Len(log) <= Len(log')
      BY <1>0, <2>2
    <2> QED  BY <1>1, <2>2, <2>3, Zenon DEF Grown, Appended
  <1>2. ASSUME UNCHANGED <<log, firing>> PROVE Grown
    BY <1>0, <1>2 DEF Grown
  <1>3. ASSUME NEW w \in Workers, job[w].ev \in Appended, job[w].left # {}, NEW s \in Statuses \ {"none"},
               Record(w, s), UNCHANGED log
        PROVE  Grown
    <2>1. job[w].ev \in NIDs /\ Trig(w) \in Triggers
      BY <1>3, AppendedIn, TrigIn, Zenon
    <2>2. \A n \in NIDs, t \in Triggers : firing[n][t] # "none" => firing'[n][t] # "none"
      BY <1>3, <2>1, RecordAt
    <2>3. Len(log) <= Len(log')
      BY <1>0, <1>3
    <2> QED  BY <1>3, <2>2, <2>3, Zenon DEF Grown
  <1>a. CASE Midnight \/ EnsureEventPartitionExists \/ PruneEventPartitionsBefore \/ UNCHANGED vars
    BY <1>2, <1>a, Zenon DEF Midnight, EnsureEventPartitionExists, PruneEventPartitionsBefore, vars
  <1>b. CASE Publish
    BY <1>1, <1>b, Zenon DEF Publish
  <1>c. ASSUME NEW n \in NIDs, ChainAppends(n) PROVE Grown
    BY <1>1, <1>c, Zenon DEF ChainAppends
  <1>d. ASSUME NEW n \in NIDs, StrayAppends(n) \/ GoroutineEnds(n) PROVE Grown
    <2>1. CASE StrayAppends(n)
      BY <1>1, <2>1, Zenon DEF StrayAppends
    <2>2. CASE GoroutineEnds(n)
      BY <1>2, <2>2, Zenon DEF GoroutineEnds
    <2> QED  BY <1>d, <2>1, <2>2, Zenon
  <1>e. ASSUME NEW w \in Workers, BeginFiring(w) PROVE Grown
    <2>1. job[w].ev \in Appended /\ job[w].left # {} /\ UNCHANGED log
      BY <1>e, Zenon DEF BeginFiring, Claims, Shape
    <2>2. Record(w, "running") \/ UNCHANGED firing
      BY <1>e, Zenon DEF BeginFiring
    <2>3. "running" \in Statuses \ {"none"}
      BY Zenon DEF Statuses
    <2> QED  BY <1>2, <1>3, <2>1, <2>2, <2>3, Zenon
  <1>f. ASSUME NEW w \in Workers, FinishFiring(w) PROVE Grown
    <2>1. job[w].ev \in Appended /\ job[w].left # {} /\ UNCHANGED log
      BY <1>f, Zenon DEF FinishFiring, Shape, Busy
    <2>2. Record(w, job[w].outcome) /\ job[w].outcome \in Statuses \ {"none"}
      BY <1>f, Zenon DEF FinishFiring, DispatchTypeOK, Jobs, Settled, Statuses
    <2> QED  BY <1>3, <2>1, <2>2, Zenon
  <1>g. ASSUME NEW w \in Workers, ClaimFails(w) \/ Refuse(w) \/ RunChain(w) \/ ChainReturns(w)
                 \/ ChainStrays(w) \/ FinishFails(w) \/ Crash(w)
        PROVE  Grown
    BY <1>2, <1>g, Zenon DEF ClaimFails, Refuse, RunChain, ChainReturns, ChainStrays, FinishFails, Crash
  <1>h. ASSUME NEW e \in NIDs, NEW u \in Triggers, ClaimGoesStale(e, u) PROVE Grown
    <2>1. \A n \in NIDs, t \in Triggers : firing[n][t] # "none" => firing'[n][t] # "none"
      BY <1>h, Zenon DEF ClaimGoesStale, DispatchTypeOK
    <2>2. UNCHANGED log
      BY <1>h, Zenon DEF ClaimGoesStale
    <2>3. Len(log) <= Len(log')
      BY <1>0, <2>2
    <2> QED  BY <2>1, <2>2, <2>3, Zenon DEF Grown
  <1>i. ASSUME NEW d \in Dispatchers, Start(d) \/ Loop(d) \/ Interrupt(d) PROVE Grown
    BY <1>2, <1>i, Zenon DEF Start, Loop, Interrupt, ListEventPartitions, ReadPartition, SortEvents, PickEvent,
                      SetCursor, Tick, Stop
  <1> QED
    BY <1>a, <1>b, <1>c, <1>d, <1>e, <1>f, <1>g, <1>h, <1>i, Zenon DEF Next, Handle

(* The log stays in one table.                                             *)
LEMMA OneTableKept ==
    ASSUME DispatchTypeOK, OneTable, [Next]_vars, Quiet'
    PROVE  OneTable'
  <1>0. ~ Fault("midnight")
    BY FaultSeen, Zenon DEF Quiet, Unseen
  <1>1. ASSUME NEW type, NEW hop, NEW depth, NEW hooked, AppendEvent(type, hop, depth, hooked),
               UNCHANGED <<today, parts>>
        PROVE  OneTable'
    <2>1. PICK day \in parts : log' = Append(log, [type |-> type, day |-> day, hop |-> hop, depth |-> depth])
      BY <1>1, Zenon DEF AppendEvent
    <2>2. day = 1
      BY <2>1, Zenon DEF OneTable
    <2>3. \A n \in 1 .. Len(log') : log'[n].day = 1
      BY <2>1, <2>2 DEF OneTable, Appended, DispatchTypeOK
    <2> QED  BY <1>1, <2>3, Zenon DEF OneTable, Appended
  <1>2. UNCHANGED <<today, parts, log>> => OneTable'
    BY Zenon DEF OneTable, Appended
  <1>a. CASE Midnight
    BY <1>0, <1>a, Zenon DEF Midnight
  <1>b. CASE EnsureEventPartitionExists
    BY <1>b, Zenon DEF EnsureEventPartitionExists, OneTable, Appended
  <1>c. CASE PruneEventPartitionsBefore
    <2>1. PICK p \in parts : p < today
      BY <1>c, Zenon DEF PruneEventPartitionsBefore
    <2>2. p = 1 /\ today = 1
      BY <2>1, Zenon DEF OneTable
    <2> QED  BY <2>1, <2>2
  <1>d. CASE Publish
    BY <1>1, <1>d, Zenon DEF Publish
  <1>e. ASSUME NEW n \in NIDs, ChainAppends(n) PROVE OneTable'
    BY <1>1, <1>e, Zenon DEF ChainAppends
  <1>f. ASSUME NEW n \in NIDs, StrayAppends(n) PROVE OneTable'
    BY <1>1, <1>f, Zenon DEF StrayAppends
  <1>g. ASSUME NEW w \in Workers, Handle(w) \/ ChainStrays(w) \/ ClaimFails(w) \/ FinishFails(w) \/ Crash(w)
        PROVE  UNCHANGED <<today, parts, log>>
    BY <1>g, Zenon DEF Handle, BeginFiring, ClaimFails, Refuse, RunChain, ChainReturns, ChainStrays, FinishFiring,
                       FinishFails, Crash
  <1>h. ASSUME NEW d \in Dispatchers, Start(d) \/ Loop(d) \/ Interrupt(d) PROVE UNCHANGED <<today, parts, log>>
    BY <1>h, Zenon DEF Start, Loop, Interrupt, ListEventPartitions, ReadPartition, SortEvents, PickEvent,
                SetCursor, Tick, Stop
  <1>i. ASSUME NEW n \in NIDs, NEW t \in Triggers, ClaimGoesStale(n, t) PROVE UNCHANGED <<today, parts, log>>
    BY <1>i, Zenon DEF ClaimGoesStale
  <1>j. ASSUME NEW n \in NIDs, GoroutineEnds(n) PROVE UNCHANGED <<today, parts, log>>
    BY <1>j, Zenon DEF GoroutineEnds
  <1>k. UNCHANGED vars => OneTable'
    BY <1>2, Zenon DEF vars
  <1> QED
    BY <1>2, <1>a, <1>b, <1>c, <1>d, <1>e, <1>f, <1>g, <1>h, <1>i, <1>j, <1>k, Zenon DEF Next

(* A dispatcher that a step leaves alone.                                  *)
LEMMA LoopStays ==
    ASSUME DispatchTypeOK, DispatchTypeOK', Shape, Grown, NEW d \in Dispatchers, LoopOK(d),
           disp'[d] = disp[d], job'[d] = job[d]
    PROVE  LoopOK(d)'
  <1>0. d \in Workers /\ disp[d].cursor \in Nat /\ disp[d].batch \in SUBSET Appended
    BY LoopFields, Zenon DEF Workers, Shape
  <1>1. disp[d].cursor <= Len(log') /\ Through(disp[d].cursor)'
    BY <1>0, ThroughGrows, Zenon DEF LoopOK
  <1>2. disp[d].pc \in {"read", "pick", "handle"} => NoGap(disp[d].cursor, disp[d].batch)'
    BY <1>0, NoGapGrows, ZenonT(30) DEF LoopOK
  <1>3. ASSUME disp[d].pc = "handle" PROVE HandleOK(d)'
    <2> DEFINE e == job[d].ev
    <2>0. HandleOK(d) /\ e \in Appended /\ e \in NIDs
      BY <1>0, <1>3, AppendedIn, Zenon DEF LoopOK, Shape
    <2>1. log'[e] = log[e]
      BY <2>0, Zenon DEF Grown
    <2>2. \A t \in Matching(log[e].type) \ job[d].left : firing'[e][t] # "none"
      BY <2>0, Zenon DEF HandleOK, Grown, Matching
    <2>3. ASSUME job[d].pc \in Busy PROVE firing'[e][Trig(d)] # "none"
      <3>1. Trig(d) \in Triggers
        BY <1>0, <2>3, TrigIn, ZenonT(30) DEF Shape
      <3> QED  BY <2>0, <2>3, <3>1, ZenonT(30) DEF HandleOK, Grown
    <2>4. disp[d].batch # {} /\ e = Least(disp[d].batch)
      BY <2>0, ZenonT(30) DEF HandleOK
    <2>5. Trig(d)' = Trig(d)
      BY Zenon DEF Trig
    <2>6. Matching(log[job[d].ev].type)' = Matching(log[e].type)
      BY <2>1, Zenon DEF Matching
    <2> QED  BY <2>2, <2>3, <2>4, <2>5, <2>6, ZenonT(30) DEF HandleOK
  <1> HIDE DEF HandleOK, Through, NoGap
  <1>4. disp[d].ctx = "live" /\ (disp[d].pc = "read" /\ disp[d].parts # {} => disp[d].parts = {1} /\ disp[d].batch = {})
    BY Zenon DEF LoopOK
  <1> QED  BY <1>1, <1>2, <1>3, <1>4, ZenonT(30) DEF LoopOK

(* A step of handle(): what it passes is claimed, and while it is busy, so *)
(* is the trigger it is at.                                                *)
LEMMA LoopHandles ==
    ASSUME DispatchTypeOK, DispatchTypeOK', Shape, Grown, NEW d \in Dispatchers, LoopOK(d),
           disp[d].pc = "handle", UNCHANGED <<disp, log>>, job'[d].ev = job[d].ev,
           \A t \in Triggers : t \in job[d].left \ job'[d].left => firing'[job[d].ev][t] # "none",
           job'[d].pc \in Busy => firing'[job[d].ev][Trig(d)'] # "none"
    PROVE  LoopOK(d)'
  <1>0. d \in Workers /\ disp[d].cursor \in Nat /\ disp[d].batch \in SUBSET Appended
    BY LoopFields, Zenon DEF Workers, Shape
  <1>1. disp[d].cursor <= Len(log') /\ Through(disp[d].cursor)'
    BY <1>0, ThroughGrows, Zenon DEF LoopOK
  <1>2. NoGap(disp[d].cursor, disp[d].batch)'
    BY <1>0, NoGapGrows, Zenon DEF LoopOK
  <1>3. HandleOK(d)'
    <2> DEFINE e == job[d].ev
    <2>0. HandleOK(d) /\ e \in Appended /\ e \in NIDs
      BY <1>0, AppendedIn, Zenon DEF LoopOK, Shape
    <2>1. ASSUME NEW t \in Matching(log[e].type) \ job'[d].left PROVE firing'[e][t] # "none"
      <3>1. t \in Triggers
        BY <2>1, Zenon DEF Matching
      <3>2. CASE t \in job[d].left
        BY <2>1, <3>1, <3>2, Zenon
      <3>3. CASE t \notin job[d].left
        <4>1. firing[e][t] # "none"
          BY <2>0, <2>1, <3>3, ZenonT(30) DEF HandleOK
        <4> QED  BY <2>0, <3>1, <4>1, Zenon DEF Grown
      <3> QED  BY <3>2, <3>3, Zenon
    <2>4. disp[d].batch # {} /\ e = Least(disp[d].batch)
      BY <2>0, Zenon DEF HandleOK
    <2>6. Matching(log[job[d].ev].type)' = Matching(log[e].type)
      BY Zenon DEF Matching
    <2> QED  BY <2>1, <2>4, <2>6, ZenonT(30) DEF HandleOK
  <1>4. disp[d].ctx = "live"
    BY Zenon DEF LoopOK
  <1> QED  BY <1>1, <1>2, <1>3, <1>4, ZenonT(30) DEF LoopOK

(* A dispatcher between two batches: only its cursor matters.              *)
LEMMA LoopRests ==
    ASSUME DispatchTypeOK, DispatchTypeOK', Grown, NEW d \in Dispatchers, disp'[d].ctx = "live",
           disp'[d].pc \notin {"read", "pick", "handle"},
           disp'[d].cursor \in Nat, disp'[d].cursor <= Len(log), Through(disp'[d].cursor)
    PROVE  LoopOK(d)'
  BY ThroughGrows, Zenon DEF LoopOK

(* handle(), by the dispatcher or by a goroutine.                          *)
LEMMA HandleLoops ==
    ASSUME DispatchTypeOK, DispatchTypeOK', Shape, Grown, Quiet', NEW w \in Workers,
           \A d \in Dispatchers : LoopOK(d),
           \/ BeginFiring(w) \/ ClaimFails(w) \/ Refuse(w) \/ RunChain(w) \/ ChainReturns(w)
           \/ FinishFiring(w) \/ FinishFails(w) \/ Crash(w)
    PROVE  \A d \in Dispatchers : LoopOK(d)'
  <1> SUFFICES ASSUME NEW d \in Dispatchers PROVE LoopOK(d)'
    BY Zenon
  <1>0. d \in Workers /\ LoopOK(d) /\ disp[d].ctx = "live" /\ ~ Fault("claim")
    BY FaultSeen, Zenon DEF Workers, LoopOK, Quiet, Unseen
  <1>1. CASE w # d
    <2>1. job'[d] = job[d]
      BY <1>0, <1>1, Zenon DEF DispatchTypeOK, BeginFiring, NextTrigger, ClaimFails, Refuse, Ends, RunChain, ChainReturns,
             FinishFiring, FinishFails, Crash
    <2>2. disp'[d] = disp[d]
      BY <1>1, Zenon DEF DispatchTypeOK, BeginFiring, ClaimFails, Refuse, RunChain, ChainReturns, FinishFiring, FinishFails, Crash
    <2> QED  BY <1>0, <2>1, <2>2, LoopStays, Zenon
  <1>2. CASE w = d /\ Crash(w)
    <2>1. disp'[d] = Off
      BY <1>0, <1>2, Zenon DEF Crash, DispatchTypeOK
    <2>2. Off.ctx = "live" /\ Off.pc = "off" /\ Off.cursor = 0
      BY Zenon DEF Off
    <2>3. 0 \in Nat /\ 0 <= Len(log) /\ Through(0)
      BY DEF Through, Appended, DispatchTypeOK
    <2> QED  BY <2>1, <2>2, <2>3, LoopRests, Zenon
  <1>3. CASE w = d /\ ~ Crash(w)
    <2> DEFINE e == job[d].ev
               u == Trig(d)
    <2>0. /\ job[d].pc # "idle" /\ job[d].left # {} /\ UNCHANGED <<disp, log>>
      BY <1>0, <1>3, Zenon DEF BeginFiring, Claims, ClaimFails, Refuse, RunChain, ChainReturns, FinishFiring, FinishFails,
                        Shape, Busy
    <2>1. disp[d].pc = "handle" /\ e \in NIDs /\ u \in Triggers
      BY <1>0, <2>0, AppendedIn, TrigIn, ZenonT(30) DEF Shape
    <2>2. job[d].pc \in Busy => firing[e][u] # "none"
      BY <1>0, <2>1, ZenonT(30) DEF LoopOK, HandleOK
    <2>a. ASSUME NextTrigger(d), firing'[e][u] # "none" PROVE LoopOK(d)'
      <3>1. job'[d].pc = "claim" /\ job'[d].ev = e /\ job'[d].left = job[d].left \ {u}
        BY <1>0, <2>a, Zenon DEF NextTrigger, DispatchTypeOK, Jobs
      <3>2. \A t \in Triggers : t \in job[d].left \ job'[d].left => firing'[e][t] # "none"
        BY <2>a, <3>1, ZenonT(30)
      <3>3. job'[d].pc \notin Busy
        BY <3>1, Zenon DEF Busy
      <3> HIDE DEF u
      <3> QED  BY <1>0, <2>0, <2>1, <3>1, <3>2, <3>3, LoopHandles, Zenon
    <2>b. ASSUME job'[d].ev = e, job'[d].left = job[d].left, firing'[e][u] # "none" PROVE LoopOK(d)'
      <3>1. Trig(d)' = u
        BY <2>b, Zenon DEF Trig
      <3>2. \A t \in Triggers : t \in job[d].left \ job'[d].left => firing'[e][t] # "none"
        BY <2>b, Zenon
      <3> QED  BY <1>0, <2>0, <2>1, <2>b, <3>1, <3>2, LoopHandles, ZenonT(30)
    <2>3. CASE BeginFiring(d)
      <3>1. CASE Status(d) \in {"none", "stale"}
        <4>1. Record(d, "running") /\ job' = [job EXCEPT ![d].pc = "run"]
          BY <2>3, <3>1, Zenon DEF BeginFiring
        <4>2. firing'[e][u] = "running"
          BY <1>0, <2>1, <4>1, RecordAt, Zenon
        <4>3. job'[d].ev = e /\ job'[d].left = job[d].left
          BY <1>0, <4>1, Zenon DEF DispatchTypeOK, Jobs
        <4> QED  BY <2>b, <4>2, <4>3, Zenon
      <3>2. CASE Status(d) \notin {"none", "stale"}
        <4>1. NextTrigger(d) /\ UNCHANGED firing
          BY <2>3, <3>2, Zenon DEF BeginFiring
        <4>2. firing'[e][u] # "none"
          BY <3>2, <4>1, Zenon DEF Status
        <4> QED  BY <2>a, <4>1, <4>2, Zenon
      <3> QED  BY <3>1, <3>2, Zenon
    <2>4. CASE ClaimFails(d)
      BY <1>0, <2>4, ZenonT(30) DEF ClaimFails, Cancelled
    <2>5. CASE Refuse(d) \/ RunChain(d) \/ ChainReturns(d)
      <3>1. job'[d].ev = e /\ job'[d].left = job[d].left /\ UNCHANGED firing
        BY <1>0, <2>5 DEF Refuse, RunChain, ChainReturns, Ends, DispatchTypeOK, Jobs
      <3>2. job[d].pc \in Busy
        BY <2>5, Zenon DEF Refuse, RunChain, ChainReturns, Busy
      <3>3. firing'[e][u] # "none"
        BY <2>2, <3>1, <3>2, ZenonT(30)
      <3> HIDE DEF u
      <3> QED  BY <2>b, <3>1, <3>3, Zenon
    <2>6. CASE FinishFiring(d)
      <3>1. Record(d, job[d].outcome) /\ NextTrigger(d)
        BY <2>6, ZenonT(30) DEF FinishFiring
      <3>2. firing'[e][u] = job[d].outcome
        BY <1>0, <2>1, <3>1, RecordAt, ZenonT(30)
      <3>3. job[d].outcome # "none"
        BY <1>0, ZenonT(30) DEF DispatchTypeOK, Jobs, Settled
      <3> QED  BY <2>a, <3>1, <3>2, <3>3, ZenonT(30)
    <2>7. CASE FinishFails(d)
      <3>1. NextTrigger(d) /\ UNCHANGED firing /\ job[d].pc \in Busy
        BY <2>7, ZenonT(30) DEF FinishFails, Busy
      <3>2. firing'[e][u] # "none"
        BY <2>2, <3>1, Zenon
      <3> QED  BY <2>a, <3>1, <3>2, Zenon
    <2> QED  BY <1>3, <2>3, <2>4, <2>5, <2>6, <2>7, Zenon
  <1> QED  BY <1>1, <1>2, <1>3, Zenon

(* When handle() has been through its event, the cursor may move to it: it *)
(* is the first of a batch that begins after the cursor.                   *)
LEMMA SettledThrough ==
    ASSUME DispatchTypeOK, Shape, NEW d \in Dispatchers, LoopOK(d), SetCursor(d)
    PROVE  LET n == job[d].ev IN
           /\ n \in Appended /\ n \in Nat /\ n <= Len(log) /\ Through(n)
           /\ NoGap(disp[d].cursor, disp[d].batch) /\ n \in disp[d].batch /\ disp[d].cursor < n
           /\ \A k \in disp[d].batch : n <= k
  <1> DEFINE n == job[d].ev
             c == disp[d].cursor
             b == disp[d].batch
  <1>0. /\ Len(log) \in Nat /\ c \in Nat /\ b \in SUBSET Appended /\ Appended \subseteq Nat
    BY DispatchConstants DEF DispatchTypeOK, Loops, Shape, DispatchConstants, Appended
  <1>1. HandleOK(d) /\ NoGap(c, b) /\ Through(c) /\ job[d].left = {}
    BY Zenon DEF SetCursor, LoopOK
  <1>2. b # {} /\ n = Least(b) /\ b \in SUBSET Nat
    BY <1>0, <1>1, ZenonT(30) DEF HandleOK
  <1>3. n \in b /\ \A k \in b : n <= k
    BY <1>2, LeastIn, Zenon
  <1>4. n \in Appended /\ n \in Nat /\ n <= Len(log)
    BY <1>0, <1>3 DEF Appended
  <1>5. c < n
    BY <1>1, <1>3, Zenon DEF NoGap
  <1>6. Claimed(n)
    BY <1>1, Zenon DEF HandleOK, Claimed
  <1>7. ASSUME NEW m \in Appended, m <= n PROVE Claimed(m)
    <2>1. CASE m = n
      BY <1>6, <2>1, Zenon
    <2>2. CASE m <= c
      BY <1>1, <2>2, Zenon DEF Through
    <2>3. CASE m # n /\ ~ (m <= c)
      <3>1. c < m /\ m < n
        BY <1>0, <1>4, <1>7, <2>3
      <3>2. m \in b
        BY <1>1, <1>3, <3>1, Zenon DEF NoGap
      <3>3. n <= m
        BY <1>3, <3>2, Zenon
      <3> QED  BY <1>0, <1>4, <3>1, <3>3
    <2> QED  BY <2>1, <2>2, <2>3, Zenon
  <1>8. Through(n)
    BY <1>7, Zenon DEF Through
  <1> QED  BY <1>1, <1>3, <1>4, <1>5, <1>8, ZenonT(30)

(* A dispatcher with a batch it has not begun, or with none.               *)
LEMMA LoopTurns ==
    ASSUME DispatchTypeOK, DispatchTypeOK', Grown, NEW d \in Dispatchers,
           NEW c \in Nat, NEW b \in SUBSET Appended, c <= Len(log), Through(c), NoGap(c, b),
           disp'[d].ctx = "live", disp'[d].cursor = c, disp'[d].batch = b, disp'[d].pc # "handle",
           disp'[d].pc = "read" /\ disp'[d].parts # {} => disp'[d].parts = {1} /\ b = {}
    PROVE  LoopOK(d)'
  <1>1. c <= Len(log') /\ Through(c)'
    BY ThroughGrows, Zenon
  <1>2. NoGap(c, b)'
    BY NoGapGrows, Zenon
  <1> QED  BY <1>1, <1>2, Zenon DEF LoopOK

(* The dispatcher's own steps.                                             *)
LEMMA LoopLoops ==
    ASSUME DispatchTypeOK, DispatchTypeOK', Shape, Shape', Grown, Quiet', CursorInv,
           NEW w \in Dispatchers, Start(w) \/ Loop(w) \/ Interrupt(w)
    PROVE  \A d \in Dispatchers : LoopOK(d)'
  <1> SUFFICES ASSUME NEW d \in Dispatchers PROVE LoopOK(d)'
    OBVIOUS
  <1>0. d \in Workers /\ w \in Workers /\ LoopOK(d) /\ disp[d].ctx = "live" /\ ~ Fault("interrupt")
    BY FaultSeen, ZenonT(30) DEF Workers, LoopOK, Quiet, Unseen, CursorInv
  <1>1. /\ Len(log) \in Nat /\ disp[d].cursor \in Nat /\ dbCursor \in Nat /\ disp[d] \in Loops
        /\ disp[d].batch \in SUBSET Appended /\ Appended \subseteq Nat
    <2>1. Len(log) \in Nat /\ dbCursor \in Nat /\ Appended \subseteq Nat
      BY TableFields, Zenon
    <2> QED
      BY <2>1, LoopFields, Zenon DEF Shape
  <1>2. disp[d].cursor <= Len(log) /\ Through(disp[d].cursor)
    BY <1>0, Zenon DEF LoopOK
  <1>3. CASE w # d
    <2>1. job'[d] = job[d]
      BY <1>0, <1>3, ZenonT(30) DEF DispatchTypeOK, Start, Loop, Interrupt, ListEventPartitions, ReadPartition, SortEvents,
             PickEvent, SetCursor, Tick, Stop
    <2>2. disp'[d] = disp[d]
      BY <1>0, <1>3, ZenonT(30) DEF DispatchTypeOK, Start, Loop, Interrupt, ListEventPartitions, ReadPartition, SortEvents,
             PickEvent, SetCursor, Tick, Stop
    <2> QED  BY <1>0, <2>1, <2>2, LoopStays, ZenonT(30)
  <1>a. ASSUME UNCHANGED <<log, job>>, disp'[d].ctx = "live", disp'[d].cursor = disp[d].cursor,
               disp'[d].pc \in {"read", "pick"},
               disp'[d].pc = "read" /\ disp'[d].parts # {} => disp'[d].parts = {1} /\ disp'[d].batch = {},
               NoGap(disp[d].cursor, disp'[d].batch)
        PROVE  LoopOK(d)'
    <2>1. disp'[d].batch \in SUBSET Appended
      BY <1>a, Zenon DEF Shape, Appended
    <2> QED  BY <1>1, <1>2, <1>a, <2>1, LoopTurns, Zenon
  <1>b. ASSUME disp'[d].ctx = "live", disp'[d].pc \notin {"read", "pick", "handle"},
               disp'[d].cursor = disp[d].cursor
        PROVE  LoopOK(d)'
    BY <1>1, <1>2, <1>b, LoopRests, Zenon
  <1>4. CASE w = d /\ Start(d)
    <2>1. disp'[d].ctx = "live" /\ disp'[d].pc = "list" /\ disp'[d].cursor = dbCursor
      BY <1>4, Zenon DEF Start, Off, DispatchTypeOK
    <2>2. dbCursor <= Len(log) /\ Through(dbCursor)
      BY Zenon DEF CursorInv
    <2> QED  BY <1>1, <2>1, <2>2, LoopRests, Zenon
  <1>5. CASE w = d /\ ListEventPartitions(d)
    <2>1. /\ disp'[d].ctx = "live" /\ disp'[d].pc = "read" /\ disp'[d].cursor = disp[d].cursor
          /\ disp'[d].parts = parts /\ disp'[d].batch = {} /\ UNCHANGED <<log, job>>
      BY <1>0, <1>1, <1>5, Zenon DEF ListEventPartitions, DispatchTypeOK, Loops
    <2>2. parts # {} => parts = {1}
      BY Zenon DEF CursorInv, OneTable
    <2>3. NoGap(disp[d].cursor, {})
      BY Zenon DEF NoGap
    <2> QED  BY <1>a, <2>1, <2>2, <2>3, Zenon
  <1>6. CASE w = d /\ ReadPartition(d)
    <2> DEFINE rows == {n \in Appended : log[n].day = 1 /\ n > disp[d].cursor}
    <2>0. /\ disp[d].pc = "read" /\ disp[d].parts = {1} /\ disp[d].batch = {} /\ UNCHANGED <<log, job>>
      BY <1>0, <1>6, Zenon DEF ReadPartition, LoopOK
    <2>1. Least(disp[d].parts) = 1
      <3>1. {1} \in SUBSET Nat /\ {1} # {}
        OBVIOUS
      <3>2. Least({1}) \in {1}
        BY <3>1, LeastIn, Zenon
      <3> QED  BY <2>0, <3>2, Zenon
    <2>2. \/ disp' = [disp EXCEPT ![d].parts = @ \ {1}, ![d].batch = @ \cup First(rows, Batch)]
          \/ disp' = [disp EXCEPT ![d] = [@ EXCEPT !.pc = "wait", !.parts = {}, !.batch = {}]]
      BY <1>6, <2>1, Zenon DEF ReadPartition
    <2>3. CASE disp' = [disp EXCEPT ![d] = [@ EXCEPT !.pc = "wait", !.parts = {}, !.batch = {}]]
      <3>1. disp'[d].ctx = "live" /\ disp'[d].pc = "wait" /\ disp'[d].cursor = disp[d].cursor
        BY <1>0, <1>1, <2>3, Zenon DEF DispatchTypeOK, Loops
      <3> QED  BY <1>b, <3>1, Zenon
    <2>4. CASE disp' = [disp EXCEPT ![d].parts = @ \ {1}, ![d].batch = @ \cup First(rows, Batch)]
      <3>1. /\ disp'[d].ctx = "live" /\ disp'[d].pc = "read" /\ disp'[d].cursor = disp[d].cursor
            /\ disp'[d].parts = disp[d].parts \ {1}
            /\ disp'[d].batch = disp[d].batch \cup First(rows, Batch)
        <4> DEFINE F == First(rows, Batch)
        <4> HIDE DEF F
        <4>1. disp' = [disp EXCEPT ![d].parts = @ \ {1}, ![d].batch = @ \cup F]
          BY <2>4, Zenon DEF F
        <4>2. /\ disp'[d].ctx = "live" /\ disp'[d].pc = "read" /\ disp'[d].cursor = disp[d].cursor
              /\ disp'[d].parts = disp[d].parts \ {1} /\ disp'[d].batch = disp[d].batch \cup F
          BY <1>0, <1>1, <2>0, <4>1, Zenon DEF DispatchTypeOK, Loops
        <4> QED  BY <4>2, Zenon DEF F
      <3>2. disp'[d].parts = {} /\ disp'[d].batch = First(rows, Batch)
        BY <2>0, <3>1, Zenon
      <3>3. rows = {n \in Appended : n > disp[d].cursor}
        BY Zenon DEF CursorInv, OneTable
      <3>4. IsFiniteSet(Appended)
        BY <1>1, FS_Interval DEF Appended
      <3>5. IsFiniteSet(rows) /\ rows \in SUBSET Nat /\ Batch \in Nat
        BY <1>1, <3>4, FS_Subset, DispatchConstants, ZenonT(30) DEF DispatchConstants
      <3>6. NoGap(disp[d].cursor, First(rows, Batch))
        <4> SUFFICES ASSUME NEW n \in First(rows, Batch)
                     PROVE  /\ disp[d].cursor < n
                            /\ \A m \in Appended : disp[d].cursor < m /\ m < n => m \in First(rows, Batch)
          BY Zenon DEF NoGap
        <4>1. n \in rows
          BY FirstIn, Zenon
        <4>2. disp[d].cursor < n
          BY <1>1, <3>3, <4>1, Zenon
        <4>3. ASSUME NEW m \in Appended, disp[d].cursor < m, m < n PROVE m \in First(rows, Batch)
          <5>1. m \in rows
            BY <1>1, <3>3, <4>3, Zenon
          <5> HIDE DEF rows
          <5> QED  BY <3>5, <4>3, <5>1, FirstNoGap, Zenon
        <4> QED  BY <4>2, <4>3, Zenon
      <3> HIDE DEF rows
      <3> QED  BY <1>a, <2>0, <3>1, <3>2, <3>6, Zenon
    <2> QED  BY <2>2, <2>3, <2>4, Zenon
  <1>7. CASE w = d /\ SortEvents(d)
    <2> DEFINE batch == First(disp[d].batch, Batch)
    <2>0. disp[d].pc = "read" /\ disp[d].parts = {} /\ UNCHANGED <<log, job>>
      BY <1>7, ZenonT(30) DEF SortEvents
    <2>1. /\ disp'[d].ctx = "live" /\ disp'[d].cursor = disp[d].cursor /\ disp'[d].batch = batch
          /\ disp'[d].pc = IF batch = {} THEN "wait" ELSE "pick"
      <3>1. disp' = [disp EXCEPT ![d].pc = IF batch = {} THEN "wait" ELSE "pick",
                                 ![d].batch = batch, ![d].full = (Cardinality(batch) = Batch)]
        BY <1>7, ZenonT(30) DEF SortEvents
      <3> HIDE DEF batch
      <3> QED  BY <1>0, <1>1, <3>1, ZenonT(30) DEF DispatchTypeOK, Loops
    <2>2. disp'[d].pc = "wait" => LoopOK(d)'
      BY <1>b, <2>1, Zenon
    <2>3. IsFiniteSet(disp[d].batch) /\ disp[d].batch \in SUBSET Nat /\ Batch \in Nat
      <3>1. IsFiniteSet(Appended)
        BY <1>1, FS_Interval DEF Appended
      <3> QED  BY <1>1, <3>1, FS_Subset, DispatchConstants, ZenonT(30) DEF DispatchConstants
    <2>4. NoGap(disp[d].cursor, disp[d].batch)
      BY <1>0, <2>0, Zenon DEF LoopOK
    <2>5. NoGap(disp[d].cursor, batch)
      <3> SUFFICES ASSUME NEW n \in batch
                   PROVE  disp[d].cursor < n /\ \A m \in Appended : disp[d].cursor < m /\ m < n => m \in batch
        BY Zenon DEF NoGap
      <3>1. n \in disp[d].batch
        BY FirstIn, Zenon
      <3>2. disp[d].cursor < n /\ \A m \in Appended : disp[d].cursor < m /\ m < n => m \in disp[d].batch
        BY <2>4, <3>1, Zenon DEF NoGap
      <3>3. ASSUME NEW m \in Appended, disp[d].cursor < m, m < n PROVE m \in batch
        <4>1. m \in disp[d].batch
          BY <3>2, <3>3, Zenon
        <4> QED  BY <2>3, <3>3, <4>1, FirstNoGap, Zenon
      <3> QED  BY <3>2, <3>3, Zenon
    <2> HIDE DEF batch
    <2>6. disp'[d].pc = "pick" => LoopOK(d)'
      BY <1>a, <2>0, <2>1, <2>5, Zenon
    <2> QED  BY <2>1, <2>2, <2>6, Zenon
  <1>8. CASE w = d /\ PickEvent(d)
    <2> DEFINE n == Least(disp[d].batch)
    <2>0. disp[d].pc = "pick" /\ UNCHANGED <<log, firing>> /\ disp[d].batch # {}
      BY <1>8, Zenon DEF PickEvent, Shape
    <2>1. disp'[d].ctx = "live" /\ disp'[d].cursor = disp[d].cursor /\ disp'[d].batch = disp[d].batch
          /\ disp'[d].pc = "handle"
      BY <1>0, <1>1, <1>8, Zenon DEF PickEvent, DispatchTypeOK, Loops
    <2>2. job' = [job EXCEPT ![d] = NewJob(n, log[n].type)]
      BY <1>8, Zenon DEF PickEvent
    <2>3. job'[d].pc = "claim" /\ job'[d].ev = n /\ job'[d].left = Matching(log[n].type)
      <3> HIDE DEF n
      <3> QED  BY <1>0, <2>2, Zenon DEF NewJob, DispatchTypeOK
    <2>4. Matching(log[job[d].ev].type)' = job'[d].left
      BY <2>0, <2>3, ZenonT(30) DEF Matching
    <2>5. HandleOK(d)'
      <3>1. job'[d].pc \notin Busy
        BY <2>3, Zenon DEF Busy
      <3> QED  BY <2>0, <2>1, <2>3, <2>4, <3>1, ZenonT(30) DEF HandleOK
    <2>6. disp[d].cursor <= Len(log') /\ Through(disp[d].cursor)'
      BY <1>1, <1>2, <2>1, ThroughGrows, Zenon
    <2>7. NoGap(disp[d].cursor, disp[d].batch)'
      BY <1>0, <1>1, <2>0, <2>1, NoGapGrows, ZenonT(30) DEF LoopOK
    <2> HIDE DEF n
    <2> QED  BY <2>1, <2>5, <2>6, <2>7, ZenonT(30) DEF LoopOK
  <1>9. CASE w = d /\ SetCursor(d)
    <2> DEFINE n == job[d].ev
               rest == disp[d].batch \ {n}
    <2>0. disp[d].pc = "handle" /\ UNCHANGED <<log, firing>>
      BY <1>9, Zenon DEF SetCursor
    <2>1. /\ disp'[d].ctx = "live" /\ disp'[d].cursor = n /\ disp'[d].batch = rest
          /\ disp'[d].pc \in {"pick", "list", "wait"}
      <3>1. PICK pc \in {"pick", "list", "wait"} :
              disp' = [disp EXCEPT ![d].cursor = n, ![d].batch = rest, ![d].pc = pc]
        BY <1>9, ZenonT(30) DEF SetCursor
      <3> HIDE DEF n, rest
      <3> QED  BY <1>0, <1>1, <3>1, Zenon DEF DispatchTypeOK, Loops
    <2>2. n \in Appended /\ n \in Nat /\ n <= Len(log) /\ Through(n)
      BY <1>9, SettledThrough, Zenon DEF CursorInv
    <2>3. NoGap(disp[d].cursor, disp[d].batch) /\ n \in disp[d].batch
      BY <1>9, SettledThrough, Zenon DEF CursorInv
    <2>5. NoGap(n, rest)
      <3>1. disp[d].cursor < n /\ \A k \in disp[d].batch : n <= k
        BY <1>9, SettledThrough, Zenon DEF CursorInv
      <3>2. ASSUME NEW k \in rest PROVE n < k /\ \A m \in Appended : n < m /\ m < k => m \in rest
        <4>1. k \in disp[d].batch /\ k # n /\ k \in Nat
          BY <1>1, ZenonT(30)
        <4>2. n < k
          BY <2>2, <3>1, <4>1
        <4>3. ASSUME NEW m \in Appended, n < m, m < k PROVE m \in rest
          <5>1. disp[d].cursor < m /\ m # n
            BY <1>1, <2>2, <3>1, <4>3
          <5>2. m \in disp[d].batch
            BY <2>3, <4>1, <4>3, <5>1, Zenon DEF NoGap
          <5> QED  BY <5>1, <5>2, Zenon
        <4> QED  BY <4>2, <4>3, Zenon
      <3> QED  BY <3>2, Zenon DEF NoGap
    <2>6. rest \in SUBSET Appended
      BY <1>1, Zenon
    <2> HIDE DEF n, rest
    <2> QED  BY <2>1, <2>2, <2>5, <2>6, LoopTurns, Zenon
  <1>10. CASE w = d /\ Tick(d)
    <2>1. disp'[d].ctx = "live" /\ disp'[d].pc = "list" /\ disp'[d].cursor = disp[d].cursor
      BY <1>0, <1>1, <1>10, Zenon DEF Tick, DispatchTypeOK, Loops
    <2> QED  BY <1>b, <2>1, Zenon
  <1>11. CASE w = d /\ (Stop(d) \/ Interrupt(d))
    BY <1>0, <1>11, Zenon DEF Stop, Interrupt
  <1> QED
    BY <1>3, <1>4, <1>5, <1>6, <1>7, <1>8, <1>9, <1>10, <1>11, Zenon DEF Loop

(* The stored cursor is moved by SetCursor alone.                          *)
LEMMA StoredCursorKept ==
    ASSUME DispatchTypeOK, DispatchTypeOK', Shape, Grown, CursorInv, [Next]_vars
    PROVE  dbCursor' <= Len(log') /\ Through(dbCursor)'
  <1>1. ASSUME UNCHANGED dbCursor PROVE dbCursor' <= Len(log') /\ Through(dbCursor)'
    <2>1. dbCursor \in Nat /\ dbCursor <= Len(log) /\ Through(dbCursor)
      BY DispatchConstants DEF DispatchTypeOK, CursorInv, DispatchConstants
    <2> QED  BY <1>1, <2>1, ThroughGrows, Zenon
  <1>2. ASSUME NEW d \in Dispatchers, SetCursor(d), dbCursor' = job[d].ev
        PROVE  dbCursor' <= Len(log') /\ Through(dbCursor)'
    <2>1. dbCursor' \in Nat /\ dbCursor' <= Len(log) /\ Through(job[d].ev)
      BY <1>2, SettledThrough, Zenon DEF CursorInv
    <2>2. Through(dbCursor')
      BY <1>2, <2>1, Zenon
    <2> QED  BY <2>1, <2>2, ThroughGrows, Zenon
  <1>a. CASE Midnight \/ EnsureEventPartitionExists \/ PruneEventPartitionsBefore \/ Publish \/ UNCHANGED vars
    BY <1>1, <1>a, Zenon DEF Midnight, EnsureEventPartitionExists, PruneEventPartitionsBefore, Publish, vars
  <1>b. ASSUME NEW w \in Workers, Handle(w) \/ ChainStrays(w) \/ ClaimFails(w) \/ FinishFails(w) \/ Crash(w)
        PROVE  UNCHANGED dbCursor
    BY <1>b, Zenon DEF Handle, BeginFiring, ClaimFails, Refuse, RunChain, ChainReturns, FinishFiring,
                       ChainStrays, FinishFails, Crash
  <1>c. ASSUME NEW n \in NIDs, GoroutineEnds(n) \/ ChainAppends(n) \/ StrayAppends(n) PROVE UNCHANGED dbCursor
    BY <1>c, Zenon DEF GoroutineEnds, ChainAppends, StrayAppends
  <1>d. ASSUME NEW n \in NIDs, NEW t \in Triggers, ClaimGoesStale(n, t) PROVE UNCHANGED dbCursor
    BY <1>d, Zenon DEF ClaimGoesStale
  <1>e. ASSUME NEW d \in Dispatchers, Start(d) \/ Loop(d) \/ Interrupt(d)
        PROVE  UNCHANGED dbCursor \/ (SetCursor(d) /\ dbCursor' = job[d].ev)
    BY <1>e, Zenon DEF Start, Loop, Interrupt, ListEventPartitions, ReadPartition, SortEvents, PickEvent,
                       SetCursor, Tick, Stop
  <1> QED
    BY <1>1, <1>2, <1>a, <1>b, <1>c, <1>d, <1>e, Zenon DEF Next

(* Every step keeps the dispatchers' own cursors and batches.              *)
LEMMA LoopsKept ==
    ASSUME DispatchTypeOK, DispatchTypeOK', Shape, Shape', Grown, CursorInv, [Next]_vars, Quiet'
    PROVE  \A d \in Dispatchers : LoopOK(d)'
  <1>0. \A d \in Dispatchers : LoopOK(d) /\ d \in Workers
    BY Zenon DEF CursorInv, Workers
  <1>1. ASSUME \A d \in Dispatchers : disp'[d] = disp[d] /\ job'[d] = job[d]
        PROVE  \A d \in Dispatchers : LoopOK(d)'
    BY <1>0, <1>1, LoopStays, Zenon
  <1>2. ASSUME NEW type, NEW hop, NEW depth, NEW hooked, AppendEvent(type, hop, depth, hooked), UNCHANGED disp
        PROVE  \A d \in Dispatchers : LoopOK(d)'
    <2> DEFINE n == Len(log) + 1
    <2>1. n \in NIDs
      BY <1>2, Zenon DEF AppendEvent
    <2>2. job' = [job EXCEPT ![n] = NewJob(n, type)] \/ job' = job
      <3>1. CASE hooked  BY <1>2, <3>1, Zenon DEF AppendEvent
      <3>2. CASE ~hooked  BY <1>2, <3>2, Zenon DEF AppendEvent
      <3> QED  BY <3>1, <3>2, Zenon
    <2> HIDE DEF n
    <2>3. \A d \in Dispatchers : d # n
      BY <2>1, DispatchConstants, Zenon DEF DispatchConstants
    <2>4. \A d \in Dispatchers : job'[d] = job[d]
      BY <1>0, <2>2, <2>3, Zenon DEF DispatchTypeOK
    <2> QED  BY <1>1, <1>2, <2>4, Zenon
  <1>a. CASE Midnight \/ EnsureEventPartitionExists \/ PruneEventPartitionsBefore \/ UNCHANGED vars
    BY <1>1, <1>a, Zenon DEF Midnight, EnsureEventPartitionExists, PruneEventPartitionsBefore, vars
  <1>b. CASE Publish
    BY <1>2, <1>b, Zenon DEF Publish
  <1>c. ASSUME NEW n \in NIDs, ChainAppends(n) PROVE \A d \in Dispatchers : LoopOK(d)'
    BY <1>2, <1>c, Zenon DEF ChainAppends
  <1>d. ASSUME NEW n \in NIDs, StrayAppends(n) PROVE \A d \in Dispatchers : LoopOK(d)'
    BY <1>2, <1>d, Zenon DEF StrayAppends
  <1>s. ASSUME NEW w \in Workers, ChainStrays(w) PROVE \A d \in Dispatchers : LoopOK(d)'
    BY <1>1, <1>s, Zenon DEF ChainStrays
  <1>e. ASSUME NEW w \in Workers,
               BeginFiring(w) \/ ClaimFails(w) \/ Refuse(w) \/ RunChain(w) \/ ChainReturns(w)
                 \/ FinishFiring(w) \/ FinishFails(w) \/ Crash(w)
        PROVE  \A d \in Dispatchers : LoopOK(d)'
    BY <1>0, <1>e, HandleLoops, Zenon
  <1>f. ASSUME NEW n \in NIDs, GoroutineEnds(n) PROVE \A d \in Dispatchers : LoopOK(d)'
    <2>1. \A d \in Dispatchers : d # n
      BY DispatchConstants, Zenon DEF DispatchConstants
    <2>2. \A d \in Dispatchers : disp'[d] = disp[d] /\ job'[d] = job[d]
      BY <1>0, <1>f, <2>1, ZenonT(30) DEF GoroutineEnds, DispatchTypeOK
    <2> QED  BY <1>1, <2>2, Zenon
  <1>g. ASSUME NEW n \in NIDs, NEW t \in Triggers, ClaimGoesStale(n, t)
        PROVE  \A d \in Dispatchers : LoopOK(d)'
    BY <1>1, <1>g, Zenon DEF ClaimGoesStale
  <1>h. ASSUME NEW w \in Dispatchers, Start(w) \/ Loop(w) \/ Interrupt(w)
        PROVE  \A d \in Dispatchers : LoopOK(d)'
    BY <1>h, LoopLoops, Zenon
  <1> QED
    BY <1>a, <1>b, <1>c, <1>d, <1>e, <1>f, <1>g, <1>h, <1>s, Zenon DEF Next, Handle

(* With any number of dispatchers behind one cursor, goroutines, crashes,  *)
(* lost outcomes and failed cursor writes: while claims can be written and *)
(* the log is in one table, the stored cursor passes no event that has not *)
(* been claimed for every trigger that listens for it (dispatch.go drain   *)
(* and handle, ListEventsSince).                                           *)
THEOREM CursorSkipsNothing == Spec => []NothingSkipped
  <1> DEFINE I == DispatchTypeOK /\ Shape /\ StraysOK /\ (Quiet => CursorInv)
  <1>1. Init => I
    <2> SUFFICES ASSUME Init PROVE CursorInv
      BY InitIInv, Zenon DEF IInv
    <2>1. Appended = {} /\ Len(log) = 0
      BY DEF Init, Appended
    <2>2. OneTable /\ dbCursor <= Len(log) /\ Through(dbCursor)
      BY <2>1 DEF Init, OneTable, Through
    <2>3. ASSUME NEW d \in Dispatchers PROVE LoopOK(d)
      <3>1. disp[d].ctx = "live" /\ disp[d].pc = "off" /\ disp[d].cursor = 0
        BY Zenon DEF Init, Off
      <3>2. Through(0)
        BY <2>1, Zenon DEF Through
      <3> QED  BY <2>1, <3>1, <3>2 DEF LoopOK
    <2> QED  BY <2>2, <2>3, Zenon DEF CursorInv
  <1>2. I /\ [Next]_vars => I'
    <2> SUFFICES ASSUME I, [Next]_vars PROVE I'
      OBVIOUS
    <2>1. DispatchTypeOK' /\ Shape' /\ StraysOK'
      BY NextTypes, NextStrays, Zenon
    <2>2. ASSUME Quiet' PROVE CursorInv'
      <3>0. CursorInv
        BY <2>2, SeenGrows, Zenon DEF Quiet
      <3>1. Grown
        BY StepGrows, Zenon
      <3>2. OneTable'
        BY <2>2, <3>0, OneTableKept, Zenon DEF CursorInv
      <3>3. dbCursor' <= Len(log') /\ Through(dbCursor)'
        BY <2>1, <3>0, <3>1, StoredCursorKept, Zenon
      <3>4. \A d \in Dispatchers : LoopOK(d)'
        BY <2>1, <2>2, <3>0, <3>1, LoopsKept, Zenon
      <3> QED  BY <3>2, <3>3, <3>4, Zenon DEF CursorInv
    <2> QED  BY <2>1, <2>2, Zenon
  <1>3. I => NothingSkipped
    BY Zenon DEF CursorInv, Through, Claimed, Quiet, NothingSkipped, CursorTruthful
  <1> HIDE DEF I
  <1> QED  BY <1>1, <1>2, <1>3, PTL DEF Spec
=============================================================================
