------------------------------ MODULE Failover ------------------------------
(***************************************************************************)
(* A turn of the model gateway and the circuit breakers of the backends it *)
(* walks: admission (gateway.quarantined), the candidate walk and failover *)
(* of llmrepo, and what each handler records about a backend when its turn *)
(* is over.  The order of the walk (the policy's pick, then the other      *)
(* candidates) is any order of the backends.  A breaker the pool has not   *)
(* created yet behaves as a fresh Closed one.                              *)
(***************************************************************************)
EXTENDS Naturals, FiniteSets

CONSTANTS Turns,      \* requests in progress at once; each slot is reused
          Backends,
          NoBackend,
          Flaky,      \* the backends that may fail
          Traffics,   \* bound: the mixes of routes and errors considered
          Threshold,  \* breakerThreshold
          Cooldown    \* breakerCooldown, in ticks

Chats == {"chat", "openai_chat"}
Streams == {"stream", "openai_stream"}
Embeds == {"embed", "openai_embed"}
OpenAI == {"openai_chat", "openai_stream", "openai_embed"}
Kinds == Chats \cup Streams \cup Embeds
Final == {"rateLimited", "other", "cancelled"}   \* IsBackendTerminal is false
Errors == {"terminal", "connection"} \cup Final

ASSUME FailoverConstants ==
    /\ NoBackend \notin Backends
    /\ Flaky \subseteq Backends
    /\ Traffics \subseteq [kinds : SUBSET Kinds, errors : SUBSET Errors]
    /\ Threshold \in Nat \ {0}
    /\ Cooldown \in Nat

VARIABLES traffic,    \* the routes in use, how a Flaky backend fails, and whether
                      \* clients hang up ("cancelled"): one of Traffics, for good
          breaker,    \* backend -> its Routine; age is the ticks since lastFailureAt
          turn,       \* slot -> the request's progress
          outcome     \* slot -> how its last request ended

vars == <<traffic, breaker, turn, outcome>>

Idle == [pc |-> "idle", kind |-> "none", left |-> {}, at |-> NoBackend,
         refused |-> {}, last |-> NoBackend, healthy |-> {},
         retried |-> FALSE, result |-> "none"]

Init ==
    /\ traffic \in Traffics
    /\ breaker = [b \in Backends |->
                    [state |-> "Closed", count |-> 0, age |-> 0, inTest |-> FALSE]]
    /\ turn = [t \in Turns |-> Idle]
    /\ outcome = [t \in Turns |-> "none"]

(* The breaker of one backend.                                              *)
Elapsed(b) == breaker[b].age > Cooldown

WouldAllowAt(b) ==
    \/ breaker[b].state = "Closed"
    \/ breaker[b].state = "Open" /\ Elapsed(b)
    \/ breaker[b].state = "HalfOpen" /\ ~breaker[b].inTest

AllowAt(b) ==
    /\ WouldAllowAt(b)
    /\ breaker' = IF breaker[b].state = "Closed" THEN breaker
                  ELSE [breaker EXCEPT ![b].state = "HalfOpen", ![b].inTest = TRUE]

Opened(count) == [state |-> "Open", count |-> count, age |-> 0, inTest |-> FALSE]

ForceOpenAt(b) == breaker' = [breaker EXCEPT ![b] = Opened(Threshold)]

MarkFailureAt(b) ==
    LET r == breaker[b] IN
    breaker' = [breaker EXCEPT ![b] =
        IF r.state = "HalfOpen" THEN Opened(r.count)
        ELSE IF r.state = "Open" THEN r
        ELSE IF r.count + 1 >= Threshold THEN Opened(r.count + 1)
        ELSE [r EXCEPT !.count = r.count + 1]]

RecordFailure(b, error) ==
    IF error \in {"terminal", "rateLimited"} THEN ForceOpenAt(b) ELSE MarkFailureAt(b)

RecordSuccessCountOnly(b) ==
    breaker' = [breaker EXCEPT ![b].count = 0]

RecordSuccess(b) ==
    breaker' = [breaker EXCEPT ![b] =
                  [state |-> "Closed", count |-> 0, age |-> @.age, inTest |-> FALSE]]

(* Time passes; an age past the cooldown is no longer told apart.           *)
Tick ==
    /\ \E b \in Backends : breaker[b].age <= Cooldown
    /\ breaker' = [b \in Backends |-> [breaker[b] EXCEPT !.age =
                     IF breaker[b].age > Cooldown THEN breaker[b].age ELSE breaker[b].age + 1]]
    /\ UNCHANGED <<traffic, turn, outcome>>

-----------------------------------------------------------------------------
(* The request.                                                             *)
End(t, how) ==
    /\ turn' = [turn EXCEPT ![t] = Idle]
    /\ outcome' = [outcome EXCEPT ![t] = how]
    /\ UNCHANGED traffic

Continue(t, new) ==
    /\ turn' = [turn EXCEPT ![t] = new]
    /\ UNCHANGED <<traffic, outcome>>

(* health.record is still to come, then the answer.                         *)
Close(t, how) == Continue(t, [turn[t] EXCEPT !.pc = "record", !.result = how])

quarantined == \A b \in Backends : ~WouldAllowAt(b)

(* admitRequest, with the candidates the resolver found.                    *)
Begin(t) ==
    /\ turn[t].pc = "idle"
    /\ UNCHANGED breaker
    /\ \/ quarantined /\ End(t, "quarantined")
       \/ /\ ~quarantined
          /\ \E k \in traffic.kinds :
               turn' = [turn EXCEPT ![t] = [Idle EXCEPT !.kind = k, !.left = Backends,
                          !.pc = IF k \in OpenAI THEN "authorize" ELSE "walk"]]
          /\ outcome' = [outcome EXCEPT ![t] = "none"]
          /\ UNCHANGED traffic

(* The OpenAI routes go through Repo, which authorizes a second time.       *)
Authorize(t) ==
    /\ turn[t].pc = "authorize"
    /\ IF quarantined THEN End(t, "quarantined")
                      ELSE Continue(t, [turn[t] EXCEPT !.pc = "walk"])
    /\ UNCHANGED breaker

(* runChatSelections: a candidate the breaker refuses is passed over.       *)
Skip(t) ==
    /\ turn[t].pc = "walk"
    /\ turn[t].kind \in Chats
    /\ \E b \in turn[t].left :
         /\ ~WouldAllowAt(b)
         /\ Continue(t, [turn[t] EXCEPT !.left = @ \ {b}])
    /\ UNCHANGED breaker

(* The next candidate is asked; only the chat walk consults the breaker.    *)
(* A connection that cannot be made ends the turn unless another backend    *)
(* has refused before (skipOrFail).                                         *)
Take(t) ==
    /\ turn[t].pc = "walk"
    /\ turn[t].kind \notin Embeds
    /\ \E b \in turn[t].left :
         /\ IF turn[t].kind \in Chats THEN AllowAt(b) ELSE UNCHANGED breaker
         /\ \/ Continue(t, [turn[t] EXCEPT !.pc = "ask", !.left = @ \ {b}, !.at = b])
            \/ /\ b \in Flaky /\ "connection" \in traffic.errors
               /\ IF turn[t].refused # {}
                    THEN Continue(t, [turn[t] EXCEPT !.left = @ \ {b}, !.refused = @ \cup {b}])
                    ELSE End(t, "failed")

(* Every candidate was passed over or refused: exhaustedError.              *)
Exhaust(t) ==
    /\ turn[t].pc = "walk"
    /\ turn[t].kind \notin Embeds
    /\ turn[t].left = {}
    /\ Close(t, "exhausted")
    /\ UNCHANGED breaker

(* The asked backend fails, or the call is cancelled with its request.      *)
MayFail(t, error) ==
    /\ turn[t].pc = "ask"
    /\ error \in traffic.errors
    /\ turn[t].at \in Flaky \/ error = "cancelled"

(* A refusal terminal for the backend alone: reported to the turn's tracker *)
(* and the walk goes on.                                                    *)
Refuse(t) ==
    /\ MayFail(t, "terminal")
    /\ turn[t].kind \notin Embeds
    /\ Continue(t, [turn[t] EXCEPT !.pc = "walk", !.refused = @ \cup {turn[t].at},
                      !.last = turn[t].at, !.at = NoBackend])
    /\ UNCHANGED breaker

(* Any other error is the turn's answer, and is not reported.               *)
Fail(t) ==
    /\ \E error \in Final : MayFail(t, error)
    /\ turn[t].kind \notin Embeds
    /\ Close(t, "failed")
    /\ UNCHANGED breaker

Answer(t) ==
    /\ turn[t].pc = "ask"
    /\ turn[t].kind \notin Embeds
    /\ IF turn[t].kind \in Chats THEN Close(t, "served")
                                 ELSE Continue(t, [turn[t] EXCEPT !.pc = "stream"])
    /\ UNCHANGED breaker

(* The stream ends well, breaks upstream, or its client goes away.          *)
StreamEnds(t) ==
    /\ turn[t].pc = "stream"
    /\ \/ Continue(t, [turn[t] EXCEPT !.pc = "succeed"])
       \/ turn[t].at \in Flaky /\ traffic.errors \cap (Final \cup {"terminal"}) # {} /\ Close(t, "failed")
       \/ End(t, "gone")
    /\ UNCHANGED breaker

RecordWinner(t) ==
    /\ turn[t].pc = "record"
    /\ IF turn[t].last # NoBackend /\ turn[t].at # NoBackend
         THEN RecordFailure(turn[t].at, "terminal") ELSE UNCHANGED breaker
    /\ IF turn[t].result = "served"
         THEN Continue(t, [turn[t] EXCEPT !.pc = "succeed"])
         ELSE End(t, turn[t].result)

(* health.record: the last refusal the tracker captured.                    *)
Record(t) ==
    /\ turn[t].pc = "record"
    /\ IF turn[t].last # NoBackend THEN RecordFailure(turn[t].last, "terminal")
                                   ELSE UNCHANGED breaker
    /\ IF turn[t].result = "served"
         THEN Continue(t, [turn[t] EXCEPT !.pc = "succeed"])
         ELSE End(t, turn[t].result)

(* recordBackendSuccess: the Ollama routes translate the endpoint to the    *)
(* backend's id, the OpenAI routes pass the endpoint, which no breaker has. *)
Succeed(t) ==
    /\ turn[t].pc = "succeed"
    /\ IF turn[t].kind \in OpenAI THEN UNCHANGED breaker ELSE RecordSuccess(turn[t].at)
    /\ End(t, "served")

(* healthyResolver: an embedding consults every candidate's breaker ...     *)
Consult(t) ==
    /\ turn[t].pc = "walk"
    /\ turn[t].kind \in Embeds
    /\ \E b \in turn[t].left :
         \/ /\ AllowAt(b)
            /\ Continue(t, [turn[t] EXCEPT !.left = @ \ {b}, !.healthy = @ \cup {b}])
         \/ /\ ~WouldAllowAt(b)
            /\ Continue(t, [turn[t] EXCEPT !.left = @ \ {b}])
            /\ UNCHANGED breaker

(* ... and asks one of those in service; without one it reconciles and      *)
(* resolves once more.                                                      *)
PickEmbed(t) ==
    /\ turn[t].pc = "walk"
    /\ turn[t].kind \in Embeds
    /\ turn[t].left = {}
    /\ \/ \E b \in turn[t].healthy :
            \/ Continue(t, [turn[t] EXCEPT !.pc = "ask", !.at = b, !.healthy = {}])
            \/ b \in Flaky /\ "connection" \in traffic.errors /\ End(t, "failed")
       \/ /\ turn[t].healthy = {}
          /\ \/ /\ ~turn[t].retried
                /\ Continue(t, [turn[t] EXCEPT !.left = Backends, !.retried = TRUE])
             \/ End(t, "exhausted")
    /\ UNCHANGED breaker

(* An embedding's error is recorded by the Ollama route only.               *)
EmbedFails(t) ==
    /\ turn[t].kind \in Embeds
    /\ \E error \in {"terminal"} \cup Final :
         /\ MayFail(t, error)
         /\ IF turn[t].kind = "embed" THEN RecordFailure(turn[t].at, error)
                                      ELSE UNCHANGED breaker
    /\ End(t, "failed")

(* One input is embedded, its success recorded under the endpoint, which no *)
(* breaker has; the next input resolves anew.                               *)
EmbedAnswer(t) ==
    /\ turn[t].pc = "ask"
    /\ turn[t].kind \in Embeds
    /\ \/ End(t, "served")
       \/ Continue(t, [Idle EXCEPT !.pc = "walk", !.kind = turn[t].kind, !.left = Backends])
    /\ UNCHANGED breaker

Walk(t) == Authorize(t) \/ Skip(t) \/ Take(t) \/ Exhaust(t) \/ Consult(t) \/ PickEmbed(t)
Reply(t) == Refuse(t) \/ Fail(t) \/ Answer(t) \/ StreamEnds(t) \/ EmbedFails(t) \/ EmbedAnswer(t)
Report(t) == Record(t) \/ Succeed(t)

Next ==
    \/ Tick
    \/ \E t \in Turns : Begin(t) \/ Walk(t) \/ Reply(t) \/ Report(t)

Spec == Init /\ [][Next]_vars

(* Time passes, clients keep coming, a request that is running goes on, and *)
(* every backend answers in the end.                                        *)
LiveSpec ==
    /\ Spec
    /\ WF_vars(Tick)
    /\ \A t \in Turns : WF_vars(Begin(t)) /\ WF_vars(Walk(t) \/ Reply(t) \/ Report(t))

-----------------------------------------------------------------------------
Routines == [state : {"Closed", "Open", "HalfOpen"}, count : 0 .. Threshold,
             age : 0 .. Cooldown + 1, inTest : BOOLEAN]

Requests ==
    [pc : {"idle", "authorize", "walk", "ask", "stream", "record", "succeed"},
     kind : Kinds \cup {"none"}, left : SUBSET Backends, at : Backends \cup {NoBackend},
     refused : SUBSET Backends, last : Backends \cup {NoBackend}, healthy : SUBSET Backends,
     retried : BOOLEAN, result : {"none", "served", "failed", "exhausted"}]

Endings == {"none", "served", "failed", "exhausted", "quarantined", "gone"}

(* The fields of the breakers and of the requests.                          *)
FailoverTypeOK ==
    /\ traffic \in Traffics
    /\ breaker \in [Backends -> Routines]
    /\ turn \in [Turns -> Requests]
    /\ outcome \in [Turns -> Endings]

(* Nobody hangs up on an embedding of the Ollama route, which would record  *)
(* it as a failure of the backend.                                          *)
Patient == "cancelled" \notin traffic.errors \/ "embed" \notin traffic.kinds

(* While one backend works, no turn is refused for want of a backend: the   *)
(* admission check never reports a quarantine and no walk comes up empty,   *)
(* whatever the other backends answer and whenever it is recorded           *)
(* (mesh_e2e_test.go: the backend that works serves every turn).  Clients   *)
(* that hang up on embeddings can take the working backend out of service.  *)
ServedWhileOneWorks ==
    Patient /\ Backends \ Flaky # {} =>
        \A t \in Turns : outcome[t] \notin {"exhausted", "quarantined"}

(* Chats and streams alone, against at most one backend that fails, and    *)
(* that one terminally: the turn a breaker lets through as its probe       *)
(* reports what it saw.                                                    *)
ProbesReturn ==
    /\ traffic.kinds \subseteq {"chat", "stream"}
    /\ traffic.errors \subseteq {"terminal"}
    /\ \A b, c \in Flaky : b = c

(* A backend out of service is given another chance: its breaker is again  *)
(* and again willing to let a turn through (IsAvailable and record).  An   *)
(* embedding, a route of the OpenAI codec or an error that is not terminal *)
(* may keep the probe for good, and so may a chat that probes two backends *)
(* in one walk: the tracker keeps the last refusal only.                   *)
Recovers ==
    ProbesReturn => \A b \in Backends : []<>WouldAllowAt(b)

(* service.go: what a client is told while every backend is out of service *)
(* is "a retry window rather than the failure of one endpoint".            *)
WindowEnds ==
    \A b \in Backends : []<>WouldAllowAt(b)
=============================================================================
