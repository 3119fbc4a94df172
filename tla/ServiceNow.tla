------------------------------ MODULE ServiceNow ------------------------------
(***************************************************************************)
(* One ticket in ServiceNow for an issue: ServiceNowService over           *)
(* SQLiteServiceNowRepository, with the queue of deferred deliveries and   *)
(* the circuit breaker that all callers share.                             *)
(*                                                                         *)
(* create_ticket and process_next_retry run in several threads; each       *)
(* repository call is one transaction.  Nothing renews or expires what a   *)
(* caller holds between two of them.                                       *)
(***************************************************************************)
EXTENDS Naturals

CONSTANTS
  Issues,
  TicketKeys,  \* idempotency keys: client_request_id of what ServiceNow gets
  Payload,     \* payload_digest of the request with a key: it follows the issue, which changes
  Callers,
  Threshold,   \* failure_threshold
  OpenFor,     \* open_seconds
  MaxTries,    \* max_attempts
  BaseDelay,   \* base_delay_seconds
  MaxTicks     \* bound on the clock

\* The delay after a number of attempts.
Backoff(attempt) == BaseDelay * 2^(attempt - 1)

\* (That a power of two is a number is arithmetic the provers have no axiom of.)
ASSUME ServiceNowAssumption ==
  /\ {Threshold, OpenFor, MaxTries} \subseteq Nat \ {0} /\ BaseDelay \in Nat /\ MaxTicks \in Nat
  /\ \A attempt \in 1..MaxTries : Backoff(attempt) \in Nat
  /\ "none" \notin TicketKeys

VARIABLES
  ticks,
  ticket,      \* what ServiceNow has: the keys for which it created a ticket of the issue
  link,        \* servicenow_ticket_links: the key of the ticket the issue is linked to
  retry,       \* servicenow_retry_jobs, one for each issue
  circuit,     \* servicenow_circuit_breaker
  caller,      \* where each call is, and whether it probes the circuit
  lostProbe,   \* whether the caller that opened the circuit half has gone without a record
  lostClaims   \* retries whose caller has gone without a record

serviceNowVars == <<ticks, ticket, link, retry, circuit, caller, lostProbe, lostClaims>>
lost == <<lostProbe, lostClaims>>

NoRetry == [status |-> "none"]
NoCall  == [step |-> "none", probe |-> FALSE]
Closed  == [state |-> "CLOSED", failures |-> 0, openedAt |-> 0]

ServiceNowInit ==
  /\ ticks = 0
  /\ ticket = [i \in Issues |-> {}]
  /\ link = [i \in Issues |-> "none"]
  /\ retry = [i \in Issues |-> NoRetry]
  /\ circuit = Closed
  /\ caller = [c \in Callers |-> NoCall]
  /\ lostProbe = FALSE /\ lostClaims = {}

Ticks ==
  ticks < MaxTicks /\ ticks' = ticks + 1 /\ UNCHANGED <<ticket, link, retry, circuit, caller, lost>>

Moves(c, step) == caller' = [caller EXCEPT ![c].step = step]
Ends(c) == caller' = [caller EXCEPT ![c] = NoCall]

-----------------------------------------------------------------------------
(* A call begins *)

\* create_ticket: an issue that is linked or queued is answered from the tables.
CreateTicket(c, i, k) ==
  /\ caller[c] = NoCall /\ link[i] = "none" /\ retry[i] = NoRetry
  /\ caller' = [caller EXCEPT ![c] = [step |-> "acquire", mode |-> "create", issue |-> i, key |-> k,
                                      attempt |-> 1, probe |-> FALSE]]
  /\ UNCHANGED <<ticks, ticket, link, retry, circuit, lost>>

IsDueRetry(i) == retry[i].status = "PENDING" /\ retry[i].due <= ticks

\* claim_next_retry
ClaimRetry(c, i) ==
  /\ caller[c] = NoCall /\ IsDueRetry(i)
  /\ \A other \in Issues : IsDueRetry(other) => retry[i].due <= retry[other].due
  /\ retry' = [retry EXCEPT ![i].status = "PROCESSING", ![i].attempts = @ + 1]
  /\ caller' = [caller EXCEPT ![c] = [step |-> "acquire", mode |-> "retry", issue |-> i, key |-> retry[i].key,
                                      attempt |-> retry[i].attempts + 1, probe |-> FALSE]]
  /\ UNCHANGED <<ticks, ticket, link, circuit, lost>>

-----------------------------------------------------------------------------
(* The circuit breaker and the adapter *)

Probes == circuit.state = "OPEN" /\ ticks >= circuit.openedAt + OpenFor

\* try_acquire_circuit: of the callers that find the circuit open long enough one goes on.
AcquireCircuit(c) ==
  /\ caller[c].step = "acquire"
  /\ \/ /\ circuit.state = "CLOSED" \/ Probes
        /\ circuit' = IF Probes THEN [circuit EXCEPT !.state = "HALF_OPEN"] ELSE circuit
        /\ caller' = [caller EXCEPT ![c].step = "call", ![c].probe = Probes]
        /\ lostProbe' = (lostProbe /\ ~Probes)
     \/ /\ ~(circuit.state = "CLOSED" \/ Probes)
        /\ Moves(c, IF caller[c].mode = "retry" THEN "release" ELSE "enqueue")
        /\ UNCHANGED <<circuit, lostProbe>>
  /\ UNCHANGED <<ticks, ticket, link, retry, lostClaims>>

\* What the adapter answers: "limited" is a rate limit without a valid delay, "rejected"
\* all that is not transient.  An error does not tell whether the ticket exists.
Answers == {"ok", "temporary", "limited", "rejected"}
Transient == {"temporary", "limited"}

CallAdapter(c, answer) ==
  /\ caller[c].step = "call"
  /\ \/ ticket' = [ticket EXCEPT ![caller[c].issue] = @ \cup {caller[c].key}]
     \/ answer # "ok" /\ ticket' = ticket
  /\ Moves(c, answer)
  /\ UNCHANGED <<ticks, link, retry, circuit, lost>>

\* record_circuit_failure; the code counts on when a half-open circuit opens again, but never
\* reads the failures of a circuit that is not closed.
FailedCircuit ==
  LET Opens == \/ circuit.state = "HALF_OPEN"
               \/ circuit.state = "CLOSED" /\ circuit.failures + 1 >= Threshold
  IN CASE Opens -> [state |-> "OPEN", failures |-> Threshold, openedAt |-> ticks]
       [] circuit.state = "CLOSED" /\ ~Opens -> [circuit EXCEPT !.failures = @ + 1]
       [] circuit.state = "OPEN" -> circuit

\* record_circuit_non_transient_result closes the circuit, whenever the call began.
CircuitAfter(answer) == IF answer \in Transient THEN FailedCircuit ELSE Closed

\* create_ticket tries again, defers the delivery or gives up.
AfterCreate(answer, attempt) ==
  CASE answer = "ok" -> "store"
    [] answer \in Transient /\ (FailedCircuit.state = "OPEN" \/ attempt >= MaxTries) -> "enqueue"
    [] answer = "temporary" /\ FailedCircuit.state # "OPEN" /\ attempt < MaxTries -> "acquire"
    [] OTHER -> "end"

\* process_next_retry
AfterRetry(answer, attempt) ==
  CASE answer = "ok" -> "store"
    [] answer = "temporary" /\ attempt < MaxTries -> "postpone"
    [] OTHER -> "bury"

RecordAnswer(c) ==
  /\ caller[c].step \in Answers
  /\ LET call == caller[c]
         step == IF call.mode = "create" THEN AfterCreate(call.step, call.attempt)
                 ELSE AfterRetry(call.step, call.attempt)
     IN /\ circuit' = CircuitAfter(call.step)
        /\ lostProbe' = (lostProbe /\ CircuitAfter(call.step).state = "HALF_OPEN")
        /\ IF step = "end" THEN Ends(c)
           ELSE caller' = [caller EXCEPT ![c].step = step, ![c].probe = FALSE,
                                         ![c].attempt = IF step = "acquire" THEN @ + 1 ELSE @]
  /\ UNCHANGED <<ticks, ticket, link, retry, lostClaims>>

\* The answer cannot be recorded: a retry is given back, a request ends with the error.
RecordFails(c) ==
  /\ caller[c].step \in Answers
  /\ lostProbe' = (lostProbe \/ caller[c].probe)
  /\ IF caller[c].mode = "create" THEN Ends(c)
     ELSE caller' = [caller EXCEPT ![c].step = "release", ![c].probe = FALSE]
  /\ UNCHANGED <<ticks, ticket, link, retry, circuit, lostClaims>>

-----------------------------------------------------------------------------
(* The result is stored *)

HasClaim(c, i) == caller[c].step # "none" /\ caller[c].mode = "retry" /\ caller[c].issue = i

\* add, for a request; a link that is there already is returned or conflicts.
AddLink(c) ==
  /\ caller[c].step = "store" /\ caller[c].mode = "create"
  /\ LET i == caller[c].issue
     IN link' = IF link[i] = "none" THEN [link EXCEPT ![i] = caller[c].key] ELSE link
  /\ Ends(c)
  /\ UNCHANGED <<ticks, ticket, retry, circuit, lost>>

\* Whether the issue has no link, or one with the payload of the request.
Agrees(i, k) == link[i] # "none" => Payload[link[i]] = Payload[k]

\* complete_retry; the conflict is not among the errors that give the retry back.
CompleteRetry(c) ==
  /\ caller[c].step = "store" /\ caller[c].mode = "retry"
  /\ LET i == caller[c].issue  k == caller[c].key
     IN \/ /\ retry[i].status = "PROCESSING" /\ Agrees(i, k)
           /\ link' = IF link[i] = "none" THEN [link EXCEPT ![i] = k] ELSE link
           /\ retry' = [retry EXCEPT ![i].status = "COMPLETED"]
           /\ UNCHANGED lostClaims
        \/ /\ ~(retry[i].status = "PROCESSING" /\ Agrees(i, k))
           /\ lostClaims' = lostClaims \cup {i}
           /\ UNCHANGED <<link, retry>>
  /\ Ends(c)
  /\ UNCHANGED <<ticks, ticket, circuit, lostProbe>>

\* enqueue_retry, unless the issue has a job by now.
EnqueueRetry(c) ==
  /\ caller[c].step = "enqueue"
  /\ LET i == caller[c].issue
     IN retry' = IF retry[i] # NoRetry THEN retry
                 ELSE [retry EXCEPT ![i] = [status |-> "PENDING", key |-> caller[c].key,
                                            attempts |-> 0, due |-> ticks]]
  /\ Ends(c)
  /\ UNCHANGED <<ticks, ticket, link, circuit, lost>>

\* Mutant: a claim that is given back counts as an attempt.
Released_Counted(row) == [row EXCEPT !.status = "PENDING", !.due = ticks]

Released(row) == [row EXCEPT !.status = "PENDING", !.attempts = @ - 1, !.due = ticks]

\* release_retry_claim, also when what a caller has to write for its retry fails.
ReleaseRetry(c) ==
  /\ \/ caller[c].step \in {"release", "postpone", "bury"}
     \/ caller[c].step = "store" /\ caller[c].mode = "retry"
  /\ LET i == caller[c].issue
     IN retry' = IF retry[i].status = "PROCESSING" /\ retry[i].attempts > 0
                 THEN [retry EXCEPT ![i] = Released(@)] ELSE retry
  /\ Ends(c)
  /\ UNCHANGED <<ticks, ticket, link, circuit, lost>>

\* record_retry_failure: with exponential backoff, or to the dead letters.
FailRetry(c) ==
  /\ caller[c].step \in {"postpone", "bury"} /\ retry[caller[c].issue].status = "PROCESSING"
  /\ LET call == caller[c]
     IN retry' = IF call.step = "bury" THEN [retry EXCEPT ![call.issue].status = "DEAD_LETTER"]
                 ELSE [retry EXCEPT ![call.issue].status = "PENDING",
                                    ![call.issue].due = ticks + Backoff(call.attempt)]
  /\ Ends(c)
  /\ UNCHANGED <<ticks, ticket, link, circuit, lost>>

RequeueDeadLetter(i) ==
  /\ retry[i].status = "DEAD_LETTER"
  /\ retry' = [retry EXCEPT ![i].status = "PENDING", ![i].attempts = 0, ![i].due = ticks]
  /\ UNCHANGED <<ticks, ticket, link, circuit, caller, lost>>

\* The process of a caller ends.
Dies(c) ==
  /\ caller[c] # NoCall
  /\ lostProbe' = (lostProbe \/ caller[c].probe)
  /\ lostClaims' = IF caller[c].mode = "retry" THEN lostClaims \cup {caller[c].issue} ELSE lostClaims
  /\ Ends(c)
  /\ UNCHANGED <<ticks, ticket, link, retry, circuit>>

ServiceNowNext ==
  \/ Ticks
  \/ \E i \in Issues : RequeueDeadLetter(i)
  \/ \E c \in Callers :
       \/ \E i \in Issues : ClaimRetry(c, i) \/ \E k \in TicketKeys : CreateTicket(c, i, k)
       \/ \E answer \in Answers : CallAdapter(c, answer)
       \/ AcquireCircuit(c) \/ RecordAnswer(c) \/ RecordFails(c)
       \/ AddLink(c) \/ CompleteRetry(c) \/ EnqueueRetry(c)
       \/ ReleaseRetry(c) \/ FailRetry(c) \/ Dies(c)

ServiceNowSpec == ServiceNowInit /\ [][ServiceNowNext]_serviceNowVars

-----------------------------------------------------------------------------
(* Properties *)

ServiceNowTypeOK ==
  /\ ticks \in 0..MaxTicks
  /\ \A i \in Issues :
       /\ ticket[i] \subseteq TicketKeys /\ link[i] \in TicketKeys \cup {"none"}
       /\ \/ retry[i] = NoRetry
          \/ /\ retry[i].status \in {"PENDING", "PROCESSING", "COMPLETED", "DEAD_LETTER"}
             /\ retry[i].key \in TicketKeys /\ retry[i].attempts \in Nat /\ retry[i].due \in Nat
  /\ circuit.state \in {"CLOSED", "OPEN", "HALF_OPEN"} /\ circuit.failures \in 0..Threshold
  /\ lostProbe \in BOOLEAN /\ lostClaims \subseteq Issues

\* A half-open circuit lets nobody through, and a retry that is PROCESSING is claimed by nobody:
\* each is in the hands of exactly one caller that will record what becomes of it, unless that
\* caller has died, could not record it, or met a link with another payload.
HeldUntilRecorded ==
  /\ circuit.state = "HALF_OPEN" => lostProbe \/ \E c \in Callers : caller[c].probe
  /\ \A i \in Issues : retry[i].status = "PROCESSING" =>
       \/ i \in lostClaims
       \/ \E c \in Callers : HasClaim(c, i) /\ \A other \in Callers \ {c} : ~HasClaim(other, i)

\* The queue gives a delivery max_attempts calls, however often its claim was given back;
\* only what has been delivered is COMPLETED, and with the payload that was queued.
DeferredDeliveries ==
  \A i \in Issues : retry[i] # NoRetry =>
    /\ retry[i].attempts <= MaxTries
    /\ retry[i].status = "PENDING" => retry[i].attempts < MaxTries
    /\ retry[i].status = "COMPLETED" =>
         link[i] \in ticket[i] /\ Payload[link[i]] = Payload[retry[i].key]
=============================================================================
