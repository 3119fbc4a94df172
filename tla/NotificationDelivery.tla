------------------------- MODULE NotificationDelivery --------------------------
(***************************************************************************)
(* The attempts to deliver one notification: NotificationDeliveryService   *)
(* over notification_deliveries, called by the handler of a delivery job   *)
(* and by the retry queue, possibly at the same time.                      *)
(*                                                                         *)
(* Every transition names the status and the version the caller expects,   *)
(* and ends by reading the row again.  get_delivery opens a session of its *)
(* own, and the transaction that updated the row is committed only after   *)
(* the return: what the caller gets is the row as it was before.           *)
(***************************************************************************)
EXTENDS Naturals

CONSTANTS
  Callers,
  MaxRetryAttempts,       \* _MAX_RETRY_ATTEMPTS
  MaxVersion, MaxCrashes  \* bounds of the model

VARIABLES
  row,     \* the row of notification_deliveries
  pc,      \* where each call of attempt_delivery is
  held,    \* the row each caller holds
  answer,  \* what the channel's adapter answered
  crashes

vars == <<row, pc, held, answer, crashes>>

Statuses == {"PENDING", "SENDING", "DELIVERED", "FAILED", "UNDELIVERABLE", "READ"}

Row == [status : Statuses, attempts : Nat, version : Nat]

Answers == {"none", "sent", "temporary", "permanent"}

Init ==
  /\ row = [status |-> "PENDING", attempts |-> 0, version |-> 1]
  /\ pc = [c \in Callers |-> "idle"]
  /\ held = [c \in Callers |-> row]
  /\ answer = [c \in Callers |-> "none"]
  /\ crashes = 0

Goto(c, point) == pc' = [pc EXCEPT ![c] = point]

\* transition_delivery_status: the row after it, if the WHERE matches
Matches(status, version) == row.status = status /\ row.version = version
Moved(r, status) == [r EXCEPT !.status = status, !.version = @ + 1]

Load(c) ==
  /\ pc[c] = "idle" /\ row.status \in {"PENDING", "FAILED"}
  /\ held' = [held EXCEPT ![c] = row]
  /\ Goto(c, "begin")
  /\ UNCHANGED <<row, answer, crashes>>

\* To SENDING.  What is read before the commit is the row as it was.
Begin(c) ==
  /\ pc[c] = "begin"
  /\ IF Matches(held[c].status, held[c].version)
     THEN /\ row' = [Moved(row, "SENDING") EXCEPT !.attempts = held[c].attempts + 1]
          /\ held' = [held EXCEPT ![c] = row]
          /\ Goto(c, "deliver")
     ELSE Goto(c, "idle") /\ UNCHANGED <<row, held>>
  /\ UNCHANGED <<answer, crashes>>

\* The adapter; what it does not name is a temporary error.
Deliver(c) ==
  /\ pc[c] = "deliver"
  /\ \E a \in Answers \ {"none"} : answer' = [answer EXCEPT ![c] = a]
  /\ Goto(c, "record")
  /\ UNCHANGED <<row, held, crashes>>

GivesUp(c) ==
  \/ answer[c] = "permanent"
  \/ answer[c] = "temporary" /\ held[c].attempts >= MaxRetryAttempts

\* _handle_failure gives up with two transitions in one transaction, of which the
\* second names the version that the first one has raised: it is refused as well.
Accepted(c) == Matches("SENDING", held[c].version) /\ ~ GivesUp(c)

Recorded(c) == Moved(row, IF answer[c] = "sent" THEN "DELIVERED" ELSE "FAILED")

\* A transition that is refused raises, and the transaction is rolled back.
RecordOutcome(c) ==
  /\ pc[c] = "record" /\ row.version < MaxVersion
  /\ row' = IF Accepted(c) THEN Recorded(c) ELSE row
  /\ answer' = [answer EXCEPT ![c] = "none"]
  /\ Goto(c, "idle")
  /\ UNCHANGED <<held, crashes>>

\* mark_read, mark_all_read_for_recipient
MarkRead ==
  /\ row.status = "DELIVERED" /\ row.version < MaxVersion
  /\ row' = Moved(row, "READ")
  /\ UNCHANGED <<pc, held, answer, crashes>>

Crash(c) ==
  /\ pc[c] # "idle" /\ crashes < MaxCrashes
  /\ crashes' = crashes + 1
  /\ answer' = [answer EXCEPT ![c] = "none"]
  /\ Goto(c, "idle")
  /\ UNCHANGED <<row, held>>

Next ==
  \/ MarkRead
  \/ \E c \in Callers : Load(c) \/ Begin(c) \/ Deliver(c) \/ RecordOutcome(c) \/ Crash(c)

Spec == Init /\ [][Next]_vars

-----------------------------------------------------------------------------
(* Properties *)

\* "Basari -> DELIVERED, hata -> FAILED + retry plani" (attempt_delivery): as long
\* as no caller dies, the delivery is SENDING only while an attempt is under way;
\* afterwards its outcome is recorded, and a failed one can be tried again.
OutcomeIsRecorded ==
  crashes = 0 /\ row.status = "SENDING" => \E c \in Callers : pc[c] \in {"deliver", "record"}
=============================================================================
