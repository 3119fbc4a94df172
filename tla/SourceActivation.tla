--------------------------- MODULE SourceActivation ---------------------------
(***************************************************************************)
(* A data source: its connection tests, the revisions of its connection,   *)
(* and the requests to activate or deactivate it.  DataSourceService over  *)
(* PostgreSQLDataSourceRepository.                                         *)
(*                                                                         *)
(* A command reads, may talk to the source for a while, and writes in a    *)
(* transaction of its own.  The transaction of a connection test reads the *)
(* status and updates it by the key of the source; the others compare what *)
(* they rely on.                                                           *)
(***************************************************************************)
EXTENDS Naturals

CONSTANTS
  SourceRequests,  \* identifiers of activation and deactivation requests
  SourceCommands,  \* the commands under way at a time
  SourceMakers, SourceCheckers,
  MaxRevision      \* bound on the revisions of the connection

ASSUME SourceAssumption ==
  MaxRevision \in Nat \ {0} /\ "none" \notin SourceMakers \cup SourceCheckers

VARIABLES
  source,         \* status and revision of the row of data_sources
  lastTest,       \* the test last_test_at is of: its revision and whether it succeeded
  tested,         \* revisions with a successful row in connection_tests
  revisions,      \* the rows of connection_revisions: status and base
  sourceRequest,  \* the rows of data_source_activation_requests
  lapsed,         \* activation requests whose expires_at has come
  sourceCommand   \* where each command is, and what it has read

sourceVars == <<source, lastTest, tested, revisions, sourceRequest, lapsed, sourceCommand>>

Revisions == 1..MaxRevision
SourceStatuses == {"TEST_PENDING", "TEST_SUCCEEDED", "TEST_FAILED", "ACTIVE", "INACTIVE"}
RevisionStatuses == {"none", "PENDING_TEST", "TEST_FAILED", "PROMOTED"}
SourceRequestRow ==
  [kind : {"ACTIVATION", "DEACTIVATION"}, revision : Revisions, maker : SourceMakers,
   checker : SourceCheckers \cup {"none"},
   status : {"PENDING", "APPROVED", "REJECTED", "WITHDRAWN", "EXPIRED", "INVALIDATED"}]

NoSourceRequest == [status |-> "none"]
IdleCommand     == [step |-> "none"]
NoRevision      == [status |-> "none", base |-> 1]

\* create_data_source: the connection it was created with is revision 1.
SourceInit ==
  /\ source = [status |-> "TEST_PENDING", revision |-> 1]
  /\ lastTest = [revision |-> 1, ok |-> FALSE]
  /\ tested = {}
  /\ revisions = [n \in Revisions |-> IF n = 1 THEN [status |-> "PROMOTED", base |-> 1]
                                      ELSE NoRevision]
  /\ sourceRequest = [r \in SourceRequests |-> NoSourceRequest]
  /\ lapsed = {}
  /\ sourceCommand = [c \in SourceCommands |-> IdleCommand]

Opens(c, step) ==
  /\ sourceCommand[c] = IdleCommand
  /\ sourceCommand' = [sourceCommand EXCEPT ![c] = step]
  /\ UNCHANGED <<source, lastTest, tested, revisions, sourceRequest, lapsed>>

Commits(c, step) ==
  /\ sourceCommand[c].step = step
  /\ sourceCommand' = [sourceCommand EXCEPT ![c] = IdleCommand]

-----------------------------------------------------------------------------
(* Connection tests *)

\* The connector answers for the revision that was read.
TestConnection(c, ok) == Opens(c, [step |-> "tested", revision |-> source.revision, ok |-> ok])

TestOutcome(ok, status) ==
  CASE ~ok               -> "TEST_FAILED"
    [] ok /\ status = "ACTIVE" -> "ACTIVE"
    [] OTHER             -> "TEST_SUCCEEDED"

\* update_connection_test begins: the new status is computed from the one in the row.
TestReadsStatus(c) ==
  /\ sourceCommand[c].step = "tested"
  /\ sourceCommand' = [sourceCommand EXCEPT ![c] =
       [step |-> "record", revision |-> @.revision, ok |-> @.ok, found |-> source.status,
        status |-> TestOutcome(@.ok, source.status)]]
  /\ UNCHANGED <<source, lastTest, tested, revisions, sourceRequest, lapsed>>

\* The row is updated by its key, whatever its status and revision are by now.
RecordTest(c) ==
  /\ Commits(c, "record")
  /\ LET t == sourceCommand[c]
     IN /\ source' = [source EXCEPT !.status = t.status]
        /\ lastTest' = [revision |-> t.revision, ok |-> t.ok]
        /\ tested' = IF t.ok THEN tested \cup {t.revision} ELSE tested
  /\ UNCHANGED <<revisions, sourceRequest, lapsed>>

-----------------------------------------------------------------------------
(* Revisions of the connection *)

NextRevision == CHOOSE n \in 1..(MaxRevision + 1) :
                  \A m \in Revisions : (revisions[m].status # "none") <=> (m < n)

CreateRevisionRead(c) ==
  /\ NextRevision \in Revisions
  /\ \A n \in Revisions : revisions[n].status # "PENDING_TEST"
  /\ Opens(c, [step |-> "revision", number |-> NextRevision, base |-> source.revision])

\* uq_ds_conn_revision_source_rev
AddRevision(c) ==
  /\ Commits(c, "revision")
  /\ LET n == sourceCommand[c].number
     IN revisions' = IF revisions[n].status # "none" THEN revisions
                     ELSE [revisions EXCEPT ![n] = [status |-> "PENDING_TEST",
                                                    base |-> sourceCommand[c].base]]
  /\ UNCHANGED <<source, lastTest, tested, sourceRequest, lapsed>>

Testable(n) == revisions[n].status \in {"PENDING_TEST", "TEST_FAILED"}

TestRevision(c, n, ok) ==
  /\ Testable(n) /\ revisions[n].base = source.revision
  /\ Opens(c, [step |-> "promote", number |-> n, ok |-> ok])

Invalidated(n) ==
  [r \in SourceRequests |->
     IF sourceRequest[r].status = "PENDING" /\ sourceRequest[r].revision # n
     THEN [sourceRequest[r] EXCEPT !.status = "INVALIDATED"] ELSE sourceRequest[r]]

\* Mutant: the connection is changed by a revision that failed its test too.
RecordRevisionTest_Failed(c) ==
  /\ Commits(c, "promote")
  /\ LET n == sourceCommand[c].number  ok == sourceCommand[c].ok
     IN IF Testable(n) /\ source.revision = revisions[n].base
        THEN /\ revisions' = [revisions EXCEPT ![n].status = "PROMOTED"]
             /\ tested' = IF ok THEN tested \cup {n} ELSE tested
             /\ source' = [status |-> "TEST_SUCCEEDED", revision |-> n]
             /\ lastTest' = [revision |-> n, ok |-> TRUE]
             /\ sourceRequest' = Invalidated(n)
        ELSE UNCHANGED <<source, lastTest, tested, revisions, sourceRequest>>
  /\ UNCHANGED lapsed

\* record_connection_revision_test: the revision is promoted, and the requests for others are
\* invalidated, in the same transaction.
RecordRevisionTest(c) ==
  /\ Commits(c, "promote")
  /\ LET n == sourceCommand[c].number  ok == sourceCommand[c].ok
     IN IF Testable(n) /\ (ok => source.revision = revisions[n].base)
        THEN /\ revisions' = [revisions EXCEPT ![n].status = IF ok THEN "PROMOTED" ELSE "TEST_FAILED"]
             /\ tested' = IF ok THEN tested \cup {n} ELSE tested
             /\ source' = IF ok THEN [status |-> "TEST_SUCCEEDED", revision |-> n] ELSE source
             /\ lastTest' = IF ok THEN [revision |-> n, ok |-> TRUE] ELSE lastTest
             /\ sourceRequest' = IF ok THEN Invalidated(n) ELSE sourceRequest
        ELSE UNCHANGED <<source, lastTest, tested, revisions, sourceRequest>>
  /\ UNCHANGED lapsed

-----------------------------------------------------------------------------
(* Requests *)

UnusedSourceRequest(r) ==
  /\ sourceRequest[r] = NoSourceRequest
  /\ \A c \in SourceCommands : sourceCommand[c].step = "request" => sourceCommand[c].request # r

RequestsFor(c, r, u, kind) ==
  /\ UnusedSourceRequest(r)
  /\ Opens(c, [step |-> "request", request |-> r,
               row |-> [kind |-> kind, revision |-> source.revision, maker |-> u,
                        checker |-> "none", status |-> "PENDING"]])

RequestActivation(c, r, u) ==
  /\ source.status \in {"TEST_SUCCEEDED", "INACTIVE"}
  /\ lastTest = [revision |-> source.revision, ok |-> TRUE]
  /\ RequestsFor(c, r, u, "ACTIVATION")

RequestDeactivation(c, r, u) == source.status = "ACTIVE" /\ RequestsFor(c, r, u, "DEACTIVATION")

\* uq_activation_requests_pending_source_revision, for both kinds together.
AddSourceRequest(c) ==
  /\ Commits(c, "request")
  /\ LET row == sourceCommand[c].row
     IN sourceRequest' =
          IF \E r \in SourceRequests : sourceRequest[r].status = "PENDING"
                                        /\ sourceRequest[r].revision = row.revision
          THEN sourceRequest ELSE [sourceRequest EXCEPT ![sourceCommand[c].request] = row]
  /\ UNCHANGED <<source, lastTest, tested, revisions, lapsed>>

MayDecide(r, u) ==
  /\ sourceRequest[r].status = "PENDING"
  /\ sourceRequest[r].revision = source.revision /\ sourceRequest[r].maker # u

\* decide_activation and decide_deactivation, "turns" saying which: neither looks at the kind
\* of the request, and only decide_activation whether it has expired.
DecideRequest(c, r, u, turns, verdict) ==
  /\ MayDecide(r, u)
  /\ turns = "ACTIVE" => r \notin lapsed
  /\ Opens(c, [step |-> "decide", request |-> r, by |-> u, turns |-> turns, to |-> verdict])

TurnsFrom(turns) == IF turns = "ACTIVE" THEN {"TEST_SUCCEEDED", "INACTIVE"} ELSE {"ACTIVE"}

\* An approval changes the source in the same transaction, if the source is still what the
\* request was for.
CommitDecision(c) ==
  /\ Commits(c, "decide")
  /\ LET d == sourceCommand[c]  r == d.request
     IN IF /\ sourceRequest[r].status = "PENDING"
           /\ d.to = "APPROVED" => /\ source.revision = sourceRequest[r].revision
                                   /\ source.status \in TurnsFrom(d.turns)
        THEN /\ sourceRequest' = [sourceRequest EXCEPT ![r].status = d.to, ![r].checker = d.by]
             /\ source' = IF d.to = "APPROVED" THEN [source EXCEPT !.status = d.turns] ELSE source
        ELSE UNCHANGED <<source, sourceRequest>>
  /\ UNCHANGED <<lastTest, tested, revisions, lapsed>>

\* withdraw_activation
WithdrawSource(c, r, u) ==
  /\ sourceRequest[r].status = "PENDING" /\ r \notin lapsed
  /\ sourceRequest[r].revision = source.revision /\ sourceRequest[r].maker = u
  /\ Opens(c, [step |-> "finish", request |-> r, to |-> "WITHDRAWN"])

\* expire_due_activations, for one of the requests it has listed
ExpireSource(c, r) ==
  /\ sourceRequest[r].status = "PENDING" /\ r \in lapsed
  /\ Opens(c, [step |-> "finish", request |-> r, to |-> "EXPIRED"])

FinishRequest(c) ==
  /\ Commits(c, "finish")
  /\ LET r == sourceCommand[c].request
     IN sourceRequest' = IF sourceRequest[r].status = "PENDING"
                         THEN [sourceRequest EXCEPT ![r].status = sourceCommand[c].to]
                         ELSE sourceRequest
  /\ UNCHANGED <<source, lastTest, tested, revisions, lapsed>>

Lapses(r) ==
  /\ sourceRequest[r] # NoSourceRequest /\ sourceRequest[r].kind = "ACTIVATION" /\ r \notin lapsed
  /\ lapsed' = lapsed \cup {r}
  /\ UNCHANGED <<source, lastTest, tested, revisions, sourceRequest, sourceCommand>>

DeactivateRead(c) ==
  source.status = "ACTIVE" /\ Opens(c, [step |-> "deactivate", revision |-> source.revision])

DeactivateSource(c) ==
  /\ Commits(c, "deactivate")
  /\ source' = IF source = [status |-> "ACTIVE", revision |-> sourceCommand[c].revision]
               THEN [source EXCEPT !.status = "INACTIVE"] ELSE source
  /\ UNCHANGED <<lastTest, tested, revisions, sourceRequest, lapsed>>

\* The process dies, or the database cannot be reached.
LoseCommand(c) ==
  /\ sourceCommand[c] # IdleCommand
  /\ sourceCommand' = [sourceCommand EXCEPT ![c] = IdleCommand]
  /\ UNCHANGED <<source, lastTest, tested, revisions, sourceRequest, lapsed>>

SourceCommand(c) ==
  \/ TestReadsStatus(c) \/ RecordTest(c) \/ CreateRevisionRead(c) \/ AddRevision(c)
  \/ RecordRevisionTest(c) \/ AddSourceRequest(c) \/ CommitDecision(c) \/ FinishRequest(c)
  \/ DeactivateRead(c) \/ DeactivateSource(c) \/ LoseCommand(c)
  \/ \E ok \in BOOLEAN : TestConnection(c, ok) \/ \E n \in Revisions : TestRevision(c, n, ok)
  \/ \E r \in SourceRequests :
       \/ \E u \in SourceMakers :
            RequestActivation(c, r, u) \/ RequestDeactivation(c, r, u) \/ WithdrawSource(c, r, u)
       \/ \E u \in SourceCheckers, turns \in {"ACTIVE", "INACTIVE"},
             verdict \in {"APPROVED", "REJECTED"} : DecideRequest(c, r, u, turns, verdict)
       \/ ExpireSource(c, r)

SourceNext ==
  \/ \E c \in SourceCommands : SourceCommand(c)
  \/ \E r \in SourceRequests : Lapses(r)

SourceSpec == SourceInit /\ [][SourceNext]_sourceVars

-----------------------------------------------------------------------------
(* Properties *)

SourceTypeOK ==
  /\ source \in [status : SourceStatuses, revision : Revisions]
  /\ lastTest \in [revision : Revisions, ok : BOOLEAN]
  /\ tested \subseteq Revisions
  /\ revisions \in [Revisions -> [status : RevisionStatuses, base : Revisions]]
  /\ \A r \in SourceRequests : sourceRequest[r] # NoSourceRequest => sourceRequest[r] \in SourceRequestRow
  /\ lapsed \subseteq SourceRequests
  /\ \A c \in SourceCommands : sourceCommand[c].step \in
       {"none", "tested", "record", "revision", "promote", "request", "decide", "finish", "deactivate"}

\* The connection that is in force while a source is active, or is waiting for approval after
\* a successful test, has passed a test: also when the test of an earlier revision is recorded
\* after a newer one was promoted.
ActiveConnectionPassed ==
  source.status \in {"ACTIVE", "TEST_SUCCEEDED"} => source.revision \in tested

\* A request is closed once, and one that is approved was decided by somebody other than its
\* maker and changes the source in the same step, in the revision that was asked for.
DecisionsAreEffective ==
  [][\A r \in SourceRequests : sourceRequest[r] # NoSourceRequest /\ sourceRequest'[r] # sourceRequest[r] =>
       /\ sourceRequest[r].status = "PENDING"
       /\ sourceRequest'[r].status = "APPROVED" =>
            /\ source'.status # source.status /\ source'.revision = sourceRequest[r].revision
            /\ sourceRequest'[r].checker # sourceRequest[r].maker]_sourceVars

\* A source becomes active by the approval of a request; or, the one way around it, by a test
\* that found it active, when it was deactivated between the two statements of the test.
ActivatedByRequest ==
  [][source.status # "ACTIVE" /\ source'.status = "ACTIVE" =>
       \/ \E r \in SourceRequests : sourceRequest[r].status = "PENDING"
                                    /\ sourceRequest'[r].status = "APPROVED"
       \/ \E c \in SourceCommands : sourceCommand[c].step = "record"
                                    /\ sourceCommand[c].found = "ACTIVE"]_sourceVars
=============================================================================
