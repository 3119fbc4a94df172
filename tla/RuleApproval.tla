---------------------------- MODULE RuleApproval -----------------------------
(***************************************************************************)
(* A quality rule, its versions and the approval of critical ones:         *)
(* RuleService over PostgreSQLRuleRepository.                              *)
(*                                                                         *)
(* Every command reads what it needs in transactions of their own and      *)
(* writes in one more; what others do in between is not locked out.  Only  *)
(* the writes of an approval request compare the status they expect: the   *)
(* update of a rule's status does not.                                     *)
(***************************************************************************)
EXTENDS Naturals, Sequences

CONSTANTS
  RuleRequests,   \* identifiers of approval requests
  RuleCommands,   \* the commands under way at a time
  Stewards,       \* actors; each may make, and the Deciders among them may check
  Deciders,
  MaxVersions     \* bound on the versions of the rule

ASSUME RuleAssumption ==
  /\ Deciders \subseteq Stewards /\ "none" \notin Stewards
  /\ MaxVersions \in Nat \ {0}

VARIABLES
  ruleStatus,     \* the row of quality_rules
  versions,       \* the rows of rule_versions, by version_no
  passed,         \* versions with a successful test result
  lastPassed,     \* versions whose latest test result is successful
  ruleRequest,    \* the rows of rule_approval_requests
  overdue,        \* requests whose expires_at has come
  ruleCommand     \* where each command is, and what it has read

ruleVars == <<ruleStatus, versions, passed, lastPassed, ruleRequest, overdue, ruleCommand>>

Versions == 1..MaxVersions
RuleStatuses == {"DRAFT", "ACTIVE", "PASSIVE"}
RequestStatuses == {"PENDING", "APPROVED", "REJECTED", "WITHDRAWN", "EXPIRED"}

Version == [critical : BOOLEAN, preparer : Stewards]
RequestRow == [version : Versions, maker : Stewards, status : RequestStatuses,
               checker : Stewards \cup {"none"}]
NoRequest == [status |-> "none"]
NoCommand == [step |-> "none"]

\* create_rule
RuleInit ==
  /\ ruleStatus = "DRAFT"
  /\ \E v \in Version : versions = <<v>>
  /\ passed = {} /\ lastPassed = {}
  /\ ruleRequest = [r \in RuleRequests |-> NoRequest]
  /\ overdue = {}
  /\ ruleCommand = [c \in RuleCommands |-> NoCommand]

Latest == Len(versions)

StartsWith(c, step) ==
  /\ ruleCommand[c] = NoCommand
  /\ ruleCommand' = [ruleCommand EXCEPT ![c] = step]
  /\ UNCHANGED <<ruleStatus, versions, passed, lastPassed, ruleRequest, overdue>>

Finishes(c, step) ==
  /\ ruleCommand[c].step = step
  /\ ruleCommand' = [ruleCommand EXCEPT ![c] = NoCommand]

-----------------------------------------------------------------------------
(* Versions and tests *)

CreateVersionRead(c, u, critical) ==
  /\ Latest < MaxVersions
  /\ StartsWith(c, [step |-> "version", number |-> Latest + 1,
                    row |-> [critical |-> critical, preparer |-> u]])

\* uq_rule_versions_rule_version_seq
CreateVersion(c) ==
  /\ Finishes(c, "version")
  /\ versions' = IF ruleCommand[c].number = Latest + 1 THEN Append(versions, ruleCommand[c].row)
                 ELSE versions
  /\ UNCHANGED <<ruleStatus, passed, lastPassed, ruleRequest, overdue>>

\* Any version of the rule may be tested, whatever the rule's status.
TestRule(v, succeeds) ==
  /\ v \in 1..Latest
  /\ passed' = IF succeeds THEN passed \cup {v} ELSE passed
  /\ lastPassed' = IF succeeds THEN lastPassed \cup {v} ELSE lastPassed \ {v}
  /\ UNCHANGED <<ruleStatus, versions, ruleRequest, overdue, ruleCommand>>

-----------------------------------------------------------------------------
(* The status of the rule *)

ActivateRead(c) ==
  /\ ruleStatus = "DRAFT" /\ Latest \in lastPassed
  /\ ~versions[Latest].critical
  /\ StartsWith(c, [step |-> "status", to |-> "ACTIVE"])

PassivateRead(c) ==
  /\ ruleStatus = "ACTIVE"
  /\ StartsWith(c, [step |-> "status", to |-> "PASSIVE"])

\* The row is updated by its key.
UpdateRuleStatus(c) ==
  /\ Finishes(c, "status")
  /\ ruleStatus' = ruleCommand[c].to
  /\ UNCHANGED <<versions, passed, lastPassed, ruleRequest, overdue>>

-----------------------------------------------------------------------------
(* Approval requests *)

UnusedRequest(r) ==
  /\ ruleRequest[r] = NoRequest
  /\ \A c \in RuleCommands : ruleCommand[c].step = "request" => ruleCommand[c].request # r

RequestRead(c, r, u) ==
  /\ UnusedRequest(r)
  /\ ruleStatus = "DRAFT" /\ Latest \in lastPassed
  /\ versions[Latest].critical /\ versions[Latest].preparer = u
  /\ StartsWith(c, [step |-> "request", request |-> r,
                    row |-> [version |-> Latest, maker |-> u, status |-> "PENDING",
                             checker |-> "none"]])

\* ux_dq_rule_approval_pending_version: one pending request for a version.
HasPending(v) ==
  \E r \in RuleRequests : ruleRequest[r].status = "PENDING" /\ ruleRequest[r].version = v

AddRequest(c) ==
  /\ Finishes(c, "request")
  /\ ruleRequest' = IF HasPending(ruleCommand[c].row.version) THEN ruleRequest
                    ELSE [ruleRequest EXCEPT ![ruleCommand[c].request] = ruleCommand[c].row]
  /\ UNCHANGED <<ruleStatus, versions, passed, lastPassed, overdue>>

Open(r) == ruleRequest[r].status = "PENDING" /\ r \notin overdue

DecideRead(c, r, u, verdict) ==
  /\ Open(r) /\ ruleRequest[r].version = Latest
  /\ ruleRequest[r].maker # u /\ versions[Latest].preparer # u
  /\ StartsWith(c, [step |-> "decide", request |-> r, by |-> u, to |-> verdict])

WithdrawRead(c, r, u) ==
  /\ Open(r) /\ ruleRequest[r].maker = u
  /\ StartsWith(c, [step |-> "decide", request |-> r, by |-> "none", to |-> "WITHDRAWN"])

\* decide_approval_request and withdraw_approval_request: an approval activates the rule in
\* the same transaction, which is rolled back when the rule is not a draft any more.
CloseRequest(c) ==
  /\ Finishes(c, "decide")
  /\ LET d == ruleCommand[c]
     IN IF ruleRequest[d.request].status = "PENDING" /\ (d.to = "APPROVED" => ruleStatus = "DRAFT")
        THEN /\ ruleRequest' = [ruleRequest EXCEPT ![d.request].status = d.to,
                                                   ![d.request].checker = d.by]
             /\ ruleStatus' = IF d.to = "APPROVED" THEN "ACTIVE" ELSE ruleStatus
        ELSE UNCHANGED <<ruleRequest, ruleStatus>>
  /\ UNCHANGED <<versions, passed, lastPassed, overdue>>

\* Time passes.
BecomesOverdue(r) ==
  /\ ruleRequest[r] # NoRequest /\ r \notin overdue
  /\ overdue' = overdue \cup {r}
  /\ UNCHANGED <<ruleStatus, versions, passed, lastPassed, ruleRequest, ruleCommand>>

DueRequests == {r \in overdue : ruleRequest[r].status = "PENDING"}

ExpireRead(c) ==
  /\ DueRequests # {}
  /\ StartsWith(c, [step |-> "expire", left |-> DueRequests])

\* One transaction for each request; one that somebody closed meanwhile ends the sweep.
ExpireNext(c, r) ==
  /\ ruleCommand[c].step = "expire" /\ r \in ruleCommand[c].left
  /\ LET left == ruleCommand[c].left \ {r}
     IN IF ruleRequest[r].status = "PENDING"
        THEN /\ ruleRequest' = [ruleRequest EXCEPT ![r].status = "EXPIRED"]
             /\ ruleCommand' = [ruleCommand EXCEPT ![c] = IF left = {} THEN NoCommand
                                                         ELSE [step |-> "expire", left |-> left]]
        ELSE /\ ruleCommand' = [ruleCommand EXCEPT ![c] = NoCommand]
             /\ UNCHANGED ruleRequest
  /\ UNCHANGED <<ruleStatus, versions, passed, lastPassed, overdue>>

\* The process dies, or the database cannot be reached.
DropCommand(c) ==
  /\ ruleCommand[c] # NoCommand
  /\ ruleCommand' = [ruleCommand EXCEPT ![c] = NoCommand]
  /\ UNCHANGED <<ruleStatus, versions, passed, lastPassed, ruleRequest, overdue>>

RuleCommand(c) ==
  \/ CreateVersion(c) \/ ActivateRead(c) \/ PassivateRead(c) \/ UpdateRuleStatus(c)
  \/ AddRequest(c) \/ CloseRequest(c) \/ ExpireRead(c) \/ DropCommand(c)
  \/ \E u \in Stewards, critical \in BOOLEAN : CreateVersionRead(c, u, critical)
  \/ \E r \in RuleRequests :
       \/ ExpireNext(c, r)
       \/ \E u \in Stewards : RequestRead(c, r, u) \/ WithdrawRead(c, r, u)
       \/ \E u \in Deciders, verdict \in {"APPROVED", "REJECTED"} : DecideRead(c, r, u, verdict)

RuleNext ==
  \/ \E c \in RuleCommands : RuleCommand(c)
  \/ \E v \in Versions, succeeds \in BOOLEAN : TestRule(v, succeeds)
  \/ \E r \in RuleRequests : BecomesOverdue(r)

RuleSpec == RuleInit /\ [][RuleNext]_ruleVars

-----------------------------------------------------------------------------
(* Properties *)

RuleTypeOK ==
  /\ ruleStatus \in RuleStatuses
  /\ versions \in Seq(Version) /\ Len(versions) \in Versions
  /\ lastPassed \subseteq passed /\ passed \subseteq 1..Latest
  /\ \A r \in RuleRequests : ruleRequest[r] # NoRequest =>
       ruleRequest[r] \in RequestRow /\ ruleRequest[r].version <= Latest
  /\ overdue \subseteq RuleRequests
  /\ \A c \in RuleCommands : ruleCommand[c].step \in
       {"none", "version", "status", "request", "decide", "expire"}

\* The second pair of eyes: the version was approved by somebody who neither prepared it nor
\* asked for the approval.
Approved(v) ==
  \E r \in RuleRequests :
    /\ ruleRequest[r].status = "APPROVED" /\ ruleRequest[r].version = v
    /\ ruleRequest[r].checker \notin {"none", ruleRequest[r].maker, versions[v].preparer}

\* A rule that has left DRAFT has a version that passed a test and was either not critical or
\* approved by a second person, whatever versions, tests and commands came in between.
ActivationWasCleared ==
  ruleStatus # "DRAFT" => \E v \in passed : ~versions[v].critical \/ Approved(v)

\* A request is closed once, and approving it is the same step as activating a draft: no
\* request stays approved without effect, and none is decided after it has been withdrawn or
\* has expired.
ApprovalActivates ==
  [][\A r \in RuleRequests : ruleRequest[r] # NoRequest /\ ruleRequest'[r] # ruleRequest[r] =>
       /\ ruleRequest[r].status = "PENDING"
       /\ ruleRequest'[r].status = "APPROVED" => ruleStatus = "DRAFT" /\ ruleStatus' = "ACTIVE"]_ruleVars
=============================================================================
