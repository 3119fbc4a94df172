--------------------------- MODULE GovernanceApproval ---------------------------
(***************************************************************************)
(* Requests that need a second person: GovernanceApprovalCommandService    *)
(* over PostgreSQLGovernanceApprovalRepository and the writers that carry  *)
(* a decision out.                                                         *)
(*                                                                         *)
(* A command reads the request, then what the request is about, and writes *)
(* in transactions of their own.  apply_request has two of them: the       *)
(* writer changes the target, and then the request becomes APPLIED.  A     *)
(* process may die, or lose its connection, between any two.               *)
(*                                                                         *)
(* Requests are about objects.  Those about different objects meet in one  *)
(* place, the version of the dataset, and a change of that is a step of    *)
(* its own here; so there is one object, of a type chosen at the start.    *)
(* "owner" stands for the three types that update a dataset or a field by  *)
(* version (ownership, critical metadata, sensitivity), which differ in    *)
(* the columns only.  expires_at is never set: no request expires.         *)
(***************************************************************************)
EXTENDS Naturals

CONSTANTS
  Approvals,        \* identifiers of requests
  Commands,         \* the commands under way at a time
  Makers, Checkers, \* actors with a role in maker_roles, in checker_roles
  Owners,           \* values of the governed column
  ApprovalTypes,    \* the types in use, a subset of RequestTypes
  MaxDataset        \* bound on the version of the dataset

RequestTypes == {"owner", "diff", "start", "cancel", "letter", "schedule"}

ASSUME GovernanceAssumption ==
  /\ ApprovalTypes \subseteq RequestTypes
  /\ MaxDataset \in Nat
  /\ "none" \notin Makers \cup Checkers

VARIABLES
  approval,   \* the rows of governance_approval_requests
  command,    \* where each command is, and what it has read
  type,       \* what the requests ask for
  object,     \* value and version of what they are about, where they are about something
  dataset,    \* version of the dataset
  created,    \* requests whose execution or schedule has been stored
  strayJobs,  \* requests for which a job was stored without an execution
  approver,   \* history: who approved a request
  effects     \* history: how often a request has changed its target

targets == <<object, dataset, created, strayJobs, effects>>
governanceVars == <<approval, command, type, approver, targets>>

Decided == {"APPROVED", "REJECTED", "WITHDRAWN", "INVALIDATED"}
Closed  == {"REJECTED", "WITHDRAWN", "INVALIDATED", "APPLIED", "APPLICATION_FAILED"}

ApprovalStatuses == {"SUBMITTED", "APPROVED"} \cup Closed

Actors == Makers \cup Checkers

\* The values an object of each type goes through.
ExecutionEnded == {"ENDED", "CANCELLED"}

Values ==
  [owner  |-> Owners,
   diff   |-> {"PENDING", "APPLIED", "REJECTED"},
   cancel |-> {"QUEUED", "RUNNING", "CANCEL_REQUESTED"} \cup ExecutionEnded,
   letter |-> {"OPEN", "REPROCESSED"},
   start  |-> {"none"}, schedule |-> {"none"}]

First ==
  [owner |-> Owners, diff |-> {"PENDING"}, cancel |-> {"QUEUED"}, letter |-> {"OPEN"},
   start |-> {"none"}, schedule |-> {"none"}]

\* "basis" is scope_version, or the version of the dataset in dataset_versions; "before" and
\* "after" are what change_summary holds.
ApprovalRow ==
  [status : ApprovalStatuses, maker : Makers, basis : Nat, before : UNION {Values[t] : t \in RequestTypes},
   objectBasis : Nat, after : Owners \cup {"none"}, version : Nat]

NoRow == [status |-> "none"]
Free  == [step |-> "none"]

GovernanceInit ==
  /\ approval = [r \in Approvals |-> NoRow]
  /\ command = [c \in Commands |-> Free]
  /\ type \in ApprovalTypes
  /\ \E value \in First[type] : object = [value |-> value, version |-> 1]
  /\ dataset = 1
  /\ created = {} /\ strayJobs = {}
  /\ approver = [r \in Approvals |-> "none"]
  /\ effects = [r \in Approvals |-> 0]

-----------------------------------------------------------------------------
(* The maker *)

\* What the _prepare_..._request methods ask of the object.
OwnerAsked(after) == type = "owner" /\ after \in Owners \ {object.value}
DiffAsked     == type = "diff" /\ object.value = "PENDING"
StartAsked    == type = "start"
CancelAsked   == type = "cancel" /\ object.value \notin ExecutionEnded
LetterAsked   == type = "letter" /\ object.value = "OPEN"
ScheduleAsked == type = "schedule"

MayRequest(after) ==
  \/ OwnerAsked(after)
  \/ after = "none" /\ (DiffAsked \/ StartAsked \/ CancelAsked \/ LetterAsked \/ ScheduleAsked)

Unused(r) ==
  approval[r] = NoRow /\ \A c \in Commands : command[c] # Free => command[c].request # r

Begin(c, step) == command[c] = Free /\ command' = [command EXCEPT ![c] = step]
Continue(c, step) == command' = [command EXCEPT ![c] = step]
End(c) == command' = [command EXCEPT ![c] = Free]

SubmitRead(c, r, u, after) ==
  /\ Unused(r) /\ MayRequest(after)
  /\ Begin(c, [step |-> "insert", request |-> r,
               row |-> [status |-> "SUBMITTED", maker |-> u, basis |-> dataset,
                        before |-> object.value, objectBasis |-> object.version,
                        after |-> after, version |-> 1]])
  /\ UNCHANGED <<approval, type, approver, targets>>

\* ux_governance_approval_pending_object: one pending request of a type for an object.  A
\* request to start an execution names an object of its own.
PendingTwin == type # "start" /\ \E r \in Approvals : approval[r].status = "SUBMITTED"

SubmitInsert(c) ==
  /\ command[c].step = "insert"
  /\ approval' = IF PendingTwin THEN approval
                 ELSE [approval EXCEPT ![command[c].request] = command[c].row]
  /\ End(c)
  /\ UNCHANGED <<type, approver, targets>>

-----------------------------------------------------------------------------
(* The transition of a row, compared with what the command read *)

Reads(c, r, u, step, to) ==
  /\ approval[r] # NoRow
  /\ Begin(c, [step |-> step, request |-> r, row |-> approval[r], by |-> u, to |-> to])
  /\ UNCHANGED <<approval, type, approver, targets>>

\* Mutant: the row is updated by its key.
Transition_ByKey(c) ==
  /\ command[c].step = "write"
  /\ LET r == command[c].request  to == command[c].to
     IN /\ approval' = [approval EXCEPT ![r].status = to, ![r].version = @ + 1]
        /\ approver' = IF to = "APPROVED" THEN [approver EXCEPT ![r] = command[c].by] ELSE approver
  /\ End(c)
  /\ UNCHANGED <<type, targets>>

Transition(c) ==
  /\ command[c].step = "write"
  /\ LET r == command[c].request  to == command[c].to
     IN IF approval[r].status = command[c].row.status
           /\ approval[r].version = command[c].row.version
        THEN /\ approval' = [approval EXCEPT ![r].status = to, ![r].version = @ + 1]
             /\ approver' = IF to = "APPROVED" THEN [approver EXCEPT ![r] = command[c].by]
                            ELSE approver
        ELSE UNCHANGED <<approval, approver>>
  /\ End(c)
  /\ UNCHANGED <<type, targets>>

-----------------------------------------------------------------------------
(* The checker, and the maker who withdraws *)

Decide(c, r, u, verdict) ==
  /\ approval[r].status = "SUBMITTED" /\ approval[r].maker # u
  /\ Reads(c, r, u, "check", verdict)

\* _assert_object_unchanged
Unchanged(row) ==
  /\ row.basis = dataset
  /\ row.before = object.value
  /\ type = "diff" => row.objectBasis = object.version

DecideCheck(c) ==
  /\ command[c].step = "check"
  /\ Continue(c, [command[c] EXCEPT !.step = "write",
                    !.to = IF Unchanged(command[c].row) THEN @ ELSE "INVALIDATED"])
  /\ UNCHANGED <<approval, type, approver, targets>>

Withdraw(c, r, u) ==
  /\ approval[r].status = "SUBMITTED" /\ approval[r].maker = u
  /\ Reads(c, r, u, "write", "WITHDRAWN")

-----------------------------------------------------------------------------
(* The applier *)

ApplyRead(c, r, u) ==
  /\ approval[r].status = "APPROVED"
  /\ Reads(c, r, u, "apply", "APPLIED")

Applying(c, t) == command[c].step = "apply" /\ type = t
Changing(c, t) == command[c].step = "change" /\ type = t

Goes(c, step, to) ==
  /\ Continue(c, [command[c] EXCEPT !.step = step, !.to = to])
  /\ UNCHANGED <<approval, type, approver>>

Effect(c) == effects' = [effects EXCEPT ![command[c].request] = @ + 1]

\* The value is there, by whomever, and the version is a later one.
OwnerRead(c) ==
  /\ Applying(c, "owner")
  /\ Goes(c, IF object.value = command[c].row.after /\ dataset > command[c].row.basis
             THEN "write" ELSE "change", "APPLIED")
  /\ UNCHANGED targets

\* Mutant: the dataset is updated whatever its version.
OwnerChange_AnyVersion(c) ==
  /\ Changing(c, "owner")
  /\ object' = [object EXCEPT !.value = command[c].row.after]
  /\ dataset' = dataset + 1
  /\ Effect(c) /\ Goes(c, "write", "APPLIED")
  /\ UNCHANGED <<created, strayJobs>>

OwnerChange(c) ==
  /\ Changing(c, "owner")
  /\ IF dataset = command[c].row.basis
     THEN /\ object' = [object EXCEPT !.value = command[c].row.after]
          /\ dataset' = dataset + 1
          /\ Effect(c) /\ Goes(c, "write", "APPLIED")
     ELSE Goes(c, "write", "APPLICATION_FAILED") /\ UNCHANGED <<object, dataset, effects>>
  /\ UNCHANGED <<created, strayJobs>>

PendingAsRead(row) == object.value = "PENDING" /\ object.version = row.objectBasis

DiffRead(c) ==
  /\ Applying(c, "diff")
  /\ CASE object.value = "APPLIED"       -> Goes(c, "write", "APPLIED")
       [] PendingAsRead(command[c].row)  -> Goes(c, "change", "APPLIED")
       [] OTHER                          -> Goes(c, "write", "INVALIDATED")
  /\ UNCHANGED targets

DiffChange(c) ==
  /\ Changing(c, "diff")
  /\ IF PendingAsRead(command[c].row)
     THEN /\ object' = [value |-> "APPLIED", version |-> object.version + 1]
          /\ Effect(c) /\ Goes(c, "write", "APPLIED")
     ELSE Goes(c, "write", "APPLICATION_FAILED") /\ UNCHANGED <<object, effects>>
  /\ UNCHANGED <<dataset, created, strayJobs>>

\* start_manual under the key of the request: create_or_get finds the execution of an
\* earlier call, but the job is stored under the identifier that was drawn for this one.
StartExecution(c) ==
  /\ Applying(c, "start")
  /\ LET r == command[c].request
     IN IF r \in created THEN strayJobs' = strayJobs \cup {r} /\ UNCHANGED <<created, effects>>
        ELSE created' = created \cup {r} /\ Effect(c) /\ UNCHANGED strayJobs
  /\ Goes(c, "write", "APPLIED")
  /\ UNCHANGED <<object, dataset>>

\* A rule of the request is not active any more, or not its latest version: refused before
\* anything is stored.
StartRefused(c) ==
  /\ Applying(c, "start")
  /\ Goes(c, "write", "APPLICATION_FAILED")
  /\ UNCHANGED targets

CancelExecution(c) ==
  /\ Applying(c, "cancel")
  /\ IF object.value \in ExecutionEnded
     THEN Goes(c, "write", "APPLICATION_FAILED") /\ UNCHANGED <<object, effects>>
     ELSE /\ Goes(c, "write", "APPLIED")
          /\ object' = [object EXCEPT !.value = IF @ = "QUEUED" THEN "CANCELLED"
                                                ELSE "CANCEL_REQUESTED"]
          /\ IF object.value = "CANCEL_REQUESTED" THEN UNCHANGED effects ELSE Effect(c)
  /\ UNCHANGED <<dataset, created, strayJobs>>

\* A conflict is a JobConflictError here, which nobody catches: the command ends.
ReprocessLetter(c) ==
  /\ Applying(c, "letter")
  /\ IF object.value = "OPEN"
     THEN /\ object' = [object EXCEPT !.value = "REPROCESSED"]
          /\ Effect(c) /\ Goes(c, "write", "APPLIED")
     ELSE End(c) /\ UNCHANGED <<approval, type, approver, object, effects>>
  /\ UNCHANGED <<dataset, created, strayJobs>>

ScheduleRead(c) ==
  /\ Applying(c, "schedule")
  /\ Goes(c, IF command[c].request \in created THEN "write" ELSE "change", "APPLIED")
  /\ UNCHANGED targets

\* The insert under the identifier of the proposal fails when it is there already.
ScheduleCreate(c) ==
  /\ Changing(c, "schedule")
  /\ LET r == command[c].request
     IN IF r \in created
        THEN Goes(c, "write", "APPLICATION_FAILED") /\ UNCHANGED <<created, effects>>
        ELSE created' = created \cup {r} /\ Effect(c) /\ Goes(c, "write", "APPLIED")
  /\ UNCHANGED <<object, dataset, strayJobs>>

-----------------------------------------------------------------------------
(* Others, and failures *)

\* The process dies or the database cannot be reached: what was committed stays.
Abandon(c) ==
  /\ command[c] # Free
  /\ End(c)
  /\ UNCHANGED <<approval, type, approver, targets>>

\* A column that is not governed is edited, or a request about another object is applied.
EditDataset ==
  /\ dataset < MaxDataset
  /\ dataset' = dataset + 1
  /\ UNCHANGED <<approval, command, type, approver, object, created, strayJobs, effects>>

\* What happens to the object without a request: a diff is applied or turned down, an
\* execution proceeds, a dead letter is reprocessed.
Follows(value) ==
  CASE type = "diff" /\ value = "PENDING"              -> {"APPLIED", "REJECTED"}
    [] type = "letter" /\ value = "OPEN"               -> {"REPROCESSED"}
    [] type = "cancel" /\ value = "QUEUED"             -> {"RUNNING"}
    [] type = "cancel" /\ value = "RUNNING"            -> {"ENDED"}
    [] type = "cancel" /\ value = "CANCEL_REQUESTED"   -> {"CANCELLED"}
    [] OTHER                                           -> {}

ObjectChanges ==
  /\ \E value \in Follows(object.value) :
       object' = [value |-> value, version |-> object.version + 1]
  /\ UNCHANGED <<approval, command, type, approver, dataset, created, strayJobs, effects>>

Requesting(c) ==
  \E r \in Approvals :
    \/ \E u \in Makers, after \in Owners \cup {"none"} : SubmitRead(c, r, u, after)
    \/ \E u \in Makers : Withdraw(c, r, u)
    \/ \E u \in Checkers, verdict \in {"APPROVED", "REJECTED"} : Decide(c, r, u, verdict)
    \/ \E u \in Actors : ApplyRead(c, r, u)

Applier(c) ==
  \/ OwnerRead(c) \/ OwnerChange(c) \/ DiffRead(c) \/ DiffChange(c)
  \/ StartExecution(c) \/ StartRefused(c) \/ CancelExecution(c) \/ ReprocessLetter(c)
  \/ ScheduleRead(c) \/ ScheduleCreate(c)

GovernanceNext ==
  \/ \E c \in Commands :
       \/ Requesting(c) \/ SubmitInsert(c) \/ DecideCheck(c) \/ Transition(c)
       \/ Applier(c) \/ Abandon(c)
  \/ EditDataset \/ ObjectChanges

GovernanceSpec == GovernanceInit /\ [][GovernanceNext]_governanceVars

-----------------------------------------------------------------------------
(* Properties *)

GovernanceTypeOK ==
  /\ \A r \in Approvals : approval[r] = NoRow \/ approval[r] \in ApprovalRow
  /\ \A c \in Commands : command[c] # Free =>
       /\ command[c].step \in {"insert", "check", "apply", "change", "write"}
       /\ command[c].request \in Approvals /\ command[c].row \in ApprovalRow
  /\ type \in ApprovalTypes
  /\ object \in [value : Values[type], version : Nat]
  /\ dataset \in Nat
  /\ created \subseteq Approvals /\ strayJobs \subseteq created
  /\ approver \in [Approvals -> Actors \cup {"none"}]
  /\ effects \in [Approvals -> Nat]

\* Whatever a request has changed was approved before, by somebody other than its maker, and
\* the request still says so: it is APPROVED, or its application has ended one way or the
\* other.
ChangesAreApproved ==
  \A r \in Approvals : effects[r] > 0 =>
    /\ approver[r] # "none" /\ approver[r] # approval[r].maker
    /\ approval[r].status \in {"APPROVED", "APPLIED", "APPLICATION_FAILED"}

\* However often a request is applied, by several appliers at once or again after a crash, its
\* target is changed by it at most once.
ChangedOnce == \A r \in Approvals : effects[r] <= 1

\* A decision stands: a command that read a request before it was decided or applied does not
\* overwrite that.
DecisionsStand ==
  [][\A r \in Approvals : approval[r] # NoRow /\ approval'[r].status # approval[r].status =>
       \/ /\ approval[r].status = "SUBMITTED"
          /\ approval'[r].status \in Decided
       \/ /\ approval[r].status = "APPROVED"
          /\ approval'[r].status \in {"APPLIED", "APPLICATION_FAILED", "INVALIDATED"}]_governanceVars
=============================================================================
