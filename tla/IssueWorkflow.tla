----------------------------- MODULE IssueWorkflow -----------------------------
(***************************************************************************)
(* The life of one data quality issue: IssueService over                   *)
(* PostgreSQLIssueRepository.                                              *)
(*                                                                         *)
(* A command reads its clock and the issue, judges what it read, reads the *)
(* latest resolution or verification if it has to, and writes in a         *)
(* transaction of its own; other commands and triggers fall in between.    *)
(* The write of a command names the version it read, except that of        *)
(* record_verification_result, which names the status only.  A trigger is  *)
(* one transaction under a lock.                                           *)
(*                                                                         *)
(* Access to the scope, evidence and the texts of a resolution are left    *)
(* out: a user here may see the issue.  The issue is raised by a QUALITY   *)
(* trigger, always with the same payload.                                  *)
(***************************************************************************)
EXTENDS Naturals, Sequences

CONSTANTS
  Requests,                               \* the commands under way at a time
  Users, Assigners, Resolvers, Verifiers, \* Verifiers are _CLOSER_ROLES as well
  MaxLag,                                 \* how far a clock reading may be behind
  MaxTime, MaxVersion, MaxOccurrences     \* bounds of the model

ASSUME UsersAssumption ==
  /\ Assigners \cup Resolvers \cup Verifiers \subseteq Users
  /\ MaxLag \in Nat /\ MaxTime \in Nat \ {0} /\ MaxVersion \in Nat
  /\ MaxOccurrences \in Nat

VARIABLES
  now,
  issue,   \* the row of data_quality_issues
  log,     \* the rows of resolutions and verifications, in their order
  pending  \* what each request is about to do

issueVars == <<now, issue, log, pending>>

Statuses == {"ASSIGNED", "INVESTIGATING", "WAITING_FOR_RESOLUTION", "RESOLVED",
             "VERIFIED", "CLOSED"}

Issue == [status : Statuses, assignee : Users, occurrences : Nat, version : Nat, updated : Nat]

Conclusive == {"passed", "failed"}

Record == [kind : {"resolution", "error"} \cup Conclusive, by : Users, at : Nat]

Request == [op : {"start", "reassign", "resolve", "verify", "close"},
            step : {"check", "write"}, by : Users, at : Nat, seen : Issue,
            target : Statuses, assignee : Users, completed : Nat]

Quiet == [step |-> "none"]

\* create_for_trigger, create_manual
IssueInit ==
  /\ now = 1
  /\ \E u \in Users :
       issue = [status |-> "ASSIGNED", assignee |-> u, occurrences |-> 1,
                version |-> 1, updated |-> 1]
  /\ log = <<>>
  /\ pending = [c \in Requests |-> Quiet]

Tick ==
  /\ now < MaxTime
  /\ now' = now + 1
  /\ UNCHANGED <<issue, log, pending>>

\* The instants a request may have read from its clock.
Readings == {t \in 1..now : now - t <= MaxLag}

-----------------------------------------------------------------------------
(* What a command reads, and the guards on it *)

Command(op, u, at, target) ==
  [op |-> op, step |-> "write", by |-> u, at |-> at, seen |-> issue, target |-> target,
   assignee |-> issue.assignee, completed |-> 0]

Send(c, r) ==
  /\ pending[c] = Quiet
  /\ pending' = [pending EXCEPT ![c] = r]
  /\ UNCHANGED <<now, issue, log>>

StartInvestigation(c, u, at) ==
  /\ issue.assignee = u /\ issue.status = "ASSIGNED"
  /\ Send(c, Command("start", u, at, "INVESTIGATING"))

\* The assignee, the priority or both change.
Reassign(c, u, to, at) ==
  /\ u \in Assigners
  /\ issue.status \in {"ASSIGNED", "INVESTIGATING"}
  /\ Send(c, [Command("reassign", u, at, "ASSIGNED") EXCEPT !.assignee = to])

\* Mutant: any resolver may resolve.
Resolve_AnyUser(c, u, at) ==
  /\ u \in Resolvers
  /\ issue.status \in {"INVESTIGATING", "WAITING_FOR_RESOLUTION"}
  /\ Send(c, Command("resolve", u, at, "RESOLVED"))

Resolve(c, u, at) ==
  /\ u \in Resolvers /\ issue.assignee = u
  /\ issue.status \in {"INVESTIGATING", "WAITING_FOR_RESOLUTION"}
  /\ Send(c, Command("resolve", u, at, "RESOLVED"))

\* The status that follows from an outcome: PARTIAL counts as QUALITY_FAILED.
Verdict(target) ==
  CASE target = "VERIFIED"               -> "passed"
    [] target = "RESOLVED"               -> "error"
    [] target = "WAITING_FOR_RESOLUTION" -> "failed"

\* Mutant: a check of the data that has not been completed is accepted.
RecordVerification_Future(c, u, at) ==
  /\ u \in Verifiers /\ issue.status = "RESOLVED"
  /\ \E target \in {"VERIFIED", "RESOLVED", "WAITING_FOR_RESOLUTION"},
        completed \in issue.updated..MaxTime :
       Send(c, [Command("verify", u, at, target) EXCEPT
                  !.completed = completed,
                  !.step = IF target = "VERIFIED" THEN "check" ELSE "write"])

RecordVerification(c, u, at) ==
  /\ u \in Verifiers /\ issue.status = "RESOLVED"
  /\ \E target \in {"VERIFIED", "RESOLVED", "WAITING_FOR_RESOLUTION"},
        completed \in issue.updated..at :
       Send(c, [Command("verify", u, at, target) EXCEPT
                  !.completed = completed,
                  !.step = IF target = "VERIFIED" THEN "check" ELSE "write"])

Close(c, u, at) ==
  /\ u \in Verifiers /\ issue.status = "VERIFIED"
  /\ Send(c, [Command("close", u, at, "CLOSED") EXCEPT !.step = "check"])

\* _latest: the last of the first n rows that is of one of these kinds
IsLast(k, kinds, n) ==
  /\ k \in 1..n /\ log[k].kind \in kinds
  /\ \A l \in k + 1..n : log[l].kind \notin kinds

\* Who resolved an issue does not verify it; only a verified one is closed.
Passes(r) ==
  \E k \in DOMAIN log :
    IF r.op = "verify"
    THEN IsLast(k, {"resolution"}, Len(log)) /\ log[k].by # r.by
    ELSE IsLast(k, {"error"} \cup Conclusive, Len(log)) /\ log[k].kind = "passed"

Check(c) ==
  /\ pending[c] # Quiet /\ pending[c].step = "check"
  /\ pending' = [pending EXCEPT ![c] = IF Passes(@) THEN [@ EXCEPT !.step = "write"] ELSE Quiet]
  /\ UNCHANGED <<now, issue, log>>

-----------------------------------------------------------------------------
(* The transactions that write *)

\* The WHERE of the UPDATE: a request whose row is gone raises a conflict.
Matches(r) ==
  IF r.op = "verify"
  THEN issue.status = "RESOLVED"
  ELSE /\ issue.version = r.seen.version
       /\ issue.status = r.seen.status
       /\ issue.assignee = r.seen.assignee

Stored(r) ==
  issue' = [issue EXCEPT !.status = r.target, !.version = @ + 1, !.updated = r.at,
                         !.assignee = IF r.op = "verify" THEN @ ELSE r.assignee]

Written(r) ==
  CASE r.op = "resolve" -> Append(log, [kind |-> "resolution", by |-> r.by, at |-> r.at])
    [] r.op = "verify"  -> Append(log, [kind |-> Verdict(r.target), by |-> r.by,
                                        at |-> r.completed])
    [] OTHER            -> log

Write(c) ==
  /\ pending[c] # Quiet /\ pending[c].step = "write"
  /\ issue.version < MaxVersion
  /\ IF Matches(pending[c]) THEN Stored(pending[c]) /\ log' = Written(pending[c])
                            ELSE UNCHANGED <<issue, log>>
  /\ pending' = [pending EXCEPT ![c] = Quiet]
  /\ now' = now

\* Mutant: a repeated failure leaves the version alone.
Repeated_SameVersion(r) == [r EXCEPT !.occurrences = @ + 1]

Repeated(r) == [r EXCEPT !.occurrences = @ + 1, !.version = @ + 1]

\* add_or_increment with an issue that exists: a failure that occurred since the
\* issue was closed opens it again.
Trigger(at) ==
  /\ issue.version < MaxVersion /\ issue.occurrences < MaxOccurrences
  /\ \E occurred \in 1..at :
       issue' = LET r == Repeated(issue) IN
                CASE issue.status # "CLOSED" -> [r EXCEPT !.updated = at]
                  [] issue.status = "CLOSED" /\ occurred >= issue.updated ->
                       [r EXCEPT !.updated = at, !.status = "WAITING_FOR_RESOLUTION"]
                  [] OTHER -> r
  /\ UNCHANGED <<now, log, pending>>

IssueNext ==
  \/ Tick
  \/ \E c \in Requests : Check(c) \/ Write(c)
  \/ \E at \in Readings :
       \/ Trigger(at)
       \/ \E c \in Requests, u \in Users :
            \/ StartInvestigation(c, u, at) \/ Resolve(c, u, at)
            \/ RecordVerification(c, u, at) \/ Close(c, u, at)
            \/ \E to \in Users : Reassign(c, u, to, at)

IssueSpec == IssueInit /\ [][IssueNext]_issueVars

-----------------------------------------------------------------------------
(* Properties *)

\* Every variable has its type, and nothing is dated later than the present.
IssueTypeOK ==
  /\ now \in 1..MaxTime
  /\ issue \in Issue /\ issue.updated <= now
  /\ log \in Seq(Record) /\ \A i \in DOMAIN log : log[i].at <= now
  /\ \A c \in Requests : pending[c] \in Request \cup {Quiet}

\* Four eyes: no resolution is verified by the user who made it, although
\* record_verification_result looks at the resolution before it writes and its
\* write names no version.  This rests on reassign refusing an issue that has been
\* resolved: all resolutions of an issue have one creator.
FourEyes ==
  \A i \in DOMAIN log : log[i].kind = "passed" =>
    /\ \E k \in 1..i : log[k].kind = "resolution"
    /\ \A k \in 1..i : IsLast(k, {"resolution"}, i) => log[k].by # log[i].by

\* Of verifications that race, one is recorded: each resolution passes or fails
\* once, and a failed one has to be followed by a new resolution.
OneVerdictPerResolution ==
  \A i, j \in DOMAIN log :
    i < j /\ log[i].kind \in Conclusive /\ log[j].kind \in Conclusive =>
      \E k \in i + 1..j : log[k].kind = "resolution"

\* A command that names a version takes effect only on the very row its guards
\* have judged: whatever a command or a trigger changed since is not overwritten.
GuardsStillHold ==
  [][\A c \in Requests :
       /\ pending[c] # Quiet /\ pending[c].op # "verify"
       /\ pending'[c] = Quiet /\ issue' # issue
       => issue = pending[c].seen]_issueVars

\* "Verification completion is outside the resolved lifetime."
\* (record_verification_result): a resolution passes by a check of the data that
\* was completed after it was made.
VerificationIsCurrent ==
  \A i \in DOMAIN log : log[i].kind = "passed" =>
    \A k \in 1..i : log[k].kind = "resolution" => log[i].at >= log[k].at
=============================================================================
