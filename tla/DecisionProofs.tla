--------------------------- MODULE DecisionProofs ----------------------------
(***************************************************************************)
(* Lemmas about what two persons decide, for any number of users,          *)
(* commands, requests and rows: issues, governance requests, rules and     *)
(* scoring configurations keep an inductive invariant each.                *)
(*                                                                         *)
(* A command works on what it read in an earlier transaction: the          *)
(* invariant says of the row it carries either that the write will compare *)
(* it again (a version, a status), or that it records something no other   *)
(* command can take back.  ApprovalsProofs puts the parts together.        *)
(***************************************************************************)
EXTENDS IssueWorkflow, GovernanceApproval, RuleApproval, ScoringConfiguration,
        FiniteSetTheorems, TLAPS

-----------------------------------------------------------------------------
(* Issues *)

\* What a command carries from its read to its write.
RequestCarries(r) ==
  r # Quiet =>
    /\ r \in Request /\ r.at <= now /\ r.completed <= now
    /\ r.seen.version <= issue.version /\ (r.seen.version = issue.version => r.seen = issue)
    /\ r.op = "start" => r.seen.status = "ASSIGNED" /\ r.target = "INVESTIGATING"
    /\ r.op = "reassign" => r.seen.status \in {"ASSIGNED", "INVESTIGATING"} /\ r.target = "ASSIGNED"
    /\ r.op = "resolve" => /\ r.seen.status \in {"INVESTIGATING", "WAITING_FOR_RESOLUTION"}
                           /\ r.target = "RESOLVED" /\ r.by = r.seen.assignee
    /\ r.op = "verify" => r.target \in {"VERIFIED", "RESOLVED", "WAITING_FOR_RESOLUTION"}
    /\ r.op = "close" => r.seen.status = "VERIFIED" /\ r.target = "CLOSED"
    /\ r.op # "reassign" => r.assignee = r.seen.assignee

IssueTypes ==
  /\ now \in Nat /\ 1 <= now /\ now <= MaxTime
  /\ issue \in Issue /\ issue.updated <= now
  /\ log \in Seq(Record) /\ \A i \in DOMAIN log : log[i].at <= now
  /\ pending \in [Requests -> Request \cup {Quiet}]
  /\ \A c \in Requests : RequestCarries(pending[c])

\* Once an issue has been resolved nobody reassigns it: its assignee made all resolutions.
OneCreator ==
  \A k \in DOMAIN log : log[k].kind = "resolution" =>
    log[k].by = issue.assignee /\ issue.status \notin {"ASSIGNED", "INVESTIGATING"}

\* A resolution without a verdict is the last word on an issue that is RESOLVED.
AwaitsVerdict ==
  issue.status = "RESOLVED" =>
    \E k \in DOMAIN log : /\ log[k].kind = "resolution"
                          /\ \A l \in DOMAIN log : l > k => log[l].kind \notin Conclusive

\* Who is about to pass a resolution has looked at one of somebody else's.
CheckedByAnother ==
  \A c \in Requests :
    pending[c].step = "write" /\ pending[c].op = "verify" /\ pending[c].target = "VERIFIED" =>
      \E k \in DOMAIN log : log[k].kind = "resolution" /\ log[k].by # pending[c].by

IssueInv ==
  /\ IssueTypes /\ OneCreator /\ AwaitsVerdict /\ CheckedByAnother
  /\ FourEyes /\ OneVerdictPerResolution

LEMMA IssueInitInv == IssueInit => IssueInv
<1> SUFFICES ASSUME IssueInit PROVE IssueInv
  OBVIOUS
<1>1. PICK u \in Users : issue = [status |-> "ASSIGNED", assignee |-> u, occurrences |-> 1,
                                  version |-> 1, updated |-> 1]
  BY DEF IssueInit
<1>2. issue \in Issue /\ issue.status = "ASSIGNED" /\ issue.updated = 1
  BY <1>1 DEF Issue, Statuses
<1>3. now = 1 /\ log = <<>> /\ DOMAIN log = {} /\ pending = [c \in Requests |-> Quiet]
  BY DEF IssueInit
<1>4. IssueTypes
  BY <1>2, <1>3, UsersAssumption DEF IssueTypes, RequestCarries
<1>5. OneCreator /\ AwaitsVerdict /\ CheckedByAnother /\ FourEyes /\ OneVerdictPerResolution
  BY <1>2, <1>3 DEF OneCreator, AwaitsVerdict, CheckedByAnother, FourEyes, OneVerdictPerResolution,
     Quiet
<1> QED BY <1>4, <1>5 DEF IssueInv

LEMMA IssueTickInv == IssueInv /\ Tick => IssueInv'
<1> SUFFICES ASSUME IssueInv, Tick PROVE IssueInv'
  OBVIOUS
<1>1. now' = now + 1 /\ now < MaxTime /\ UNCHANGED <<issue, log, pending>>
  BY DEF Tick
<1>2. ASSUME NEW c \in Requests PROVE RequestCarries(pending[c])'
  <2>1. RequestCarries(pending[c]) /\ now \in Nat
    BY DEF IssueInv, IssueTypes
  <2>2. pending[c] # Quiet => pending[c].at \in Nat /\ pending[c].completed \in Nat
    BY <2>1 DEF RequestCarries, Request
  <2> QED BY <1>1, <2>1, <2>2 DEF RequestCarries
<1>3. \A i \in DOMAIN log : log[i].at \in Nat
  <2>1. log \in Seq(Record)
    BY DEF IssueInv, IssueTypes
  <2>2. \A i \in DOMAIN log : log[i] \in Record
    BY <2>1
  <2> QED BY <2>2 DEF Record
<1>4. issue.updated \in Nat
  BY DEF IssueInv, IssueTypes, Issue
<1>5. IssueTypes'
  BY <1>1, <1>2, <1>3, <1>4, UsersAssumption DEF IssueInv, IssueTypes
<1>6. OneCreator' /\ AwaitsVerdict' /\ CheckedByAnother'
  BY <1>1 DEF IssueInv, OneCreator, AwaitsVerdict, CheckedByAnother
<1>7. FourEyes' /\ OneVerdictPerResolution'
  BY <1>1 DEF IssueInv, FourEyes, OneVerdictPerResolution, IsLast
<1> QED BY <1>5, <1>6, <1>7 DEF IssueInv

\* Only what is pending changes, and nobody comes to pass a resolution but by a check.
LEMMA PendingMovesInv ==
  ASSUME IssueInv, NEW c \in Requests, NEW r, r = Quiet \/ (RequestCarries(r) /\ r \in Request),
         r.step = "write" /\ r.op = "verify" /\ r.target = "VERIFIED" =>
           \E k \in DOMAIN log : log[k].kind = "resolution" /\ log[k].by # r.by,
         pending' = [pending EXCEPT ![c] = r], UNCHANGED <<now, issue, log>>
  PROVE  IssueInv'
<1>1. pending'[c] = r /\ \A d \in Requests \ {c} : pending'[d] = pending[d]
  BY DEF IssueInv, IssueTypes
<1>2. pending' \in [Requests -> Request \cup {Quiet}]
  BY DEF IssueInv, IssueTypes
<1>3. \A d \in Requests : RequestCarries(pending[d])'
  <2>1. RequestCarries(Quiet)
    BY DEF RequestCarries
  <2>2. \A d \in Requests : RequestCarries(pending'[d])
    BY <1>1, <2>1 DEF IssueInv, IssueTypes
  <2> QED BY <2>2 DEF RequestCarries
<1>4. IssueTypes'
  BY <1>2, <1>3 DEF IssueInv, IssueTypes
<1>5. CheckedByAnother'
  BY <1>1 DEF IssueInv, CheckedByAnother
<1>6. OneCreator' /\ AwaitsVerdict' /\ FourEyes' /\ OneVerdictPerResolution'
  BY DEF IssueInv, OneCreator, AwaitsVerdict, FourEyes, OneVerdictPerResolution, IsLast
<1> QED BY <1>4, <1>5, <1>6 DEF IssueInv

\* A clock reading is of the past.
LEMMA ReadingIsPast ==
  ASSUME IssueInv, NEW at \in Readings
  PROVE  at \in Nat /\ 1 <= at /\ at <= now /\ at \in 1..now
BY DEF Readings, IssueInv, IssueTypes

LEMMA StartInvestigationInv ==
  ASSUME IssueInv, NEW c \in Requests, NEW u \in Users, NEW at \in Readings, StartInvestigation(c, u, at)
  PROVE  IssueInv'
<1>1. PICK r : r = Command("start", u, at, "INVESTIGATING")
  OBVIOUS
<1>2. issue \in Issue /\ now \in Nat /\ at \in Nat /\ at <= now
  BY ReadingIsPast DEF IssueInv, IssueTypes
<1>3. r \in Request /\ RequestCarries(r) /\ r.op = "start"
  BY <1>1, <1>2 DEF Command, Request, RequestCarries, StartInvestigation, Issue, Statuses
<1>4. pending' = [pending EXCEPT ![c] = r] /\ UNCHANGED <<now, issue, log>>
  BY <1>1 DEF StartInvestigation, Send
<1> QED BY <1>3, <1>4, PendingMovesInv, Zenon

LEMMA ReassignInv ==
  ASSUME IssueInv, NEW c \in Requests, NEW u \in Users, NEW to \in Users, NEW at \in Readings,
         Reassign(c, u, to, at)
  PROVE  IssueInv'
<1>1. PICK r : r = [Command("reassign", u, at, "ASSIGNED") EXCEPT !.assignee = to]
  BY Zenon
<1>2. issue \in Issue /\ now \in Nat /\ at \in Nat /\ at <= now
  BY ReadingIsPast DEF IssueInv, IssueTypes
<1>3. r \in Request /\ RequestCarries(r) /\ r.op = "reassign"
  BY <1>1, <1>2 DEF Command, Request, RequestCarries, Reassign, Issue, Statuses
<1>4. pending' = [pending EXCEPT ![c] = r] /\ UNCHANGED <<now, issue, log>>
  BY <1>1 DEF Reassign, Send
<1> QED BY <1>3, <1>4, PendingMovesInv, Zenon

LEMMA ResolveInv ==
  ASSUME IssueInv, NEW c \in Requests, NEW u \in Users, NEW at \in Readings, Resolve(c, u, at)
  PROVE  IssueInv'
<1>1. PICK r : r = Command("resolve", u, at, "RESOLVED")
  OBVIOUS
<1>2. issue \in Issue /\ now \in Nat /\ at \in Nat /\ at <= now
  BY ReadingIsPast DEF IssueInv, IssueTypes
<1>3. r \in Request /\ RequestCarries(r) /\ r.op = "resolve"
  BY <1>1, <1>2 DEF Command, Request, RequestCarries, Resolve, Issue, Statuses
<1>4. pending' = [pending EXCEPT ![c] = r] /\ UNCHANGED <<now, issue, log>>
  BY <1>1 DEF Resolve, Send
<1> QED BY <1>3, <1>4, PendingMovesInv, Zenon

LEMMA CloseInv ==
  ASSUME IssueInv, NEW c \in Requests, NEW u \in Users, NEW at \in Readings, Close(c, u, at)
  PROVE  IssueInv'
<1>1. PICK r : r = [Command("close", u, at, "CLOSED") EXCEPT !.step = "check"]
  BY Zenon
<1>2. issue \in Issue /\ now \in Nat /\ at \in Nat /\ at <= now
  BY ReadingIsPast DEF IssueInv, IssueTypes
<1>3. r \in Request /\ RequestCarries(r) /\ r.op = "close"
  BY <1>1, <1>2 DEF Command, Request, RequestCarries, Close, Issue, Statuses
<1>4. pending' = [pending EXCEPT ![c] = r] /\ UNCHANGED <<now, issue, log>>
  BY <1>1 DEF Close, Send
<1> QED BY <1>3, <1>4, PendingMovesInv, Zenon

LEMMA RecordVerificationInv ==
  ASSUME IssueInv, NEW c \in Requests, NEW u \in Users, NEW at \in Readings, RecordVerification(c, u, at)
  PROVE  IssueInv'
<1>1. issue \in Issue /\ now \in Nat /\ at \in Nat /\ at <= now
  BY ReadingIsPast DEF IssueInv, IssueTypes
<1>2. PICK target \in {"VERIFIED", "RESOLVED", "WAITING_FOR_RESOLUTION"}, completed \in issue.updated..at :
        Send(c, [Command("verify", u, at, target) EXCEPT
                   !.completed = completed, !.step = IF target = "VERIFIED" THEN "check" ELSE "write"])
  BY Zenon DEF RecordVerification
<1>3. completed \in Nat /\ completed <= now
  BY <1>1 DEF Issue
<1>4. PICK step : step = IF target = "VERIFIED" THEN "check" ELSE "write"
  OBVIOUS
<1>5. PICK q : q = Command("verify", u, at, target)
  OBVIOUS
<1>6. /\ q \in Request /\ q.op = "verify" /\ q.at = at /\ q.seen = issue /\ q.target = target
      /\ q.assignee = issue.assignee
  BY <1>1, <1>2, <1>5 DEF Command, Request, Statuses, Issue
<1>7. PICK r : r = [q EXCEPT !.completed = completed, !.step = step]
  OBVIOUS
<1>8. /\ r \in Request /\ r.op = "verify" /\ r.at = at /\ r.seen = issue /\ r.target = target
      /\ r.assignee = issue.assignee /\ r.completed = completed /\ r.step = step
  BY <1>3, <1>4, <1>6, <1>7, Zenon DEF Request
<1>9. issue.version \in Nat
  BY <1>1 DEF Issue
<1>10. RequestCarries(r)
  BY <1>1, <1>2, <1>3, <1>8, <1>9 DEF RequestCarries
<1>11. pending' = [pending EXCEPT ![c] = r] /\ UNCHANGED <<now, issue, log>>
  BY <1>2, <1>4, <1>5, <1>7 DEF Send
<1>12. r.target = "VERIFIED" => r.step = "check"
  BY <1>4, <1>8
<1> QED BY <1>8, <1>10, <1>11, <1>12, PendingMovesInv, Zenon

LEMMA CheckInv ==
  ASSUME IssueInv, NEW c \in Requests, Check(c)
  PROVE  IssueInv'
<1>1. pending[c] \in Request /\ RequestCarries(pending[c]) /\ UNCHANGED <<now, issue, log>>
  BY DEF Check, IssueInv, IssueTypes
<1>2. CASE ~Passes(pending[c])
  <2>1. PICK r : r = Quiet /\ pending' = [pending EXCEPT ![c] = r]
    BY <1>2, Zenon DEF Check
  <2>2. r.step # "write"
    BY <2>1 DEF Quiet
  <2> QED BY <1>1, <2>1, <2>2, PendingMovesInv, Zenon
<1>3. CASE Passes(pending[c])
  <2>1. PICK r : r = [pending[c] EXCEPT !.step = "write"]
    BY Zenon
  <2>2. pending' = [pending EXCEPT ![c] = r]
    BY <1>3, <2>1 DEF Check, IssueInv, IssueTypes
  <2>3. /\ r \in Request /\ r.op = pending[c].op /\ r.by = pending[c].by /\ r.at = pending[c].at
        /\ r.seen = pending[c].seen /\ r.target = pending[c].target
        /\ r.assignee = pending[c].assignee /\ r.completed = pending[c].completed
    BY <1>1, <2>1 DEF Request
  <2>4. pending[c] # Quiet
    BY DEF Check
  <2>5. RequestCarries(r)
    BY <1>1, <2>3, <2>4 DEF RequestCarries
  <2>6. r.op = "verify" => \E k \in DOMAIN log : log[k].kind = "resolution" /\ log[k].by # r.by
    BY <1>3, <2>3 DEF Passes, IsLast
  <2> QED BY <1>1, <2>2, <2>3, <2>5, <2>6, PendingMovesInv, Zenon
<1> QED BY <1>2, <1>3

-----------------------------------------------------------------------------
(* The writes *)

\* What a write or a trigger may do to the issue for the invariant to stay.
LEMMA StoredTypes ==
  ASSUME IssueTypes, issue' \in Issue, issue'.updated <= now, issue'.version = issue.version + 1,
         log' \in Seq(Record), \A i \in DOMAIN log' : log'[i].at <= now,
         pending' = pending \/ \E c \in Requests : pending' = [pending EXCEPT ![c] = Quiet],
         now' = now
  PROVE  IssueTypes'
<1>1. pending' \in [Requests -> Request \cup {Quiet}]
  BY DEF IssueTypes
<1>2. ASSUME NEW d \in Requests PROVE RequestCarries(pending[d])'
  <2>1. PICK r : r = pending'[d]
    OBVIOUS
  <2>5. r = Quiet \/ r = pending[d]
    BY <2>1 DEF IssueTypes
  <2>2. RequestCarries(pending[d]) /\ issue.version \in Nat
    BY DEF IssueTypes, Issue
  <2>3. pending[d] # Quiet => pending[d].seen.version \in Nat
    BY <2>2 DEF RequestCarries, Request, Issue
  <2>4. RequestCarries(r)'
    BY <2>2, <2>3, <2>5 DEF RequestCarries
  <2> QED BY <2>1, <2>4 DEF RequestCarries
<1> QED BY <1>1, <1>2 DEF IssueTypes

\* A write that finds its row gone changes nothing.
LEMMA ConflictInv ==
  ASSUME IssueInv, NEW c \in Requests, Write(c), ~Matches(pending[c])
  PROVE  IssueInv'
<1>1. PICK r : r = Quiet
  OBVIOUS
<1>2. r.step # "write"
  BY <1>1 DEF Quiet
<1>3. pending' = [pending EXCEPT ![c] = r] /\ UNCHANGED <<now, issue, log>>
  BY <1>1 DEF Write
<1> QED BY <1>1, <1>2, <1>3, PendingMovesInv, Zenon

\* What holds of the request that writes, and of the row it writes.
LEMMA WriterCarries ==
  ASSUME IssueInv, NEW c \in Requests, Write(c), Matches(pending[c])
  PROVE  /\ pending[c] \in Request /\ RequestCarries(pending[c])
         /\ issue \in Issue /\ issue.version \in Nat
         /\ pending[c].op # "verify" => issue = pending[c].seen
         /\ pending[c].op = "verify" =>
              /\ pending[c].target \in {"VERIFIED", "RESOLVED", "WAITING_FOR_RESOLUTION"}
              /\ issue.status = "RESOLVED"
         /\ issue' \in Issue /\ issue'.status = pending[c].target
         /\ issue'.version = issue.version + 1 /\ issue'.updated <= now
         /\ issue'.assignee = IF pending[c].op = "verify" THEN issue.assignee ELSE pending[c].assignee
         /\ log' = Written(pending[c]) /\ pending' = [pending EXCEPT ![c] = Quiet] /\ now' = now
<1>1. /\ pending[c] # Quiet /\ pending[c] \in Request /\ RequestCarries(pending[c])
      /\ issue \in Issue
  BY DEF IssueInv, IssueTypes, Write
<1>2. issue.version \in Nat
  BY <1>1 DEF Issue
<1>3. /\ pending[c].op # "verify" => issue = pending[c].seen
      /\ pending[c].op = "verify" =>
           /\ pending[c].target \in {"VERIFIED", "RESOLVED", "WAITING_FOR_RESOLUTION"}
           /\ issue.status = "RESOLVED"
  BY <1>1 DEF RequestCarries, Matches
<1>4. /\ log' = Written(pending[c]) /\ pending' = [pending EXCEPT ![c] = Quiet] /\ now' = now
      /\ Stored(pending[c])
  BY DEF Write
<1>5. PICK r : r = pending[c]
  OBVIOUS
<1>6. PICK u : u = IF r.op = "verify" THEN issue.assignee ELSE r.assignee
  OBVIOUS
<1>7. /\ r \in Request /\ r.target \in Statuses /\ r.at \in Nat /\ r.at <= now
      /\ r.assignee \in Users /\ u \in Users
  BY <1>1, <1>5, <1>6 DEF Request, RequestCarries, Issue
<1>8. issue' = [issue EXCEPT !.status = r.target, !.version = issue.version + 1, !.updated = r.at,
                             !.assignee = u]
  BY <1>1, <1>4, <1>5, <1>6 DEF Stored, Issue
<1>9. /\ issue'.status = r.target /\ issue'.version = issue.version + 1
      /\ issue'.updated = r.at /\ issue'.assignee = u
  BY <1>1, <1>8 DEF Issue
<1>10. issue' \in Issue
  <2>1. issue.version + 1 \in Nat
    BY <1>2
  <2> QED BY <1>1, <1>7, <1>8, <2>1, Zenon DEF Issue
<1> QED BY <1>1, <1>2, <1>3, <1>4, <1>5, <1>6, <1>7, <1>9, <1>10

\* A row more at the end of the log.
LEMMA LogGrows ==
  ASSUME IssueTypes, NEW row \in Record, row.at <= now, log' = Append(log, row)
  PROVE  /\ log' \in Seq(Record) /\ \A i \in DOMAIN log' : log'[i].at <= now
         /\ DOMAIN log = 1..Len(log) /\ Len(log) \in Nat
         /\ DOMAIN log' = 1..Len(log) + 1 /\ Len(log') = Len(log) + 1
         /\ \A i \in DOMAIN log : i \in DOMAIN log' /\ log'[i] = log[i]
         /\ log'[Len(log) + 1] = row
BY DEF IssueTypes

\* The rows before the new one are read as before.
LEMMA PrefixIsRead ==
  ASSUME NEW i \in DOMAIN log, DOMAIN log = 1..Len(log), Len(log) \in Nat,
         \A l \in DOMAIN log : log'[l] = log[l], FourEyes, log[i].kind = "passed"
  PROVE  /\ \E k \in 1..i : log'[k].kind = "resolution"
         /\ \A k \in 1..i : IsLast(k, {"resolution"}, i)' => log'[k].by # log'[i].by
<1>1. \A l \in 1..i : l \in DOMAIN log /\ log'[l] = log[l]
  OBVIOUS
<1>2. ASSUME NEW k \in 1..i, IsLast(k, {"resolution"}, i)' PROVE IsLast(k, {"resolution"}, i)
  <2>1. \A l \in k + 1..i : l \in 1..i
    OBVIOUS
  <2> QED BY <1>1, <1>2, <2>1 DEF IsLast
<1> QED BY <1>1, <1>2 DEF FourEyes

\* start_investigation, reassign and close: the log stays as it is.
LEMMA PlainWriteInv ==
  ASSUME IssueInv, NEW c \in Requests, Write(c), Matches(pending[c]),
         pending[c].op \in {"start", "reassign", "close"}
  PROVE  IssueInv'
<1>1. /\ RequestCarries(pending[c]) /\ pending[c] # Quiet /\ issue = pending[c].seen
      /\ issue' \in Issue /\ issue'.status = pending[c].target
      /\ issue'.version = issue.version + 1 /\ issue'.updated <= now
      /\ issue'.assignee = pending[c].assignee
      /\ log' = Written(pending[c]) /\ pending' = [pending EXCEPT ![c] = Quiet] /\ now' = now
  BY WriterCarries, Zenon DEF Write
<1>2. log' = log
  BY <1>1 DEF Written
<1>3. IssueTypes'
  BY <1>1, <1>2, StoredTypes, Zenon DEF IssueInv, IssueTypes
<1>4. issue'.status \in {"INVESTIGATING", "ASSIGNED", "CLOSED"}
  BY <1>1 DEF RequestCarries
<1>5. OneCreator'
  <2>1. CASE pending[c].op = "close"
    <3>1. issue'.assignee = issue.assignee /\ issue'.status = "CLOSED"
      BY <1>1, <2>1 DEF RequestCarries
    <3> QED BY <1>2, <3>1 DEF IssueInv, OneCreator
  <2>2. CASE pending[c].op # "close"
    <3>1. issue.status \in {"ASSIGNED", "INVESTIGATING"}
      BY <1>1, <2>2 DEF RequestCarries
    <3>2. \A k \in DOMAIN log : log[k].kind # "resolution"
      BY <3>1 DEF IssueInv, OneCreator
    <3> QED BY <1>2, <3>2 DEF OneCreator
  <2> QED BY <2>1, <2>2
<1>6. AwaitsVerdict'
  BY <1>4 DEF AwaitsVerdict
<1>7. CheckedByAnother'
  <2>1. \A d \in Requests : pending'[d] = Quiet \/ pending'[d] = pending[d]
    BY <1>1 DEF IssueInv, IssueTypes
  <2>2. Quiet.step # "write"
    BY DEF Quiet
  <2> QED BY <1>2, <2>1, <2>2 DEF IssueInv, CheckedByAnother
<1>8. FourEyes' /\ OneVerdictPerResolution'
  BY <1>2 DEF IssueInv, FourEyes, OneVerdictPerResolution, IsLast
<1> QED BY <1>3, <1>5, <1>6, <1>7, <1>8 DEF IssueInv

\* Who was about to pass a resolution keeps its grounds when the log grows.
LEMMA ChecksStand ==
  ASSUME IssueInv, NEW c \in Requests, pending' = [pending EXCEPT ![c] = Quiet],
         \A i \in DOMAIN log : i \in DOMAIN log' /\ log'[i] = log[i]
  PROVE  CheckedByAnother'
<1>1. \A d \in Requests : pending'[d] = Quiet \/ pending'[d] = pending[d]
  BY DEF IssueInv, IssueTypes
<1>2. Quiet.step # "write"
  BY DEF Quiet
<1> QED BY <1>1, <1>2 DEF IssueInv, CheckedByAnother

\* resolve_issue: the assignee of the row that was judged makes a resolution.
LEMMA ResolvedInv ==
  ASSUME IssueInv, NEW c \in Requests, Write(c), Matches(pending[c]), pending[c].op = "resolve"
  PROVE  IssueInv'
<1>1. /\ pending[c] \in Request /\ RequestCarries(pending[c]) /\ pending[c] # Quiet
      /\ issue = pending[c].seen /\ issue' \in Issue /\ issue'.status = pending[c].target
      /\ issue'.version = issue.version + 1 /\ issue'.updated <= now
      /\ issue'.assignee = pending[c].assignee
      /\ log' = Written(pending[c]) /\ pending' = [pending EXCEPT ![c] = Quiet] /\ now' = now
  BY WriterCarries, Zenon DEF Write
<1>2. PICK row : row = [kind |-> "resolution", by |-> pending[c].by, at |-> pending[c].at]
  BY Zenon
<1>3. row \in Record /\ row.at <= now /\ row.kind = "resolution" /\ row.by = issue.assignee
  BY <1>1, <1>2 DEF Record, Request, RequestCarries
<1>4. log' = Append(log, row)
  BY <1>1, <1>2 DEF Written
<1>5. /\ log' \in Seq(Record) /\ \A i \in DOMAIN log' : log'[i].at <= now
      /\ DOMAIN log = 1..Len(log) /\ Len(log) \in Nat
      /\ DOMAIN log' = 1..Len(log) + 1 /\ Len(log') = Len(log) + 1
      /\ \A i \in DOMAIN log : i \in DOMAIN log' /\ log'[i] = log[i]
      /\ log'[Len(log) + 1] = row
  BY <1>3, <1>4, LogGrows DEF IssueInv
<1>6. IssueTypes'
  BY <1>1, <1>5, StoredTypes, Zenon DEF IssueInv
<1>7. issue'.status = "RESOLVED" /\ issue'.assignee = issue.assignee
  BY <1>1 DEF RequestCarries
<1>8. OneCreator'
  BY <1>3, <1>5, <1>7 DEF IssueInv, OneCreator
<1>9. AwaitsVerdict'
  BY <1>3, <1>5 DEF AwaitsVerdict
<1>10. CheckedByAnother'
  BY <1>1, <1>5, ChecksStand, Zenon
<1>11. FourEyes'
  <2> SUFFICES ASSUME NEW i \in DOMAIN log', log'[i].kind = "passed"
               PROVE  /\ \E k \in 1..i : log'[k].kind = "resolution"
                      /\ \A k \in 1..i : IsLast(k, {"resolution"}, i)' => log'[k].by # log'[i].by
    BY DEF FourEyes
  <2>1. i \in DOMAIN log /\ log[i].kind = "passed"
    BY <1>3, <1>5
  <2> QED BY <2>1, <1>5, PrefixIsRead DEF IssueInv
<1>12. OneVerdictPerResolution'
  <2> SUFFICES ASSUME NEW i \in DOMAIN log', NEW j \in DOMAIN log', i < j,
                      log'[i].kind \in Conclusive, log'[j].kind \in Conclusive
               PROVE  \E l \in i + 1..j : log'[l].kind = "resolution"
    BY DEF OneVerdictPerResolution
  <2>1. i \in DOMAIN log /\ j \in DOMAIN log
    BY <1>3, <1>5 DEF Conclusive
  <2>2. PICK l \in i + 1..j : log[l].kind = "resolution"
    BY <1>5, <2>1 DEF IssueInv, OneVerdictPerResolution
  <2> QED BY <1>5, <2>1, <2>2
<1> QED BY <1>6, <1>8, <1>9, <1>10, <1>11, <1>12 DEF IssueInv

\* record_verification_result, by the status alone.
LEMMA VerifiedInv ==
  ASSUME IssueInv, NEW c \in Requests, Write(c), Matches(pending[c]), pending[c].op = "verify"
  PROVE  IssueInv'
<1>1. /\ pending[c] \in Request /\ RequestCarries(pending[c]) /\ pending[c] # Quiet
      /\ pending[c].target \in {"VERIFIED", "RESOLVED", "WAITING_FOR_RESOLUTION"}
      /\ issue.status = "RESOLVED" /\ issue' \in Issue /\ issue'.status = pending[c].target
      /\ issue'.version = issue.version + 1 /\ issue'.updated <= now
      /\ issue'.assignee = issue.assignee
      /\ log' = Written(pending[c]) /\ pending' = [pending EXCEPT ![c] = Quiet] /\ now' = now
  BY WriterCarries, Zenon DEF Write
<1>2. PICK row : row = [kind |-> Verdict(pending[c].target), by |-> pending[c].by,
                        at |-> pending[c].completed]
  BY Zenon
<1>3. /\ Verdict(pending[c].target) \in {"passed", "error", "failed"}
      /\ Verdict(pending[c].target) = "error" <=> pending[c].target = "RESOLVED"
      /\ Verdict(pending[c].target) = "passed" <=> pending[c].target = "VERIFIED"
  BY <1>1 DEF Verdict
<1>4. /\ row \in Record /\ row.at <= now /\ row.by = pending[c].by
      /\ row.kind \in {"passed", "error", "failed"}
      /\ row.kind = "error" <=> pending[c].target = "RESOLVED"
      /\ row.kind = "passed" <=> pending[c].target = "VERIFIED"
  BY <1>1, <1>2, <1>3 DEF Record, Request, RequestCarries, Conclusive
<1>5. log' = Append(log, row)
  BY <1>1, <1>2 DEF Written
<1>6. /\ log' \in Seq(Record) /\ \A i \in DOMAIN log' : log'[i].at <= now
      /\ DOMAIN log = 1..Len(log) /\ Len(log) \in Nat
      /\ DOMAIN log' = 1..Len(log) + 1 /\ Len(log') = Len(log) + 1
      /\ \A i \in DOMAIN log : i \in DOMAIN log' /\ log'[i] = log[i]
      /\ log'[Len(log) + 1] = row
  BY <1>4, <1>5, LogGrows DEF IssueInv
<1>7. IssueTypes'
  BY <1>1, <1>6, StoredTypes, Zenon DEF IssueInv
<1>8. OneCreator'
  BY <1>1, <1>4, <1>6 DEF IssueInv, OneCreator
<1>9. PICK k \in DOMAIN log : /\ log[k].kind = "resolution"
                              /\ \A l \in DOMAIN log : l > k => log[l].kind \notin Conclusive
  BY <1>1 DEF IssueInv, AwaitsVerdict
<1>10. AwaitsVerdict'
  <2> SUFFICES ASSUME issue'.status = "RESOLVED"
               PROVE  \A l \in DOMAIN log' : l > k => log'[l].kind \notin Conclusive
    BY <1>6, <1>9 DEF AwaitsVerdict
  <2>1. row.kind = "error" /\ "error" \notin Conclusive
    BY <1>1, <1>4 DEF Conclusive
  <2> QED BY <1>6, <1>9, <2>1
<1>11. CheckedByAnother'
  BY <1>1, <1>6, ChecksStand, Zenon
<1>12. FourEyes'
  <2> SUFFICES ASSUME NEW i \in DOMAIN log', log'[i].kind = "passed"
               PROVE  /\ \E l \in 1..i : log'[l].kind = "resolution"
                      /\ \A l \in 1..i : IsLast(l, {"resolution"}, i)' => log'[l].by # log'[i].by
    BY DEF FourEyes
  <2>1. CASE i \in DOMAIN log
    <3>1. log[i].kind = "passed"
      BY <1>6, <2>1
    <3> QED BY <1>6, <2>1, <3>1, PrefixIsRead DEF IssueInv
  <2>2. CASE i = Len(log) + 1
    <3>1. pending[c].target = "VERIFIED" /\ log'[i].by = pending[c].by
      BY <1>4, <1>6, <2>2
    <3>2. PICK j \in DOMAIN log : log[j].kind = "resolution" /\ log[j].by # pending[c].by
      BY <1>1, <3>1 DEF IssueInv, CheckedByAnother, Write
    <3>3. \A l \in DOMAIN log : log[l].kind = "resolution" => log[l].by # pending[c].by
      BY <3>2 DEF IssueInv, OneCreator
    <3>4. \A l \in 1..i : log'[l].kind = "resolution" => l \in DOMAIN log
      BY <1>4, <1>6, <2>2
    <3>5. \A l \in 1..i : IsLast(l, {"resolution"}, i)' => log'[l].kind = "resolution"
      BY DEF IsLast
    <3>6. k \in 1..i /\ log'[k].kind = "resolution"
      BY <1>6, <1>9, <2>2
    <3>7. \A l \in 1..i : IsLast(l, {"resolution"}, i)' => log'[l].by # log'[i].by
      BY <1>6, <3>1, <3>3, <3>4, <3>5
    <3> QED BY <3>6, <3>7
  <2> QED BY <1>6, <2>1, <2>2
<1>13. OneVerdictPerResolution'
  <2> SUFFICES ASSUME NEW i \in DOMAIN log', NEW j \in DOMAIN log', i < j,
                      log'[i].kind \in Conclusive, log'[j].kind \in Conclusive
               PROVE  \E l \in i + 1..j : log'[l].kind = "resolution"
    BY DEF OneVerdictPerResolution
  <2>1. CASE j \in DOMAIN log
    <3>1. i \in DOMAIN log /\ log[i].kind \in Conclusive /\ log[j].kind \in Conclusive
      BY <1>6, <2>1
    <3>2. PICK l \in i + 1..j : log[l].kind = "resolution"
      BY <2>1, <3>1 DEF IssueInv, OneVerdictPerResolution
    <3> QED BY <1>6, <2>1, <3>2
  <2>2. CASE j = Len(log) + 1
    <3>1. i \in DOMAIN log /\ log'[i] = log[i] /\ log'[k] = log[k]
      BY <1>6, <2>2
    <3>2. ~(i > k) /\ i # k
      BY <1>9, <3>1 DEF Conclusive
    <3> QED BY <1>6, <1>9, <2>2, <3>1, <3>2
  <2> QED BY <1>6, <2>1, <2>2
<1> QED BY <1>7, <1>8, <1>10, <1>11, <1>12, <1>13 DEF IssueInv

LEMMA WriteInv == ASSUME IssueInv, NEW c \in Requests, Write(c) PROVE IssueInv'
<1>1. pending[c].op \in {"start", "reassign", "resolve", "verify", "close"}
  BY DEF Write, IssueInv, IssueTypes, Request
<1> QED BY <1>1, ConflictInv, PlainWriteInv, ResolvedInv, VerifiedInv

\* A trigger moves a closed issue only.
LEMMA TriggerInv ==
  ASSUME IssueInv, NEW at \in Readings, Trigger(at)
  PROVE  IssueInv'
<1>1. at \in Nat /\ at <= now /\ issue \in Issue /\ issue.updated <= now
  BY ReadingIsPast DEF IssueInv, IssueTypes
<1>2. issue.version + 1 \in Nat /\ issue.occurrences + 1 \in Nat
  BY <1>1 DEF Issue
<1>3. PICK r : r = Repeated(issue)
  OBVIOUS
<1>4. /\ r \in Issue /\ r.version = issue.version + 1 /\ r.updated = issue.updated
      /\ r.status = issue.status /\ r.assignee = issue.assignee
  BY <1>1, <1>2, <1>3, Zenon DEF Repeated, Issue
<1>5. PICK occurred \in 1..at :
        issue' = CASE issue.status # "CLOSED" -> [r EXCEPT !.updated = at]
                   [] issue.status = "CLOSED" /\ occurred >= issue.updated ->
                        [r EXCEPT !.updated = at, !.status = "WAITING_FOR_RESOLUTION"]
                   [] OTHER -> r
  BY <1>3 DEF Trigger
<1>6. \/ issue' = [r EXCEPT !.updated = at]
      \/ issue.status = "CLOSED" /\ issue' = [r EXCEPT !.updated = at, !.status = "WAITING_FOR_RESOLUTION"]
      \/ issue' = r
  BY <1>5
<1>7. /\ issue' \in Issue /\ issue'.version = issue.version + 1 /\ issue'.updated <= now
      /\ issue'.assignee = issue.assignee
      /\ \/ issue'.status = issue.status
         \/ issue.status = "CLOSED" /\ issue'.status = "WAITING_FOR_RESOLUTION"
  BY <1>1, <1>4, <1>6, Zenon DEF Issue, Statuses
<1>8. UNCHANGED <<now, log, pending>>
  BY DEF Trigger
<1>9. IssueTypes'
  <2>1. log' \in Seq(Record) /\ \A i \in DOMAIN log' : log'[i].at <= now
    BY <1>8 DEF IssueInv, IssueTypes
  <2> QED BY <1>7, <1>8, <2>1, StoredTypes DEF IssueInv
<1>10. OneCreator' /\ AwaitsVerdict'
  BY <1>7, <1>8 DEF IssueInv, OneCreator, AwaitsVerdict
<1>11. CheckedByAnother' /\ FourEyes' /\ OneVerdictPerResolution'
  BY <1>8 DEF IssueInv, CheckedByAnother, FourEyes, OneVerdictPerResolution, IsLast
<1> QED BY <1>9, <1>10, <1>11 DEF IssueInv

LEMMA IssueNextInv == IssueInv /\ [IssueNext]_issueVars => IssueInv'
<1> SUFFICES ASSUME IssueInv, [IssueNext]_issueVars PROVE IssueInv'
  OBVIOUS
<1>1. CASE Tick
  BY <1>1, IssueTickInv
<1>2. ASSUME NEW c \in Requests, Check(c) \/ Write(c) PROVE IssueInv'
  BY <1>2, CheckInv, WriteInv
<1>3. ASSUME NEW at \in Readings, Trigger(at) PROVE IssueInv'
  BY <1>3, TriggerInv
<1>4. ASSUME NEW at \in Readings, NEW c \in Requests, NEW u \in Users,
             \/ StartInvestigation(c, u, at) \/ Resolve(c, u, at)
             \/ RecordVerification(c, u, at) \/ Close(c, u, at)
             \/ \E to \in Users : Reassign(c, u, to, at)
      PROVE IssueInv'
  BY <1>4, StartInvestigationInv, ResolveInv, RecordVerificationInv, CloseInv, ReassignInv
<1>5. CASE UNCHANGED issueVars
  BY <1>5 DEF issueVars, IssueInv, IssueTypes, RequestCarries, OneCreator, AwaitsVerdict,
              CheckedByAnother, FourEyes, OneVerdictPerResolution, IsLast
<1> QED BY <1>1, <1>2, <1>3, <1>4, <1>5 DEF IssueNext

LEMMA IssueInvSafe == IssueInv => IssueTypeOK /\ FourEyes /\ OneVerdictPerResolution
<1> SUFFICES ASSUME IssueInv PROVE IssueTypeOK
  BY DEF IssueInv
<1>1. now \in 1..MaxTime
  BY UsersAssumption DEF IssueInv, IssueTypes
<1> QED BY <1>1 DEF IssueInv, IssueTypes, IssueTypeOK

\* A command that names a version writes the row it has judged.
LEMMA GuardsStillHoldStep ==
  ASSUME IssueInv, [IssueNext]_issueVars, NEW c \in Requests,
         pending[c] # Quiet, pending[c].op # "verify", pending'[c] = Quiet, issue' # issue
  PROVE  issue = pending[c].seen
<1>1. ASSUME NEW d \in Requests, Write(d) PROVE issue = pending[c].seen
  <2>1. d = c
    BY <1>1 DEF Write, IssueInv, IssueTypes
  <2>2. Matches(pending[c])
    BY <1>1, <2>1 DEF Write
  <2> QED BY <1>1, <2>1, <2>2, WriterCarries
<1>2. ASSUME NEW at, Trigger(at) PROVE FALSE
  BY <1>2 DEF Trigger
<1>3. ASSUME NEW d \in Requests, Check(d) PROVE FALSE
  BY <1>3 DEF Check
<1>4. \E d \in Requests : Write(d)
  BY <1>2, <1>3, Zenon DEF IssueNext, issueVars, Tick, Send, StartInvestigation, Resolve,
                    RecordVerification, Close, Reassign
<1> QED BY <1>1, <1>4

-----------------------------------------------------------------------------
(* Governance requests *)

Insertion  == [step : {"insert"}, request : Approvals, row : ApprovalRow]
Outcomes == {"APPROVED", "REJECTED", "WITHDRAWN", "INVALIDATED", "APPLIED", "APPLICATION_FAILED"}
Procedure  == [step : {"check", "apply", "change", "write"}, request : Approvals, row : ApprovalRow,
               by : Actors, to : Outcomes]

\* What every row holds: a diff is asked for in its first version, an owner is named.
RowFits(row) ==
  /\ type = "diff" => row.objectBasis = 1
  /\ type = "owner" => row.after \in Owners

\* A second person approved the request.  It may be void since, for a diff that was turned down.
WasApproved(r) ==
  /\ approver[r] # "none" /\ approver[r] # approval[r].maker
  /\ \/ approval[r].status \in {"APPROVED", "APPLIED", "APPLICATION_FAILED"}
     \/ approval[r].status = "INVALIDATED" /\ type = "diff" /\ object.value = "REJECTED"

\* What a request that has changed its target leaves there; nothing of it permits another change.
Trace(r) ==
  /\ type = "owner" => dataset > approval[r].basis
  /\ type = "diff" => object.value = "APPLIED"
  /\ type \in {"start", "schedule"} => r \in created
  /\ type = "cancel" => object.value \in {"CANCEL_REQUESTED", "CANCELLED"}
  /\ type = "letter" => object.value = "REPROCESSED"

\* What a command carries from one transaction to the next.
InsertFits(m) ==
  m \in Insertion => approval[m.request] = NoRow /\ m.row.status = "SUBMITTED" /\ RowFits(m.row)

ProcedureFits(m) ==
  m \in Procedure =>
    /\ approval[m.request] \in ApprovalRow
    /\ m.row.maker = approval[m.request].maker /\ m.row.basis = approval[m.request].basis
    /\ RowFits(m.row)
    /\ m.row.status = "APPROVED" => WasApproved(m.request)
    /\ m.step = "check" => m.row.status = "SUBMITTED" /\ m.by # m.row.maker
                           /\ m.to \in {"APPROVED", "REJECTED"}
    /\ m.step \in {"apply", "change"} => m.row.status = "APPROVED"
    /\ m.step = "write" =>
         /\ m.to = "APPROVED" => m.by # m.row.maker
         /\ m.to \in {"APPROVED", "REJECTED", "WITHDRAWN"} => m.row.status = "SUBMITTED"
         /\ m.to \in {"APPLIED", "APPLICATION_FAILED"} => m.row.status = "APPROVED"
         /\ m.to = "INVALIDATED" =>
              \/ m.row.status = "SUBMITTED"
              \/ m.row.status = "APPROVED" /\ type = "diff" /\ object.value = "REJECTED"

GovernanceTypes ==
  /\ approval \in [Approvals -> ApprovalRow \cup {NoRow}]
  /\ command \in [Commands -> Insertion \cup Procedure \cup {Free}]
  /\ type \in ApprovalTypes
  /\ object \in [value : Values[type], version : Nat]
  /\ dataset \in Nat
  /\ created \subseteq Approvals /\ strayJobs \subseteq created
  /\ approver \in [Approvals -> Actors \cup {"none"}]
  /\ effects \in [Approvals -> Nat]
  /\ type = "diff" /\ object.value = "PENDING" => object.version = 1

CommandsFit == \A c \in Commands : InsertFits(command[c]) /\ ProcedureFits(command[c])

\* A request that is being inserted is in no other hands.
InsertedByOne ==
  \A c, d \in Commands :
    c # d /\ command[c] \in Insertion /\ command[d] # Free => command[c].request # command[d].request

RowsFit ==
  \A r \in Approvals : approval[r] # NoRow =>
    /\ RowFits(approval[r])
    /\ approval[r].status \in {"APPROVED", "APPLIED", "APPLICATION_FAILED"} => WasApproved(r)

EffectsTraced ==
  \A r \in Approvals : effects[r] > 0 => effects[r] = 1 /\ WasApproved(r) /\ Trace(r)

GovernanceInv ==
  GovernanceTypes /\ CommandsFit /\ InsertedByOne /\ RowsFit /\ EffectsTraced

\* The three shapes of a command tell each other apart.
LEMMA Shapes ==
  /\ \A m \in Insertion : m.step = "insert" /\ m # Free /\ m \notin Procedure
  /\ \A m \in Procedure : m.step # "insert" /\ m # Free /\ m \notin Insertion
  /\ Free.step = "none"
  /\ \A row \in ApprovalRow : row # NoRow /\ row.status # "none"
  /\ NoRow.status = "none"
<1>1. /\ \A m \in Insertion : m.step = "insert"
      /\ \A m \in Procedure : m.step \in {"check", "apply", "change", "write"}
      /\ Free.step = "none"
  BY DEF Insertion, Procedure, Free
<1>2. /\ \A row \in ApprovalRow : row.status \in ApprovalStatuses
      /\ NoRow.status = "none" /\ "none" \notin ApprovalStatuses
  BY DEF ApprovalRow, NoRow, ApprovalStatuses, Closed
<1> QED BY <1>1, <1>2

LEMMA GovernanceInitInv == GovernanceInit => GovernanceInv
<1> SUFFICES ASSUME GovernanceInit PROVE GovernanceInv
  OBVIOUS
<1>1. PICK value \in First[type] : object = [value |-> value, version |-> 1]
  BY DEF GovernanceInit
<1>2. type \in RequestTypes
  BY GovernanceAssumption DEF GovernanceInit
<1>3. value \in Values[type]
  BY <1>1, <1>2 DEF First, Values, RequestTypes
<1>4. GovernanceTypes
  BY <1>1, <1>3 DEF GovernanceInit, GovernanceTypes
<1>5. CommandsFit /\ InsertedByOne /\ RowsFit /\ EffectsTraced
  BY Shapes DEF GovernanceInit, CommandsFit, InsertFits, ProcedureFits, InsertedByOne, RowsFit,
     EffectsTraced
<1> QED BY <1>4, <1>5 DEF GovernanceInv

\* Everything but inserting, deciding and closing a request: what others hold stays true as long
\* as the targets keep their traces.
LEMMA TargetsMove ==
  ASSUME GovernanceInv, UNCHANGED <<approval, type, approver>>,
         object' \in [value : Values[type], version : Nat], dataset' \in Nat, dataset' >= dataset,
         created \subseteq created', created' \subseteq Approvals, strayJobs' \subseteq created',
         effects' \in [Approvals -> Nat],
         type = "diff" /\ object'.value = "PENDING" => object'.version = 1,
         type = "diff" /\ object.value = "REJECTED" => object'.value = "REJECTED",
         \A r \in Approvals : effects'[r] > 0 =>
           effects'[r] = 1 /\ Trace(r)' /\ (effects[r] > 0 \/ WasApproved(r)),
         \/ command' = command
         \/ \E c \in Commands : \E m \in Procedure \cup {Free} :
              command' = [command EXCEPT ![c] = m] /\ ProcedureFits(m)
  PROVE  GovernanceInv'
<1>1. command' \in [Commands -> Insertion \cup Procedure \cup {Free}]
  BY DEF GovernanceInv, GovernanceTypes
<1>2. GovernanceTypes'
  BY <1>1 DEF GovernanceInv, GovernanceTypes
<1>3. \A r \in Approvals : WasApproved(r) => WasApproved(r)'
  BY DEF WasApproved
<1>4. ASSUME NEW d \in Commands
      PROVE  \/ command'[d] = command[d]
             \/ command'[d] \in Procedure \cup {Free} /\ ProcedureFits(command'[d])
  BY DEF GovernanceInv, GovernanceTypes
<1>5. ASSUME NEW d \in Commands PROVE InsertFits(command[d])' /\ ProcedureFits(command[d])'
  <2>1. PICK m : m = command'[d]
    OBVIOUS
  <2>2. InsertFits(m) /\ ProcedureFits(m)
    BY <1>4, <2>1, Shapes DEF GovernanceInv, CommandsFit, InsertFits
  <2>3. InsertFits(m)'
    BY <2>2 DEF InsertFits, RowFits
  <2>4. m \in Procedure => m.request \in Approvals
    BY DEF Procedure
  <2>5. ProcedureFits(m)'
    BY <1>3, <2>2, <2>4 DEF ProcedureFits, RowFits
  <2> QED BY <2>1, <2>3, <2>5
<1>6. InsertedByOne'
  <2> SUFFICES ASSUME NEW x \in Commands, NEW y \in Commands, x # y, command'[x] \in Insertion,
                      command'[y] # Free
               PROVE  command'[x].request # command'[y].request
    BY DEF InsertedByOne
  <2>1. command'[x] = command[x] /\ InsertFits(command[x])
    BY <1>4, Shapes DEF GovernanceInv, CommandsFit
  <2>2. CASE command'[y] = command[y]
    BY <2>1, <2>2 DEF GovernanceInv, InsertedByOne
  <2>3. CASE command'[y] \in Procedure /\ ProcedureFits(command'[y])
    <3>1. approval[command'[x].request] = NoRow
      BY <2>1 DEF InsertFits
    <3>2. approval[command'[y].request] \in ApprovalRow
      BY <2>3 DEF ProcedureFits
    <3> QED BY <3>1, <3>2, Shapes
  <2> QED BY <1>4, <2>2, <2>3
<1>7. RowsFit'
  BY <1>3 DEF GovernanceInv, RowsFit, RowFits
<1>8. EffectsTraced'
  BY <1>3 DEF GovernanceInv, EffectsTraced
<1> QED BY <1>2, <1>5, <1>6, <1>7, <1>8 DEF GovernanceInv, CommandsFit

\* Only a command moves.
LEMMA CommandMoves ==
  ASSUME GovernanceInv, UNCHANGED <<approval, type, approver, targets>>,
         NEW c \in Commands, NEW m \in Procedure \cup {Free}, ProcedureFits(m),
         command' = [command EXCEPT ![c] = m]
  PROVE  GovernanceInv'
<1>1. UNCHANGED <<object, dataset, created, strayJobs, effects>>
  BY DEF targets
<1>2. \A r \in Approvals : effects'[r] > 0 => effects'[r] = 1 /\ Trace(r)' /\ effects[r] > 0
  BY <1>1 DEF GovernanceInv, EffectsTraced, Trace
<1>3. \E d \in Commands : \E n \in Procedure \cup {Free} :
        command' = [command EXCEPT ![d] = n] /\ ProcedureFits(n)
  BY Zenon
<1>4. /\ object' \in [value : Values[type], version : Nat] /\ dataset' \in Nat /\ dataset' >= dataset
      /\ created' \subseteq Approvals /\ strayJobs' \subseteq created'
      /\ effects' \in [Approvals -> Nat] /\ created \subseteq created'
      /\ type = "diff" /\ object'.value = "PENDING" => object'.version = 1
  BY <1>1 DEF GovernanceInv, GovernanceTypes
<1> QED BY <1>1, <1>2, <1>3, <1>4, TargetsMove, Zenon

LEMMA AbandonInv == ASSUME GovernanceInv, NEW c \in Commands, Abandon(c) PROVE GovernanceInv'
<1>1. ProcedureFits(Free)
  BY Shapes DEF ProcedureFits
<1> QED BY <1>1, CommandMoves, Zenon DEF Abandon, End

\* A command that begins with a row as it stands.
LEMMA ReadsInv ==
  ASSUME GovernanceInv, NEW c \in Commands, NEW r \in Approvals, NEW u \in Actors,
         NEW step \in {"check", "apply", "write"}, NEW to \in Outcomes, Reads(c, r, u, step, to),
         step = "check" => approval[r].status = "SUBMITTED" /\ u # approval[r].maker
                           /\ to \in {"APPROVED", "REJECTED"},
         step = "apply" => approval[r].status = "APPROVED",
         step = "write" => approval[r].status = "SUBMITTED" /\ to = "WITHDRAWN"
  PROVE  GovernanceInv'
<1>1. PICK m : m = [step |-> step, request |-> r, row |-> approval[r], by |-> u, to |-> to]
  BY Zenon
<1>2. approval[r] \in ApprovalRow /\ approval[r] # NoRow
  BY DEF Reads, GovernanceInv, GovernanceTypes
<1>3. m \in Procedure
  BY <1>1, <1>2 DEF Procedure
<1>4. /\ RowFits(approval[r])
      /\ approval[r].status = "APPROVED" => WasApproved(r)
  BY <1>2 DEF GovernanceInv, RowsFit
<1>5. /\ m.step = step /\ m.request = r /\ m.row = approval[r] /\ m.by = u /\ m.to = to
  BY <1>1
<1>6. ProcedureFits(m)
  BY <1>2, <1>4, <1>5 DEF ProcedureFits
<1>7. command' = [command EXCEPT ![c] = m] /\ UNCHANGED <<approval, type, approver, targets>>
  BY <1>1 DEF Reads, Begin
<1> QED BY <1>3, <1>6, <1>7, CommandMoves, Zenon

LEMMA ReadersInv ==
  ASSUME GovernanceInv, NEW c \in Commands, NEW r \in Approvals, NEW u \in Actors,
         \/ Withdraw(c, r, u)
         \/ \E verdict \in {"APPROVED", "REJECTED"} : Decide(c, r, u, verdict)
         \/ ApplyRead(c, r, u)
  PROVE  GovernanceInv'
<1>1. CASE Withdraw(c, r, u)
  <2>1. "WITHDRAWN" \in Outcomes
    BY DEF Outcomes
  <2> QED BY <1>1, <2>1, ReadsInv DEF Withdraw
<1>2. ASSUME NEW verdict \in {"APPROVED", "REJECTED"}, Decide(c, r, u, verdict) PROVE GovernanceInv'
  <2>1. verdict \in Outcomes
    BY DEF Outcomes
  <2> QED BY <1>2, <2>1, ReadsInv DEF Decide
<1>3. CASE ApplyRead(c, r, u)
  <2>1. "APPLIED" \in Outcomes
    BY DEF Outcomes
  <2> QED BY <1>3, <2>1, ReadsInv DEF ApplyRead
<1> QED BY <1>1, <1>2, <1>3

LEMMA DecideCheckInv == ASSUME GovernanceInv, NEW c \in Commands, DecideCheck(c) PROVE GovernanceInv'
<1>1. command[c] \in Procedure /\ ProcedureFits(command[c]) /\ command[c].step = "check"
  BY Shapes DEF DecideCheck, GovernanceInv, GovernanceTypes, CommandsFit
<1>2. PICK to : to = IF Unchanged(command[c].row) THEN command[c].to ELSE "INVALIDATED"
  OBVIOUS
<1>3. PICK m : m = [command[c] EXCEPT !.step = "write", !.to = to]
  OBVIOUS
<1>4. to \in {"APPROVED", "REJECTED", "INVALIDATED"} /\ to \in Outcomes
  BY <1>1, <1>2 DEF ProcedureFits, Outcomes
<1>5. m \in Procedure
  BY <1>1, <1>3, <1>4, Zenon DEF Procedure
<1>6. /\ m.step = "write" /\ m.to = to /\ m.request = command[c].request /\ m.row = command[c].row
      /\ m.by = command[c].by
  BY <1>1, <1>3 DEF Procedure
<1>7. ProcedureFits(m)
  BY <1>1, <1>4, <1>6 DEF ProcedureFits
<1>8. command' = [command EXCEPT ![c] = m]
  BY <1>1, <1>2, <1>3 DEF DecideCheck, Continue, Procedure
<1> QED BY <1>5, <1>7, <1>8, CommandMoves, Zenon DEF DecideCheck

LEMMA SubmitReadInv ==
  ASSUME GovernanceInv, NEW c \in Commands, NEW r \in Approvals, NEW u \in Makers,
         NEW after \in Owners \cup {"none"}, SubmitRead(c, r, u, after)
  PROVE  GovernanceInv'
<1>1. PICK row : row = [status |-> "SUBMITTED", maker |-> u, basis |-> dataset,
                        before |-> object.value, objectBasis |-> object.version,
                        after |-> after, version |-> 1]
  BY Zenon
<1>2. PICK m : m = [step |-> "insert", request |-> r, row |-> row]
  BY Zenon
<1>3. type \in RequestTypes /\ dataset \in Nat /\ object.value \in Values[type] /\ object.version \in Nat
  BY GovernanceAssumption DEF GovernanceInv, GovernanceTypes
<1>4. object.value \in UNION {Values[t] : t \in RequestTypes}
  BY <1>3
<1>5. row \in ApprovalRow
  BY <1>1, <1>3, <1>4 DEF ApprovalRow, ApprovalStatuses
<1>6. m \in Insertion /\ m.request = r /\ m.row = row /\ row.status = "SUBMITTED"
  BY <1>1, <1>2, <1>5 DEF Insertion
<1>7. RowFits(row)
  BY <1>1 DEF RowFits, SubmitRead, MayRequest, OwnerAsked, DiffAsked, StartAsked, CancelAsked,
              LetterAsked, ScheduleAsked, GovernanceInv, GovernanceTypes
<1>8. approval[r] = NoRow /\ \A d \in Commands : command[d] # Free => command[d].request # r
  BY DEF SubmitRead, Unused
<1>9. InsertFits(m) /\ ProcedureFits(m)
  BY <1>6, <1>7, <1>8, Shapes DEF InsertFits, ProcedureFits
<1>10. /\ command' = [command EXCEPT ![c] = m] /\ command[c] = Free
       /\ UNCHANGED <<approval, type, approver, object, dataset, created, strayJobs, effects>>
  BY <1>1, <1>2 DEF SubmitRead, Begin, targets
<1>11. command'[c] = m /\ \A d \in Commands \ {c} : command'[d] = command[d]
  BY <1>10 DEF GovernanceInv, GovernanceTypes
<1>12. GovernanceTypes'
  <2>1. command' \in [Commands -> Insertion \cup Procedure \cup {Free}]
    BY <1>6, <1>10 DEF GovernanceInv, GovernanceTypes
  <2> QED BY <1>10, <2>1 DEF GovernanceInv, GovernanceTypes
<1>13. ASSUME NEW d \in Commands PROVE InsertFits(command[d])' /\ ProcedureFits(command[d])'
  <2>1. PICK n : n = command'[d]
    OBVIOUS
  <2>2. InsertFits(n) /\ ProcedureFits(n)
    BY <1>9, <1>11, <2>1 DEF GovernanceInv, CommandsFit
  <2> QED BY <1>10, <2>1, <2>2 DEF InsertFits, ProcedureFits, RowFits, WasApproved
<1>14. InsertedByOne'
  <2> SUFFICES ASSUME NEW x \in Commands, NEW y \in Commands, x # y, command'[x] \in Insertion,
                      command'[y] # Free
               PROVE  command'[x].request # command'[y].request
    BY DEF InsertedByOne
  <2>1. CASE x = c
    BY <1>6, <1>8, <1>11, <2>1
  <2>2. CASE y = c
    BY <1>6, <1>8, <1>11, <2>2, Shapes
  <2>3. CASE x # c /\ y # c
    BY <1>11, <2>3 DEF GovernanceInv, InsertedByOne
  <2> QED BY <2>1, <2>2, <2>3
<1>15. RowsFit' /\ EffectsTraced'
  BY <1>10 DEF GovernanceInv, RowsFit, RowFits, EffectsTraced, WasApproved, Trace
<1> QED BY <1>12, <1>13, <1>14, <1>15 DEF GovernanceInv, CommandsFit

\* A command writes a row and ends, and what is said of that row is said of the new one.
WritesRow(c, r, row) ==
  /\ approval' = [approval EXCEPT ![r] = row] /\ command' = [command EXCEPT ![c] = Free]
  /\ approver' \in [Approvals -> Actors \cup {"none"}]
  /\ \A q \in Approvals \ {r} : approver'[q] = approver[q]
  /\ UNCHANGED <<type, object, dataset, created, strayJobs, effects>>
  /\ RowFits(row)
  /\ row.status \in {"APPROVED", "APPLIED", "APPLICATION_FAILED"} => WasApproved(r)'
  /\ WasApproved(r) => WasApproved(r)' /\ row.basis = approval[r].basis
  /\ \A d \in Commands \ {c} : command[d] # Free /\ command[d].request = r =>
       /\ command[d] \in Procedure
       /\ row.maker = approval[r].maker /\ row.basis = approval[r].basis

LEMMA RowMoves ==
  ASSUME GovernanceInv, NEW c \in Commands, NEW r \in Approvals, NEW row \in ApprovalRow,
         WritesRow(c, r, row)
  PROVE  GovernanceInv'
<1> USE DEF WritesRow
<1>1. /\ approval'[r] = row /\ \A q \in Approvals \ {r} : approval'[q] = approval[q]
      /\ command'[c] = Free /\ \A d \in Commands \ {c} : command'[d] = command[d]
  BY DEF GovernanceInv, GovernanceTypes
<1>2. GovernanceTypes'
  <2>1. approval' \in [Approvals -> ApprovalRow \cup {NoRow}]
    BY DEF GovernanceInv, GovernanceTypes
  <2>2. command' \in [Commands -> Insertion \cup Procedure \cup {Free}]
    BY DEF GovernanceInv, GovernanceTypes
  <2> QED BY <2>1, <2>2 DEF GovernanceInv, GovernanceTypes
<1>3. \A q \in Approvals : WasApproved(q) => WasApproved(q)'
  <2>1. \A q \in Approvals \ {r} : WasApproved(q) => WasApproved(q)'
    BY <1>1 DEF WasApproved
  <2> QED BY <2>1
<1>4. ASSUME NEW d \in Commands PROVE InsertFits(command[d])' /\ ProcedureFits(command[d])'
  <2>1. PICK n : n = command'[d]
    OBVIOUS
  <2>2. n = Free \/ (d # c /\ n = command[d])
    BY <1>1, <2>1
  <2>3. InsertFits(n) /\ ProcedureFits(n)
    BY <2>2, Shapes DEF GovernanceInv, CommandsFit, InsertFits, ProcedureFits
  <2>4. n \in Insertion => n.request \in Approvals /\ n.request # r
    BY <2>2, Shapes DEF Insertion
  <2>5. InsertFits(n)'
    BY <1>1, <2>3, <2>4 DEF InsertFits, RowFits
  <2>6. n \in Procedure => n.request \in Approvals
    BY DEF Procedure
  <2>7. n \in Procedure =>
          /\ approval'[n.request] \in ApprovalRow
          /\ n.row.maker = approval'[n.request].maker /\ n.row.basis = approval'[n.request].basis
    BY <1>1, <2>2, <2>3, <2>6, Shapes DEF ProcedureFits
  <2>8. n \in Procedure /\ n.row.status = "APPROVED" => WasApproved(n.request)'
    BY <1>3, <2>3, <2>6 DEF ProcedureFits
  <2>9. ProcedureFits(n)'
    BY <2>3, <2>7, <2>8 DEF ProcedureFits, RowFits
  <2> QED BY <2>1, <2>5, <2>9
<1>5. InsertedByOne'
  BY <1>1, Shapes DEF GovernanceInv, InsertedByOne
<1>6. RowsFit'
  <2>1. /\ RowFits(row)'
        /\ \A q \in Approvals \ {r} : RowFits(approval[q]) => RowFits(approval[q])'
    BY <1>1 DEF RowFits
  <2> QED BY <1>1, <1>3, <2>1 DEF GovernanceInv, RowsFit
<1>7. EffectsTraced'
  <2> SUFFICES ASSUME NEW q \in Approvals, effects'[q] > 0
               PROVE  effects'[q] = 1 /\ WasApproved(q)' /\ Trace(q)'
    BY DEF EffectsTraced
  <2>1. effects[q] = 1 /\ WasApproved(q) /\ Trace(q)
    BY DEF GovernanceInv, EffectsTraced
  <2>2. approval'[q].basis = approval[q].basis
    BY <1>1, <2>1
  <2> QED BY <1>3, <2>1, <2>2 DEF Trace
<1> QED BY <1>2, <1>4, <1>5, <1>6, <1>7 DEF GovernanceInv, CommandsFit

LEMMA SubmitInsertInv == ASSUME GovernanceInv, NEW c \in Commands, SubmitInsert(c) PROVE GovernanceInv'
<1>1. command[c] \in Insertion /\ InsertFits(command[c])
  BY Shapes DEF SubmitInsert, GovernanceInv, GovernanceTypes, CommandsFit
<1>2. CASE PendingTwin
  <2>1. ProcedureFits(Free)
    BY Shapes DEF ProcedureFits
  <2> QED BY <1>2, <2>1, CommandMoves, Zenon DEF SubmitInsert, End
<1>3. CASE ~PendingTwin
  <2>1. PICK r, row : r = command[c].request /\ row = command[c].row
    OBVIOUS
  <2>2. /\ r \in Approvals /\ row \in ApprovalRow /\ RowFits(row) /\ approval[r] = NoRow
        /\ row.status = "SUBMITTED"
    BY <1>1, <2>1 DEF Insertion, InsertFits
  <2>3. ~WasApproved(r)
    BY <2>2, Shapes DEF WasApproved
  <2>4. /\ approval' = [approval EXCEPT ![r] = row] /\ command' = [command EXCEPT ![c] = Free]
        /\ UNCHANGED <<type, object, dataset, created, strayJobs, effects>> /\ approver' = approver
    BY <1>3, <2>1 DEF SubmitInsert, End, targets
  <2>5. /\ approver' \in [Approvals -> Actors \cup {"none"}]
        /\ \A q \in Approvals \ {r} : approver'[q] = approver[q]
    BY <2>4 DEF GovernanceInv, GovernanceTypes
  <2>6. \A d \in Commands \ {c} : command[d] # Free => command[d].request # r
    BY <1>1, <2>1 DEF GovernanceInv, InsertedByOne
  <2>7. /\ row.status \in {"APPROVED", "APPLIED", "APPLICATION_FAILED"} => WasApproved(r)'
        /\ WasApproved(r) => WasApproved(r)' /\ row.basis = approval[r].basis
    BY <2>2, <2>3
  <2>8. \A d \in Commands \ {c} : command[d] # Free /\ command[d].request = r =>
          /\ command[d] \in Procedure
          /\ row.maker = approval[r].maker /\ row.basis = approval[r].basis
    BY <2>6
  <2>9. WritesRow(c, r, row)
    BY <2>2, <2>4, <2>5, <2>7, <2>8, Zenon DEF WritesRow
  <2> QED BY <2>2, <2>9, RowMoves
<1> QED BY <1>2, <1>3

\* What a transition finds when the row still is the one that was read.
LEMMA TransitionInv == ASSUME GovernanceInv, NEW c \in Commands, Transition(c) PROVE GovernanceInv'
<1>1. command[c] \in Procedure /\ ProcedureFits(command[c]) /\ command[c].step = "write"
  BY Shapes DEF Transition, GovernanceInv, GovernanceTypes, CommandsFit
<1>2. PICK r, to, by : r = command[c].request /\ to = command[c].to /\ by = command[c].by
  OBVIOUS
<1>3. r \in Approvals /\ to \in Outcomes /\ by \in Actors /\ approval[r] \in ApprovalRow
  BY <1>1, <1>2 DEF Procedure, ProcedureFits
<1>4. CASE approval[r].status = command[c].row.status /\ approval[r].version = command[c].row.version
  <2>1. PICK row : row = [approval[r] EXCEPT !.status = to, !.version = approval[r].version + 1]
    OBVIOUS
  <2>2. to \in ApprovalStatuses /\ approval[r].version + 1 \in Nat
    BY <1>3 DEF Outcomes, ApprovalStatuses, Closed, ApprovalRow
  <2>3. row \in ApprovalRow
    BY <1>3, <2>1, <2>2, Zenon DEF ApprovalRow
  <2>4. /\ row.status = to /\ row.maker = approval[r].maker /\ row.basis = approval[r].basis
        /\ row.objectBasis = approval[r].objectBasis /\ row.after = approval[r].after
    BY <1>3, <2>1 DEF ApprovalRow
  <2>5. RowFits(row)
    BY <1>3, <2>4, Shapes DEF GovernanceInv, RowsFit, RowFits
  <2>6. /\ approval' = [approval EXCEPT ![r] = row] /\ command' = [command EXCEPT ![c] = Free]
        /\ approver' = IF to = "APPROVED" THEN [approver EXCEPT ![r] = by] ELSE approver
        /\ UNCHANGED <<type, object, dataset, created, strayJobs, effects>>
    BY <1>2, <1>4, <2>1, <1>3 DEF Transition, End, targets, GovernanceInv, GovernanceTypes,
       ApprovalRow
  <2>7. /\ approver' \in [Approvals -> Actors \cup {"none"}]
        /\ \A q \in Approvals \ {r} : approver'[q] = approver[q]
        /\ to = "APPROVED" => approver'[r] = by
        /\ to # "APPROVED" => approver'[r] = approver[r]
    BY <1>3, <2>6 DEF GovernanceInv, GovernanceTypes
  <2>8. approval'[r] = row
    BY <1>3, <2>6 DEF GovernanceInv, GovernanceTypes
  <2>9. "none" \notin Actors
    BY GovernanceAssumption DEF Actors
  <2>10. to = "APPROVED" => WasApproved(r)'
    BY <1>1, <1>2, <1>3, <2>4, <2>7, <2>8, <2>9 DEF ProcedureFits, WasApproved
  <2>11. to \in {"APPLIED", "APPLICATION_FAILED"} => WasApproved(r)'
    BY <1>1, <1>2, <2>4, <2>7, <2>8 DEF ProcedureFits, WasApproved
  <2>12. WasApproved(r) => WasApproved(r)'
    <3> SUFFICES ASSUME WasApproved(r) PROVE WasApproved(r)'
      OBVIOUS
    <3>1. approval[r].status # "SUBMITTED"
      BY DEF WasApproved
    <3>2. to \notin {"APPROVED", "REJECTED", "WITHDRAWN"}
      BY <1>1, <1>2, <1>4, <3>1 DEF ProcedureFits
    <3>3. to = "INVALIDATED" => type = "diff" /\ object.value = "REJECTED"
      BY <1>1, <1>2, <1>4, <3>1 DEF ProcedureFits
    <3>4. CASE to = "INVALIDATED"
      BY <2>4, <2>6, <2>7, <2>8, <3>3, <3>4 DEF WasApproved
    <3>5. CASE to \in {"APPLIED", "APPLICATION_FAILED"}
      BY <2>11, <3>5
    <3> QED BY <1>3, <3>2, <3>4, <3>5 DEF Outcomes
  <2>13. \A d \in Commands \ {c} : command[d] # Free /\ command[d].request = r => command[d] \in Procedure
    <3>1. command[c] # Free
      BY <1>1, Shapes
    <3> QED BY <1>2, <3>1 DEF GovernanceInv, GovernanceTypes, InsertedByOne
  <2>14. /\ row.status \in {"APPROVED", "APPLIED", "APPLICATION_FAILED"} => WasApproved(r)'
         /\ WasApproved(r) => WasApproved(r)' /\ row.basis = approval[r].basis
    BY <2>4, <2>10, <2>11, <2>12
  <2>15. \A d \in Commands \ {c} : command[d] # Free /\ command[d].request = r =>
           /\ command[d] \in Procedure
           /\ row.maker = approval[r].maker /\ row.basis = approval[r].basis
    BY <2>4, <2>13
  <2>16. /\ approval' = [approval EXCEPT ![r] = row] /\ command' = [command EXCEPT ![c] = Free]
         /\ UNCHANGED <<type, object, dataset, created, strayJobs, effects>>
    BY <2>6
  <2>17. WritesRow(c, r, row)
    BY <2>5, <2>7, <2>14, <2>15, <2>16, Zenon DEF WritesRow
  <2> QED BY <1>3, <2>3, <2>17, RowMoves
<1>5. CASE ~(approval[r].status = command[c].row.status /\ approval[r].version = command[c].row.version)
  <2>1. ProcedureFits(Free)
    BY Shapes DEF ProcedureFits
  <2>2. command' = [command EXCEPT ![c] = Free] /\ UNCHANGED <<approval, type, approver, targets>>
    BY <1>2, <1>5 DEF Transition, End
  <2> QED BY <2>1, <2>2, CommandMoves, Zenon
<1> QED BY <1>4, <1>5

\* What an applier knows of the request it carries out.
LEMMA ApplierKnows ==
  ASSUME GovernanceInv, NEW c \in Commands, command[c].step \in {"apply", "change"}
  PROVE  /\ command[c] \in Procedure /\ ProcedureFits(command[c])
         /\ command[c].request \in Approvals /\ command[c].row \in ApprovalRow
         /\ WasApproved(command[c].request) /\ RowFits(command[c].row)
         /\ command[c].row.basis = approval[command[c].request].basis
<1>1. command[c] \in Procedure /\ ProcedureFits(command[c])
  BY Shapes DEF GovernanceInv, GovernanceTypes, CommandsFit
<1>2. command[c].request \in Approvals /\ command[c].row \in ApprovalRow
  BY <1>1 DEF Procedure
<1> QED BY <1>1, <1>2 DEF ProcedureFits

\* An applier goes on to its next transaction.
LEMMA GoesOn ==
  ASSUME GovernanceInv, NEW c \in Commands, command[c].step \in {"apply", "change"},
         NEW step \in {"change", "write"}, NEW to \in {"APPLIED", "APPLICATION_FAILED", "INVALIDATED"},
         Goes(c, step, to), to = "INVALIDATED" => type = "diff" /\ object.value = "REJECTED"
  PROVE  /\ UNCHANGED <<approval, type, approver>>
         /\ \E m \in Procedure : command' = [command EXCEPT ![c] = m] /\ ProcedureFits(m)
         /\ \E d \in Commands : \E m \in Procedure \cup {Free} :
              command' = [command EXCEPT ![d] = m] /\ ProcedureFits(m)
<1>1. PICK m : m = [command[c] EXCEPT !.step = step, !.to = to]
  OBVIOUS
<1>2. to \in Outcomes
  BY DEF Outcomes
<1>3. m \in Procedure
  BY <1>1, <1>2, ApplierKnows, Zenon DEF Procedure
<1>4. /\ m.step = step /\ m.to = to /\ m.request = command[c].request /\ m.row = command[c].row
      /\ m.by = command[c].by
  BY <1>1, ApplierKnows DEF Procedure
<1>5. ProcedureFits(m)
  BY <1>4, ApplierKnows DEF ProcedureFits
<1>6. command' = [command EXCEPT ![c] = m] /\ UNCHANGED <<approval, type, approver>>
  BY <1>1 DEF Goes, Continue
<1> QED BY <1>3, <1>5, <1>6, Zenon

LEMMA GoesInv ==
  ASSUME GovernanceInv, NEW c \in Commands, command[c].step \in {"apply", "change"},
         NEW step \in {"change", "write"}, NEW to \in {"APPLIED", "APPLICATION_FAILED", "INVALIDATED"},
         Goes(c, step, to), to = "INVALIDATED" => type = "diff" /\ object.value = "REJECTED",
         UNCHANGED targets
  PROVE  GovernanceInv'
<1>1. PICK m \in Procedure : command' = [command EXCEPT ![c] = m] /\ ProcedureFits(m)
  BY GoesOn
<1>2. UNCHANGED <<approval, type, approver>>
  BY GoesOn
<1> QED BY <1>1, <1>2, CommandMoves, Zenon

\* An applier changes the target: the first time for its request.
LEMMA EffectInv ==
  ASSUME GovernanceInv, NEW c \in Commands, command[c].step \in {"apply", "change"},
         Goes(c, "write", "APPLIED"), Effect(c),
         NEW r, r = command[c].request, effects[r] = 0, Trace(r)',
         \A q \in Approvals : WasApproved(q) /\ Trace(q) => Trace(q)',
         object' \in [value : Values[type], version : Nat], dataset' \in Nat, dataset' >= dataset,
         created \subseteq created', created' \subseteq Approvals, strayJobs' = strayJobs,
         type = "diff" => object.value = "PENDING" /\ object'.value = "APPLIED"
  PROVE  GovernanceInv'
<1>2. r \in Approvals /\ WasApproved(r) /\ effects[r] = 0 /\ Trace(r)'
  BY ApplierKnows
<1>3. /\ effects' \in [Approvals -> Nat] /\ effects'[r] = 1
      /\ \A q \in Approvals \ {r} : effects'[q] = effects[q]
  BY <1>2 DEF Effect, GovernanceInv, GovernanceTypes
<1>4. ASSUME NEW q \in Approvals, effects'[q] > 0
      PROVE  effects'[q] = 1 /\ Trace(q)' /\ (effects[q] > 0 \/ WasApproved(q))
  <2>1. CASE q = r
    BY <1>2, <1>3, <2>1
  <2>2. CASE q # r
    <3>1. effects[q] > 0 /\ effects'[q] = effects[q]
      BY <1>3, <1>4, <2>2
    <3>2. effects[q] = 1 /\ WasApproved(q) /\ Trace(q)
      BY <3>1 DEF GovernanceInv, EffectsTraced
    <3> QED BY <3>1, <3>2
  <2> QED BY <2>1, <2>2
<1>5. /\ UNCHANGED <<approval, type, approver>>
      /\ \E d \in Commands : \E m \in Procedure \cup {Free} :
           command' = [command EXCEPT ![d] = m] /\ ProcedureFits(m)
  BY GoesOn
<1>6. strayJobs' \subseteq created'
  BY DEF GovernanceInv, GovernanceTypes
<1>7. /\ type = "diff" /\ object'.value = "PENDING" => object'.version = 1
      /\ type = "diff" /\ object.value = "REJECTED" => object'.value = "REJECTED"
  <2>1. type = "diff" => object.value # "REJECTED" /\ object'.value # "PENDING"
    OBVIOUS
  <2> QED BY <2>1
<1> QED BY <1>3, <1>4, <1>5, <1>6, <1>7, TargetsMove, Zenon

LEMMA OwnerReadInv == ASSUME GovernanceInv, NEW c \in Commands, OwnerRead(c) PROVE GovernanceInv'
<1>1. PICK step : step = IF object.value = command[c].row.after /\ dataset > command[c].row.basis
                         THEN "write" ELSE "change"
  OBVIOUS
<1>2. step \in {"change", "write"} /\ command[c].step = "apply"
      /\ Goes(c, step, "APPLIED") /\ UNCHANGED targets
  BY <1>1 DEF OwnerRead, Applying
<1> QED BY <1>2, GoesInv

LEMMA ScheduleReadInv == ASSUME GovernanceInv, NEW c \in Commands, ScheduleRead(c) PROVE GovernanceInv'
<1>1. PICK step : step = IF command[c].request \in created THEN "write" ELSE "change"
  OBVIOUS
<1>2. step \in {"change", "write"} /\ command[c].step = "apply"
      /\ Goes(c, step, "APPLIED") /\ UNCHANGED targets
  BY <1>1 DEF ScheduleRead, Applying
<1> QED BY <1>2, GoesInv

LEMMA DiffReadInv == ASSUME GovernanceInv, NEW c \in Commands, DiffRead(c) PROVE GovernanceInv'
<1>1. command[c].step = "apply" /\ type = "diff" /\ UNCHANGED targets
  BY DEF DiffRead, Applying
<1>2. command[c].row.objectBasis = 1
  BY <1>1, ApplierKnows DEF RowFits
<1>3. object.value \in {"PENDING", "APPLIED", "REJECTED"} /\ (object.value = "PENDING" => object.version = 1)
  BY <1>1 DEF GovernanceInv, GovernanceTypes, Values
<1>4. \/ Goes(c, "write", "APPLIED") \/ Goes(c, "change", "APPLIED")
      \/ Goes(c, "write", "INVALIDATED") /\ object.value = "REJECTED"
  BY <1>2, <1>3 DEF DiffRead, PendingAsRead
<1> QED BY <1>1, <1>4, GoesInv

LEMMA StartRefusedInv == ASSUME GovernanceInv, NEW c \in Commands, StartRefused(c) PROVE GovernanceInv'
BY GoesInv DEF StartRefused, Applying

\* The trace that an update of the dataset leaves does not fade when others update it.
LEMMA DatasetGrows ==
  ASSUME GovernanceInv, UNCHANGED <<approval, type>>, type = "owner",
         dataset' \in Nat, dataset' >= dataset, NEW q \in Approvals, WasApproved(q), Trace(q)
  PROVE  Trace(q)'
<1>1. approval[q] # NoRow
  BY Shapes DEF WasApproved
<1>2. approval[q] \in ApprovalRow
  BY <1>1 DEF GovernanceInv, GovernanceTypes
<1>3. approval[q].basis \in Nat /\ dataset \in Nat
  BY <1>2 DEF ApprovalRow, GovernanceInv, GovernanceTypes
<1> QED BY <1>3 DEF Trace

LEMMA OwnerChangeInv == ASSUME GovernanceInv, NEW c \in Commands, OwnerChange(c) PROVE GovernanceInv'
<1>1. command[c].step = "change" /\ type = "owner" /\ UNCHANGED <<created, strayJobs>>
  BY DEF OwnerChange, Changing
<1>2. CASE dataset = command[c].row.basis
  <2>1. /\ object' = [object EXCEPT !.value = command[c].row.after] /\ dataset' = dataset + 1
        /\ Effect(c) /\ Goes(c, "write", "APPLIED")
    BY <1>2 DEF OwnerChange
  <2>2. PICK r : r = command[c].request
    OBVIOUS
  <2>3. /\ r \in Approvals /\ WasApproved(r) /\ approval[r].basis = dataset /\ dataset \in Nat
        /\ command[c].row.after \in Owners
    BY <1>1, <1>2, <2>2, ApplierKnows DEF RowFits, GovernanceInv, GovernanceTypes
  <2>4. Values[type] = Owners
    BY <1>1 DEF Values
  <2>5. object' \in [value : Values[type], version : Nat] /\ dataset' \in Nat /\ dataset' >= dataset
    BY <2>1, <2>3, <2>4 DEF GovernanceInv, GovernanceTypes
  <2>6. ~Trace(r)
    BY <1>1, <2>3 DEF Trace
  <2>7. effects[r] = 0
    BY <2>3, <2>6 DEF GovernanceInv, GovernanceTypes, EffectsTraced
  <2>8. UNCHANGED <<approval, type>>
    BY <2>1 DEF Goes
  <2>9. Trace(r)'
    BY <1>1, <2>1, <2>3, <2>8 DEF Trace
  <2>10. \A q \in Approvals : WasApproved(q) /\ Trace(q) => Trace(q)'
    BY <1>1, <2>1, <2>3, <2>8, DatasetGrows
  <2>11. created' \subseteq Approvals
    BY <1>1 DEF GovernanceInv, GovernanceTypes
  <2> QED BY <1>1, <2>1, <2>2, <2>5, <2>7, <2>9, <2>10, <2>11, EffectInv
<1>3. CASE dataset # command[c].row.basis
  <2>1. Goes(c, "write", "APPLICATION_FAILED") /\ UNCHANGED targets
    BY <1>1, <1>3 DEF OwnerChange, targets
  <2> QED BY <1>1, <2>1, GoesInv
<1> QED BY <1>2, <1>3

LEMMA DiffChangeInv == ASSUME GovernanceInv, NEW c \in Commands, DiffChange(c) PROVE GovernanceInv'
<1>1. command[c].step = "change" /\ type = "diff" /\ UNCHANGED <<dataset, created, strayJobs>>
  BY DEF DiffChange, Changing
<1>2. CASE PendingAsRead(command[c].row)
  <2>1. /\ object' = [value |-> "APPLIED", version |-> object.version + 1]
        /\ Effect(c) /\ Goes(c, "write", "APPLIED") /\ object.value = "PENDING"
    BY <1>2 DEF DiffChange, PendingAsRead
  <2>2. PICK r : r = command[c].request
    OBVIOUS
  <2>3. r \in Approvals
    BY <1>1, <2>2, ApplierKnows
  <2>4. Values[type] = {"PENDING", "APPLIED", "REJECTED"}
    BY <1>1 DEF Values
  <2>5. object.version + 1 \in Nat
    BY DEF GovernanceInv, GovernanceTypes
  <2>6. object' \in [value : Values[type], version : Nat] /\ object'.value = "APPLIED"
    BY <2>1, <2>4, <2>5
  <2>7. effects[r] = 0
    BY <1>1, <2>1, <2>3 DEF Trace, GovernanceInv, GovernanceTypes, EffectsTraced
  <2>8. type' = type
    BY <2>1 DEF Goes
  <2>9. \A q : Trace(q)'
    BY <1>1, <2>6, <2>8 DEF Trace
  <2>10. dataset' \in Nat /\ dataset' >= dataset /\ created' \subseteq Approvals /\ created \subseteq created'
    BY <1>1 DEF GovernanceInv, GovernanceTypes
  <2> QED BY <1>1, <2>1, <2>2, <2>6, <2>7, <2>9, <2>10, EffectInv
<1>3. CASE ~PendingAsRead(command[c].row)
  <2>1. Goes(c, "write", "APPLICATION_FAILED") /\ UNCHANGED targets
    BY <1>1, <1>3 DEF DiffChange, targets
  <2> QED BY <1>1, <2>1, GoesInv
<1> QED BY <1>2, <1>3

\* What an object that is neither a dataset nor a diff becomes.
LEMMA TypesOfTargets ==
  ASSUME GovernanceInv
  PROVE  /\ dataset \in Nat /\ dataset >= dataset /\ created \subseteq Approvals
         /\ strayJobs \subseteq created
         /\ object \in [value : Values[type], version : Nat]
         /\ effects \in [Approvals -> Nat] /\ type \in RequestTypes
BY GovernanceAssumption DEF GovernanceInv, GovernanceTypes

LEMMA StartExecutionInv == ASSUME GovernanceInv, NEW c \in Commands, StartExecution(c) PROVE GovernanceInv'
<1>1. /\ command[c].step = "apply" /\ type = "start" /\ UNCHANGED <<object, dataset>>
      /\ Goes(c, "write", "APPLIED")
  BY DEF StartExecution, Applying
<1>2. PICK r : r = command[c].request
  OBVIOUS
<1>3. r \in Approvals
  BY <1>1, <1>2, ApplierKnows
<1>4. CASE r \in created
  <2>1. strayJobs' = strayJobs \cup {r} /\ UNCHANGED <<created, effects>>
    BY <1>2, <1>4 DEF StartExecution
  <2>2. type' = type /\ approval' = approval
    BY <1>1 DEF Goes
  <2>3. \A q \in Approvals : effects'[q] > 0 => effects'[q] = 1 /\ Trace(q)' /\ effects[q] > 0
    BY <1>1, <2>1, <2>2 DEF GovernanceInv, EffectsTraced, Trace
  <2>4. /\ UNCHANGED <<approval, type, approver>>
        /\ \E d \in Commands : \E m \in Procedure \cup {Free} :
             command' = [command EXCEPT ![d] = m] /\ ProcedureFits(m)
    BY <1>1, GoesOn
  <2>5. /\ object' \in [value : Values[type], version : Nat] /\ dataset' \in Nat /\ dataset' >= dataset
        /\ created \subseteq created' /\ created' \subseteq Approvals /\ strayJobs' \subseteq created'
        /\ effects' \in [Approvals -> Nat] /\ type # "diff"
    BY <1>1, <1>4, <2>1, TypesOfTargets
  <2> QED BY <2>3, <2>4, <2>5, TargetsMove, Zenon
<1>5. CASE r \notin created
  <2>1. created' = created \cup {r} /\ Effect(c) /\ UNCHANGED strayJobs
    BY <1>2, <1>5 DEF StartExecution
  <2>2. effects[r] = 0
    BY <1>1, <1>3, <1>5 DEF Trace, GovernanceInv, GovernanceTypes, EffectsTraced
  <2>3. type' = type
    BY <1>1 DEF Goes
  <2>4. Trace(r)' /\ \A q \in Approvals : Trace(q) => Trace(q)'
    BY <1>1, <2>1, <2>3 DEF Trace
  <2>5. /\ object' \in [value : Values[type], version : Nat] /\ dataset' \in Nat /\ dataset' >= dataset
        /\ created \subseteq created' /\ created' \subseteq Approvals /\ type # "diff"
    BY <1>1, <1>3, <2>1, TypesOfTargets
  <2> QED BY <1>1, <1>2, <2>1, <2>2, <2>4, <2>5, EffectInv
<1> QED BY <1>4, <1>5

LEMMA ScheduleCreateInv == ASSUME GovernanceInv, NEW c \in Commands, ScheduleCreate(c) PROVE GovernanceInv'
<1>1. /\ command[c].step = "change" /\ type = "schedule" /\ UNCHANGED <<object, dataset, strayJobs>>
  BY DEF ScheduleCreate, Changing
<1>2. PICK r : r = command[c].request
  OBVIOUS
<1>3. r \in Approvals
  BY <1>1, <1>2, ApplierKnows
<1>4. CASE r \in created
  <2>1. Goes(c, "write", "APPLICATION_FAILED") /\ UNCHANGED targets
    BY <1>1, <1>2, <1>4 DEF ScheduleCreate, targets
  <2> QED BY <1>1, <2>1, GoesInv
<1>5. CASE r \notin created
  <2>1. created' = created \cup {r} /\ Effect(c) /\ Goes(c, "write", "APPLIED")
    BY <1>2, <1>5 DEF ScheduleCreate
  <2>2. effects[r] = 0
    BY <1>1, <1>3, <1>5 DEF Trace, GovernanceInv, GovernanceTypes, EffectsTraced
  <2>3. type' = type
    BY <2>1 DEF Goes
  <2>4. Trace(r)' /\ \A q \in Approvals : Trace(q) => Trace(q)'
    BY <1>1, <2>1, <2>3 DEF Trace
  <2>5. /\ object' \in [value : Values[type], version : Nat] /\ dataset' \in Nat /\ dataset' >= dataset
        /\ created \subseteq created' /\ created' \subseteq Approvals /\ type # "diff"
    BY <1>1, <1>3, <2>1, TypesOfTargets
  <2> QED BY <1>1, <1>2, <2>1, <2>2, <2>4, <2>5, EffectInv
<1> QED BY <1>4, <1>5

LEMMA CancelExecutionInv == ASSUME GovernanceInv, NEW c \in Commands, CancelExecution(c) PROVE GovernanceInv'
<1>1. command[c].step = "apply" /\ type = "cancel" /\ UNCHANGED <<dataset, created, strayJobs>>
  BY DEF CancelExecution, Applying
<1>2. Values[type] = {"QUEUED", "RUNNING", "CANCEL_REQUESTED", "ENDED", "CANCELLED"}
  BY <1>1 DEF Values, ExecutionEnded
<1>3. PICK r : r = command[c].request
  OBVIOUS
<1>4. r \in Approvals
  BY <1>1, <1>3, ApplierKnows
<1>5. CASE object.value \in ExecutionEnded
  <2>1. Goes(c, "write", "APPLICATION_FAILED") /\ UNCHANGED targets
    BY <1>1, <1>5 DEF CancelExecution, targets
  <2> QED BY <1>1, <2>1, GoesInv
<1>6. CASE object.value \notin ExecutionEnded
  <2>1. PICK value : value = IF object.value = "QUEUED" THEN "CANCELLED" ELSE "CANCEL_REQUESTED"
    OBVIOUS
  <2>2. /\ Goes(c, "write", "APPLIED") /\ object' = [object EXCEPT !.value = value]
        /\ IF object.value = "CANCEL_REQUESTED" THEN UNCHANGED effects ELSE Effect(c)
    BY <1>6, <2>1, TypesOfTargets DEF CancelExecution
  <2>3. object' \in [value : Values[type], version : Nat] /\ object'.value \in {"CANCELLED", "CANCEL_REQUESTED"}
    BY <1>2, <2>1, <2>2, TypesOfTargets
  <2>4. /\ type' = type
        /\ dataset' \in Nat /\ dataset' >= dataset /\ created \subseteq created' /\ type # "diff"
        /\ created' \subseteq Approvals
    BY <1>1, <2>2, TypesOfTargets DEF Goes
  <2>5. \A q : Trace(q)'
    BY <1>1, <2>3, <2>4 DEF Trace
  <2>6. CASE object.value = "CANCEL_REQUESTED"
    <3>1. \A q \in Approvals : effects'[q] > 0 => effects'[q] = 1 /\ Trace(q)' /\ effects[q] > 0
      BY <2>2, <2>5, <2>6 DEF GovernanceInv, EffectsTraced
    <3>2. /\ UNCHANGED <<approval, type, approver>>
          /\ \E d \in Commands : \E m \in Procedure \cup {Free} :
               command' = [command EXCEPT ![d] = m] /\ ProcedureFits(m)
      BY <1>1, <2>2, GoesOn
    <3>3. effects' \in [Approvals -> Nat] /\ strayJobs' \subseteq created'
      BY <1>1, <2>2, <2>6, TypesOfTargets
    <3> QED BY <2>3, <2>4, <3>1, <3>2, <3>3, TargetsMove, Zenon
  <2>7. CASE object.value # "CANCEL_REQUESTED"
    <3>1. effects[r] = 0
      BY <1>1, <1>4, <1>6, <2>7 DEF Trace, ExecutionEnded, GovernanceInv, GovernanceTypes,
         EffectsTraced
    <3> QED BY <1>1, <1>3, <2>2, <2>3, <2>4, <2>5, <2>7, <3>1, EffectInv
  <2> QED BY <2>6, <2>7
<1> QED BY <1>5, <1>6

LEMMA ReprocessLetterInv == ASSUME GovernanceInv, NEW c \in Commands, ReprocessLetter(c) PROVE GovernanceInv'
<1>1. command[c].step = "apply" /\ type = "letter" /\ UNCHANGED <<dataset, created, strayJobs>>
  BY DEF ReprocessLetter, Applying
<1>2. CASE object.value = "OPEN"
  <2>1. /\ object' = [object EXCEPT !.value = "REPROCESSED"] /\ Effect(c) /\ Goes(c, "write", "APPLIED")
    BY <1>2 DEF ReprocessLetter
  <2>2. PICK r : r = command[c].request
    OBVIOUS
  <2>3. r \in Approvals
    BY <1>1, <2>2, ApplierKnows
  <2>4. Values[type] = {"OPEN", "REPROCESSED"}
    BY <1>1 DEF Values
  <2>5. object' \in [value : Values[type], version : Nat] /\ object'.value = "REPROCESSED"
    BY <2>1, <2>4, TypesOfTargets
  <2>6. /\ type' = type
        /\ dataset' \in Nat /\ dataset' >= dataset /\ created \subseteq created' /\ type # "diff"
        /\ created' \subseteq Approvals
    BY <1>1, <2>1, TypesOfTargets DEF Goes
  <2>7. \A q : Trace(q)'
    BY <1>1, <2>5, <2>6 DEF Trace
  <2>8. effects[r] = 0
    BY <1>1, <1>2, <2>3 DEF Trace, GovernanceInv, GovernanceTypes, EffectsTraced
  <2> QED BY <1>1, <2>1, <2>2, <2>5, <2>6, <2>7, <2>8, EffectInv
<1>3. CASE object.value # "OPEN"
  <2>1. ProcedureFits(Free)
    BY Shapes DEF ProcedureFits
  <2>2. command' = [command EXCEPT ![c] = Free] /\ UNCHANGED <<approval, type, approver, targets>>
    BY <1>1, <1>3 DEF ReprocessLetter, End, targets
  <2> QED BY <2>1, <2>2, CommandMoves, Zenon
<1> QED BY <1>2, <1>3

LEMMA EditDatasetInv == ASSUME GovernanceInv, EditDataset PROVE GovernanceInv'
<1>1. /\ dataset' = dataset + 1
      /\ UNCHANGED <<approval, command, type, approver, object, created, strayJobs, effects>>
  BY DEF EditDataset
<1>2. /\ object' \in [value : Values[type], version : Nat] /\ dataset' \in Nat /\ dataset' >= dataset
      /\ created \subseteq created' /\ created' \subseteq Approvals /\ strayJobs' \subseteq created'
      /\ effects' \in [Approvals -> Nat] /\ (type = "diff" /\ object'.value = "PENDING" => object'.version = 1)
  BY <1>1 DEF GovernanceInv, GovernanceTypes
<1>3. ASSUME NEW q \in Approvals, effects'[q] > 0 PROVE effects'[q] = 1 /\ Trace(q)' /\ effects[q] > 0
  <2>1. effects[q] > 0 /\ effects[q] = 1 /\ WasApproved(q) /\ Trace(q)
    BY <1>1, <1>3 DEF GovernanceInv, EffectsTraced
  <2>2. CASE type = "owner"
    BY <1>1, <1>2, <2>1, <2>2, DatasetGrows
  <2>3. CASE type # "owner"
    BY <1>1, <2>1, <2>3 DEF Trace
  <2> QED BY <1>1, <2>1, <2>2, <2>3
<1> QED BY <1>1, <1>2, <1>3, TargetsMove

LEMMA ObjectChangesInv == ASSUME GovernanceInv, ObjectChanges PROVE GovernanceInv'
<1>1. PICK value \in Follows(object.value) : object' = [value |-> value, version |-> object.version + 1]
  BY DEF ObjectChanges
<1>2. UNCHANGED <<approval, command, type, approver, dataset, created, strayJobs, effects>>
  BY DEF ObjectChanges
<1>3. \/ type = "diff" /\ object.value = "PENDING" /\ value \in {"APPLIED", "REJECTED"}
      \/ type = "letter" /\ object.value = "OPEN" /\ value = "REPROCESSED"
      \/ type = "cancel" /\ object.value = "QUEUED" /\ value = "RUNNING"
      \/ type = "cancel" /\ object.value = "RUNNING" /\ value = "ENDED"
      \/ type = "cancel" /\ object.value = "CANCEL_REQUESTED" /\ value = "CANCELLED"
  BY <1>1 DEF Follows
<1>4. value \in Values[type]
  BY <1>3 DEF Values, ExecutionEnded
<1>5. object.version + 1 \in Nat
  BY TypesOfTargets
<1>6. object' \in [value : Values[type], version : Nat] /\ object'.value = value
  BY <1>1, <1>4, <1>5
<1>7. /\ dataset' \in Nat /\ dataset' >= dataset
      /\ created \subseteq created' /\ created' \subseteq Approvals /\ strayJobs' \subseteq created'
      /\ effects' \in [Approvals -> Nat]
  BY <1>2, TypesOfTargets
<1>8. /\ type = "diff" /\ object'.value = "PENDING" => object'.version = 1
      /\ type = "diff" /\ object.value = "REJECTED" => object'.value = "REJECTED"
  BY <1>3, <1>6
<1>9. \A q \in Approvals : Trace(q) => Trace(q)'
  BY <1>2, <1>3, <1>6 DEF Trace
<1>10. \A q \in Approvals : effects'[q] > 0 => effects'[q] = 1 /\ Trace(q)' /\ effects[q] > 0
  BY <1>2, <1>9 DEF GovernanceInv, EffectsTraced
<1> QED BY <1>2, <1>6, <1>7, <1>8, <1>10, TargetsMove

LEMMA GovernanceNextInv == GovernanceInv /\ [GovernanceNext]_governanceVars => GovernanceInv'
<1> SUFFICES ASSUME GovernanceInv, [GovernanceNext]_governanceVars PROVE GovernanceInv'
  OBVIOUS
<1>1. ASSUME NEW c \in Commands, Requesting(c) PROVE GovernanceInv'
  <2>1. PICK r \in Approvals :
          \/ \E u \in Makers, after \in Owners \cup {"none"} : SubmitRead(c, r, u, after)
          \/ \E u \in Makers : Withdraw(c, r, u)
          \/ \E u \in Checkers, verdict \in {"APPROVED", "REJECTED"} : Decide(c, r, u, verdict)
          \/ \E u \in Actors : ApplyRead(c, r, u)
    BY <1>1 DEF Requesting
  <2>2. Makers \subseteq Actors /\ Checkers \subseteq Actors
    BY DEF Actors
  <2> QED BY <2>1, <2>2, SubmitReadInv, ReadersInv
<1>2. ASSUME NEW c \in Commands, Applier(c) PROVE GovernanceInv'
  BY <1>2, OwnerReadInv, OwnerChangeInv, DiffReadInv, DiffChangeInv, StartExecutionInv,
     StartRefusedInv, CancelExecutionInv, ReprocessLetterInv, ScheduleReadInv, ScheduleCreateInv
     DEF Applier
<1>3. CASE UNCHANGED governanceVars
  BY <1>3 DEF governanceVars, targets, GovernanceInv, GovernanceTypes, CommandsFit, InsertFits,
     ProcedureFits, InsertedByOne, RowsFit, RowFits, EffectsTraced, WasApproved, Trace
<1> QED BY <1>1, <1>2, <1>3, SubmitInsertInv, DecideCheckInv, TransitionInv, AbandonInv,
           EditDatasetInv, ObjectChangesInv DEF GovernanceNext

LEMMA GovernanceInvSafe == GovernanceInv => GovernanceTypeOK /\ ChangesAreApproved /\ ChangedOnce
<1> SUFFICES ASSUME GovernanceInv PROVE GovernanceTypeOK /\ ChangesAreApproved /\ ChangedOnce
  OBVIOUS
<1>1. GovernanceTypeOK
  BY DEF GovernanceInv, GovernanceTypes, GovernanceTypeOK, Insertion, Procedure
<1>2. ChangesAreApproved
  BY DEF GovernanceInv, EffectsTraced, ChangesAreApproved, WasApproved, Trace
<1>3. ChangedOnce
  <2> SUFFICES ASSUME NEW r \in Approvals PROVE effects[r] <= 1
    BY Zenon DEF ChangedOnce
  <2>1. effects[r] \in Nat /\ (effects[r] > 0 => effects[r] = 1)
    BY DEF GovernanceInv, GovernanceTypes, EffectsTraced
  <2> QED BY <2>1
<1> QED BY <1>1, <1>2, <1>3

\* Who changes the status of a row compares it with what was read.
LEMMA DecisionsStandStep ==
  ASSUME GovernanceInv, [GovernanceNext]_governanceVars, NEW r \in Approvals,
         approval[r] # NoRow, approval'[r].status # approval[r].status
  PROVE  \/ /\ approval[r].status = "SUBMITTED"
            /\ approval'[r].status \in Decided
         \/ /\ approval[r].status = "APPROVED"
            /\ approval'[r].status \in {"APPLIED", "APPLICATION_FAILED", "INVALIDATED"}
<1>1. ASSUME NEW c \in Commands, Transition(c)
      PROVE  \/ approval[r].status = "SUBMITTED" /\ approval'[r].status \in Decided
             \/ /\ approval[r].status = "APPROVED"
                /\ approval'[r].status \in {"APPLIED", "APPLICATION_FAILED", "INVALIDATED"}
  <2>1. command[c] \in Procedure /\ ProcedureFits(command[c]) /\ command[c].step = "write"
    BY <1>1, Shapes DEF Transition, GovernanceInv, GovernanceTypes, CommandsFit
  <2>2. PICK q, to : q = command[c].request /\ to = command[c].to
    OBVIOUS
  <2>3. q \in Approvals /\ to \in Outcomes /\ approval[q] \in ApprovalRow
    BY <2>1, <2>2 DEF Procedure, ProcedureFits
  <2>4. /\ approval[q].status = command[c].row.status
        /\ approval' = [approval EXCEPT ![q].status = to, ![q].version = @ + 1]
    BY <1>1, <2>2 DEF Transition
  <2>5. q = r
    BY <2>3, <2>4 DEF GovernanceInv, GovernanceTypes
  <2>6. approval'[r].status = to
    BY <2>3, <2>4, <2>5 DEF GovernanceInv, GovernanceTypes, ApprovalRow
  <2>7. \/ to \in {"APPROVED", "REJECTED", "WITHDRAWN"} \/ to \in {"APPLIED", "APPLICATION_FAILED"}
        \/ to = "INVALIDATED"
    BY <2>3 DEF Outcomes
  <2>8. \/ command[c].row.status = "SUBMITTED" /\ to \in Decided
        \/ command[c].row.status = "APPROVED" /\ to \in {"APPLIED", "APPLICATION_FAILED", "INVALIDATED"}
    BY <2>1, <2>2, <2>7 DEF ProcedureFits, Decided
  <2> QED BY <2>4, <2>5, <2>6, <2>8
<1>2. ASSUME NEW c \in Commands, SubmitInsert(c) PROVE FALSE
  <2>1. command[c] \in Insertion /\ InsertFits(command[c])
    BY <1>2, Shapes DEF SubmitInsert, GovernanceInv, GovernanceTypes, CommandsFit
  <2>2. approval[command[c].request] = NoRow
    BY <2>1 DEF InsertFits
  <2>3. approval' = [approval EXCEPT ![command[c].request] = command[c].row]
    BY <1>2 DEF SubmitInsert
  <2> QED BY <2>2, <2>3 DEF GovernanceInv, GovernanceTypes
<1>3. \E c \in Commands : Transition(c) \/ SubmitInsert(c)
  <2>1. approval' # approval
    OBVIOUS
  <2>2. ASSUME NEW c \in Commands, Requesting(c) PROVE FALSE
    BY <2>1, <2>2, Zenon DEF Requesting, SubmitRead, Withdraw, Decide, ApplyRead, Reads
  <2>3. ASSUME NEW c \in Commands, Applier(c) PROVE FALSE
    BY <2>1, <2>3 DEF Applier, OwnerRead, OwnerChange, DiffRead, DiffChange, StartExecution,
       StartRefused, CancelExecution, ReprocessLetter, ScheduleRead, ScheduleCreate, Goes
  <2> QED BY <2>1, <2>2, <2>3, Zenon DEF GovernanceNext, governanceVars, DecideCheck, Abandon,
             EditDataset, ObjectChanges
<1> QED BY <1>1, <1>2, <1>3

-----------------------------------------------------------------------------
(* Rules *)

\* There is a version on which the rule may be active.
Cleared == \E v \in passed : ~versions[v].critical \/ Approved(v)

\* What a command carries from its reads to its write.
RuleCarries(m) ==
  /\ m.step \in {"none", "version", "status", "request", "decide", "expire"}
  /\ m.step = "version" => m.number \in Nat /\ m.number <= MaxVersions /\ m.row \in Version
  /\ m.step = "status" => m.to \in {"ACTIVE", "PASSIVE"} /\ Cleared
  /\ m.step = "request" => /\ m.request \in RuleRequests /\ ruleRequest[m.request] = NoRequest
                           /\ m.row \in RequestRow /\ m.row.status = "PENDING" /\ m.row.version \in passed
  /\ m.step = "decide" =>
       /\ m.request \in RuleRequests /\ ruleRequest[m.request] # NoRequest
       /\ m.to \in {"APPROVED", "REJECTED", "WITHDRAWN"} /\ m.by \in Stewards \cup {"none"}
       /\ m.to = "APPROVED" =>
            m.by \notin {"none", ruleRequest[m.request].maker,
                         versions[ruleRequest[m.request].version].preparer}
  /\ m.step = "expire" => m.left \subseteq RuleRequests

CommandsRecorded == \E S : ruleCommand \in [RuleCommands -> S]

RuleTypes ==
  /\ ruleStatus \in RuleStatuses
  /\ versions \in Seq(Version) /\ Len(versions) <= MaxVersions /\ Len(versions) >= 1
  /\ lastPassed \subseteq passed /\ passed \subseteq 1..Latest
  /\ ruleRequest \in [RuleRequests -> RequestRow \cup {NoRequest}]
  /\ \A r \in RuleRequests : ruleRequest[r] # NoRequest => ruleRequest[r].version \in passed
  /\ overdue \subseteq RuleRequests
  /\ CommandsRecorded

CommandsCarry == \A c \in RuleCommands : RuleCarries(ruleCommand[c])

\* A request that is being added is in no other hands.
AddedByOne ==
  \A c, d \in RuleCommands :
    c # d /\ ruleCommand[c].step = "request" /\ ruleCommand[d].step = "request" =>
      ruleCommand[c].request # ruleCommand[d].request

RuleInv == RuleTypes /\ CommandsCarry /\ AddedByOne /\ (ruleStatus # "DRAFT" => Cleared)

LEMMA RowShapes ==
  /\ NoRequest.status = "none" /\ NoCommand.step = "none"
  /\ \A row \in RequestRow : row # NoRequest /\ row.status # "none" /\ row.version \in Nat
<1>1. NoRequest.status = "none" /\ NoCommand.step = "none" /\ "none" \notin RequestStatuses
  BY DEF NoRequest, NoCommand, RequestStatuses
<1>2. \A row \in RequestRow : row.status \in RequestStatuses /\ row.version \in Nat
  BY RuleAssumption DEF RequestRow, Versions
<1> QED BY <1>1, <1>2

LEMMA RuleInitInv == RuleInit => RuleInv
<1> SUFFICES ASSUME RuleInit PROVE RuleInv
  OBVIOUS
<1>1. PICK v \in Version : versions = <<v>>
  BY DEF RuleInit
<1>2. versions \in Seq(Version) /\ Len(versions) = 1
  BY <1>1
<1>3. ruleCommand \in [RuleCommands -> {NoCommand}]
  BY DEF RuleInit
<1>7. CommandsRecorded
  BY <1>3, Zenon DEF CommandsRecorded
<1>4. RuleTypes
  BY <1>2, <1>7, RuleAssumption DEF RuleInit, RuleTypes, RuleStatuses
<1>5. \A c \in RuleCommands : ruleCommand[c].step = "none"
  BY <1>3, RowShapes
<1>6. CommandsCarry /\ AddedByOne
  BY <1>5 DEF CommandsCarry, RuleCarries, AddedByOne
<1> QED BY <1>4, <1>6 DEF RuleInv, RuleInit

\* What says that a version is cleared stands when versions, tests and closed requests are added.
LEMMA ClearedStands ==
  ASSUME RuleInv, \A v \in 1..Latest : versions'[v] = versions[v], passed \subseteq passed',
         \A r \in RuleRequests : ruleRequest[r].status = "APPROVED" => ruleRequest'[r] = ruleRequest[r]
  PROVE  /\ Cleared => Cleared'
         /\ \A v \in 1..Latest : Approved(v) => Approved(v)'
<1>1. ASSUME NEW v \in 1..Latest, Approved(v) PROVE Approved(v)'
  <2>1. PICK r \in RuleRequests :
          /\ ruleRequest[r].status = "APPROVED" /\ ruleRequest[r].version = v
          /\ ruleRequest[r].checker \notin {"none", ruleRequest[r].maker, versions[v].preparer}
    BY <1>1 DEF Approved
  <2> QED BY <2>1 DEF Approved
<1>2. Cleared => Cleared'
  BY <1>1, Zenon DEF Cleared, RuleInv, RuleTypes
<1> QED BY <1>1, <1>2

\* A command moves on; the rows stay, or grow by what no command rests on.
LEMMA RuleCommandMoves ==
  ASSUME RuleInv, NEW c \in RuleCommands, NEW m, ruleCommand' = [ruleCommand EXCEPT ![c] = m],
         RuleCarries(m),
         m.step = "request" => \A d \in RuleCommands \ {c} :
                                 ruleCommand[d].step = "request" => ruleCommand[d].request # m.request,
         UNCHANGED <<ruleStatus, versions, passed, lastPassed, ruleRequest, overdue>>
  PROVE  RuleInv'
<1>1. ruleCommand'[c] = m /\ \A d \in RuleCommands \ {c} : ruleCommand'[d] = ruleCommand[d]
  BY DEF RuleInv, RuleTypes, CommandsRecorded
<1>2. RuleTypes'
  <2>1. PICK S : ruleCommand \in [RuleCommands -> S]
    BY Zenon DEF RuleInv, RuleTypes, CommandsRecorded
  <2>2. ruleCommand' \in [RuleCommands -> S \cup {m}]
    BY <2>1
  <2>3. CommandsRecorded'
    BY <2>2, Zenon DEF CommandsRecorded
  <2> QED BY <2>3 DEF RuleInv, RuleTypes, Latest
<1>3. Cleared' <=> Cleared
  BY DEF Cleared, Approved
<1>4. ASSUME NEW d \in RuleCommands PROVE RuleCarries(ruleCommand[d])'
  <2>1. PICK n : n = ruleCommand'[d]
    OBVIOUS
  <2>2. RuleCarries(n)
    BY <1>1, <2>1 DEF RuleInv, CommandsCarry
  <2>3. RuleCarries(n)'
    BY <1>3, <2>2 DEF RuleCarries
  <2> QED BY <2>1, <2>3
<1>5. AddedByOne'
  BY <1>1 DEF RuleInv, AddedByOne
<1> QED BY <1>2, <1>3, <1>4, <1>5 DEF RuleInv, CommandsCarry

LEMMA IdleFits == RuleCarries(NoCommand) /\ NoCommand.step # "request"
BY RowShapes DEF RuleCarries

LEMMA DropCommandInv == ASSUME RuleInv, NEW c \in RuleCommands, DropCommand(c) PROVE RuleInv'
BY IdleFits, RuleCommandMoves, Zenon DEF DropCommand

LEMMA CreateVersionReadInv ==
  ASSUME RuleInv, NEW c \in RuleCommands, NEW u \in Stewards, NEW critical \in BOOLEAN,
         CreateVersionRead(c, u, critical)
  PROVE  RuleInv'
<1>1. PICK m : m = [step |-> "version", number |-> Latest + 1,
                    row |-> [critical |-> critical, preparer |-> u]]
  BY Zenon
<1>2. Latest < MaxVersions /\ Latest \in Nat /\ MaxVersions \in Nat
  BY RuleAssumption DEF CreateVersionRead, Latest, RuleInv, RuleTypes
<1>3. m.step = "version" /\ m.number = Latest + 1 /\ m.row \in Version
  BY <1>1 DEF Version
<1>4. RuleCarries(m)
  BY <1>2, <1>3 DEF RuleCarries
<1> QED BY <1>1, <1>3, <1>4, RuleCommandMoves, Zenon DEF CreateVersionRead, StartsWith

LEMMA StatusReadInv ==
  ASSUME RuleInv, NEW c \in RuleCommands, ActivateRead(c) \/ PassivateRead(c)
  PROVE  RuleInv'
<1>1. PICK to \in {"ACTIVE", "PASSIVE"} : StartsWith(c, [step |-> "status", to |-> to])
  BY DEF ActivateRead, PassivateRead
<1>4. PICK m : m = [step |-> "status", to |-> to]
  BY Zenon
<1>2. Cleared
  <2>1. ActivateRead(c) => Cleared
    BY DEF ActivateRead, Cleared, RuleInv, RuleTypes
  <2>2. PassivateRead(c) => Cleared
    BY DEF PassivateRead, RuleInv
  <2> QED BY <2>1, <2>2
<1>3. RuleCarries(m) /\ m.step = "status"
  BY <1>2, <1>4 DEF RuleCarries
<1> QED BY <1>1, <1>3, <1>4, RuleCommandMoves, Zenon DEF StartsWith

LEMMA RequestReadInv ==
  ASSUME RuleInv, NEW c \in RuleCommands, NEW r \in RuleRequests, NEW u \in Stewards, RequestRead(c, r, u)
  PROVE  RuleInv'
<1>1. PICK row : row = [version |-> Latest, maker |-> u, status |-> "PENDING", checker |-> "none"]
  BY Zenon
<1>2. PICK m : m = [step |-> "request", request |-> r, row |-> row]
  BY Zenon
<1>3. Latest \in passed /\ Latest \in Versions
  BY RuleAssumption DEF RequestRead, RuleInv, RuleTypes, Latest, Versions
<1>4. row \in RequestRow /\ row.status = "PENDING" /\ row.version \in passed
  BY <1>1, <1>3 DEF RequestRow, RequestStatuses
<1>5. /\ ruleRequest[r] = NoRequest
      /\ \A d \in RuleCommands : ruleCommand[d].step = "request" => ruleCommand[d].request # r
  BY DEF RequestRead, UnusedRequest
<1>6. m.step = "request" /\ m.request = r /\ m.row = row
  BY <1>2
<1>7. RuleCarries(m)
  BY <1>4, <1>5, <1>6 DEF RuleCarries
<1>8. /\ ruleCommand' = [ruleCommand EXCEPT ![c] = m]
      /\ UNCHANGED <<ruleStatus, versions, passed, lastPassed, ruleRequest, overdue>>
  BY <1>1, <1>2 DEF RequestRead, StartsWith
<1> QED BY <1>5, <1>6, <1>7, <1>8, RuleCommandMoves, Zenon

LEMMA DecideReadInv ==
  ASSUME RuleInv, NEW c \in RuleCommands, NEW r \in RuleRequests,
         \/ \E u \in Deciders, verdict \in {"APPROVED", "REJECTED"} : DecideRead(c, r, u, verdict)
         \/ \E u \in Stewards : WithdrawRead(c, r, u)
  PROVE  RuleInv'
<1>1. ruleRequest[r] # NoRequest
  BY RowShapes, Zenon DEF DecideRead, WithdrawRead, Open
<1>2. ASSUME NEW by \in Stewards \cup {"none"}, NEW to \in {"APPROVED", "REJECTED", "WITHDRAWN"},
             to = "APPROVED" => by \notin {"none", ruleRequest[r].maker,
                                           versions[ruleRequest[r].version].preparer},
             StartsWith(c, [step |-> "decide", request |-> r, by |-> by, to |-> to])
      PROVE  RuleInv'
  <2>1. PICK m : m = [step |-> "decide", request |-> r, by |-> by, to |-> to]
    BY Zenon
  <2>2. m.step = "decide" /\ m.request = r /\ m.by = by /\ m.to = to
    BY <2>1
  <2>3. RuleCarries(m)
    BY <1>1, <1>2, <2>2 DEF RuleCarries
  <2>4. /\ ruleCommand' = [ruleCommand EXCEPT ![c] = m]
        /\ UNCHANGED <<ruleStatus, versions, passed, lastPassed, ruleRequest, overdue>>
    BY <1>2, <2>1 DEF StartsWith
  <2> QED BY <2>2, <2>3, <2>4, RuleCommandMoves, Zenon
<1>3. ASSUME NEW u \in Deciders, NEW verdict \in {"APPROVED", "REJECTED"}, DecideRead(c, r, u, verdict)
      PROVE  RuleInv'
  <2>1. u \in Stewards /\ u # "none"
    BY RuleAssumption
  <2> QED BY <1>2, <1>3, <2>1, Zenon DEF DecideRead
<1>4. ASSUME NEW u \in Stewards, WithdrawRead(c, r, u) PROVE RuleInv'
  BY <1>2, <1>4, Zenon DEF WithdrawRead
<1> QED BY <1>3, <1>4

LEMMA ExpireReadInv == ASSUME RuleInv, NEW c \in RuleCommands, ExpireRead(c) PROVE RuleInv'
<1>1. PICK m : m = [step |-> "expire", left |-> DueRequests]
  BY Zenon
<1>2. m.step = "expire" /\ m.left \subseteq RuleRequests
  BY <1>1 DEF DueRequests, RuleInv, RuleTypes
<1>3. RuleCarries(m)
  BY <1>2 DEF RuleCarries
<1> QED BY <1>1, <1>2, <1>3, RuleCommandMoves, Zenon DEF ExpireRead, StartsWith

\* Rows are written: what the commands carry rests on rows that stay.
LEMMA RuleRowsMove ==
  ASSUME RuleInv, RuleTypes', Cleared => Cleared', ruleStatus' # "DRAFT" => Cleared',
         \A d \in RuleCommands :
           \/ ruleCommand'[d] = ruleCommand[d]
           \/ /\ ruleCommand'[d].step \in {"none", "expire"}
              /\ ruleCommand'[d].step = "expire" => ruleCommand'[d].left \subseteq RuleRequests,
         passed \subseteq passed', \A v \in 1..Latest : versions'[v] = versions[v],
         \A r \in RuleRequests : ruleRequest[r] # NoRequest =>
           /\ ruleRequest'[r] # NoRequest /\ ruleRequest'[r].maker = ruleRequest[r].maker
           /\ ruleRequest'[r].version = ruleRequest[r].version,
         \A r \in RuleRequests : ruleRequest[r] = NoRequest /\ ruleRequest'[r] # NoRequest =>
           \E c \in RuleCommands : /\ ruleCommand[c].step = "request" /\ ruleCommand[c].request = r
                                   /\ ruleCommand'[c].step = "none"
  PROVE  RuleInv'
<1>1. ASSUME NEW d \in RuleCommands PROVE RuleCarries(ruleCommand[d])'
  <2>1. PICK n : n = ruleCommand'[d]
    OBVIOUS
  <2>2. CASE n # ruleCommand[d]
    <3>1. n.step \in {"none", "expire"} /\ (n.step = "expire" => n.left \subseteq RuleRequests)
      BY <2>1, <2>2
    <3>2. RuleCarries(n)'
      BY <3>1 DEF RuleCarries
    <3> QED BY <2>1, <3>2
  <2>3. CASE n = ruleCommand[d]
    <3>1. RuleCarries(n)
      BY <2>3 DEF RuleInv, CommandsCarry
    <3>2. n.step = "request" => ruleRequest'[n.request] = NoRequest
      <4> SUFFICES ASSUME n.step = "request", ruleRequest'[n.request] # NoRequest PROVE FALSE
        OBVIOUS
      <4>1. n.request \in RuleRequests /\ ruleRequest[n.request] = NoRequest
        BY <3>1 DEF RuleCarries
      <4>2. PICK c \in RuleCommands : /\ ruleCommand[c].step = "request" /\ ruleCommand[c].request = n.request
                                      /\ ruleCommand'[c].step = "none"
        BY <4>1
      <4>3. c # d
        BY <2>1, <4>2
      <4> QED BY <2>3, <4>2, <4>3 DEF RuleInv, AddedByOne
    <3>3. ASSUME n.step = "decide"
          PROVE  /\ ruleRequest'[n.request] # NoRequest
                 /\ ruleRequest'[n.request].maker = ruleRequest[n.request].maker
                 /\ versions'[ruleRequest'[n.request].version].preparer
                      = versions[ruleRequest[n.request].version].preparer
      <4>1. n.request \in RuleRequests /\ ruleRequest[n.request] # NoRequest
        BY <3>1, <3>3 DEF RuleCarries
      <4>2. ruleRequest[n.request].version \in 1..Latest
        BY <4>1, Zenon DEF RuleInv, RuleTypes
      <4> QED BY <4>1, <4>2
    <3>4. RuleCarries(n)'
      BY <3>1, <3>2, <3>3 DEF RuleCarries
    <3> QED BY <2>1, <3>4
  <2> QED BY <2>2, <2>3
<1>2. AddedByOne'
  BY DEF RuleInv, AddedByOne
<1> QED BY <1>1, <1>2 DEF RuleInv, CommandsCarry

\* A command that ends: nothing else of the commands changes.
LEMMA CommandEnds ==
  ASSUME RuleInv, NEW c \in RuleCommands, ruleCommand' = [ruleCommand EXCEPT ![c] = NoCommand]
  PROVE  /\ ruleCommand'[c] = NoCommand /\ NoCommand.step = "none"
         /\ \A d \in RuleCommands \ {c} : ruleCommand'[d] = ruleCommand[d]
         /\ CommandsRecorded'
<1>1. PICK S : ruleCommand \in [RuleCommands -> S]
  BY DEF RuleInv, RuleTypes, CommandsRecorded
<1>2. ruleCommand' \in [RuleCommands -> S \cup {NoCommand}]
  BY <1>1
<1>3. ruleCommand'[c] = NoCommand /\ \A d \in RuleCommands \ {c} : ruleCommand'[d] = ruleCommand[d]
  BY <1>1
<1>4. CommandsRecorded'
  BY <1>2, Zenon DEF CommandsRecorded
<1> QED BY <1>3, <1>4, RowShapes

LEMMA CreateVersionInv == ASSUME RuleInv, NEW c \in RuleCommands, CreateVersion(c) PROVE RuleInv'
<1>1. /\ ruleCommand' = [ruleCommand EXCEPT ![c] = NoCommand]
      /\ UNCHANGED <<ruleStatus, passed, lastPassed, ruleRequest, overdue>>
      /\ ruleCommand[c].step = "version" /\ RuleCarries(ruleCommand[c])
  BY DEF CreateVersion, Finishes, RuleInv, CommandsCarry
<1>2. /\ ruleCommand[c].number \in Nat /\ ruleCommand[c].number <= MaxVersions
      /\ ruleCommand[c].row \in Version
  BY <1>1 DEF RuleCarries
<1>3. versions \in Seq(Version) /\ Len(versions) \in Nat /\ Len(versions) <= MaxVersions /\ Len(versions) >= 1
  BY DEF RuleInv, RuleTypes
<1>4. /\ versions' \in Seq(Version) /\ Len(versions') <= MaxVersions /\ Len(versions') >= Len(versions)
      /\ \A v \in 1..Len(versions) : versions'[v] = versions[v]
  <2>1. CASE ruleCommand[c].number = Latest + 1
    <3>1. versions' = Append(versions, ruleCommand[c].row) /\ Len(versions) + 1 <= MaxVersions
      BY <1>2, <2>1 DEF CreateVersion, Latest
    <3> QED BY <1>2, <1>3, <3>1
  <2>2. CASE ruleCommand[c].number # Latest + 1
    BY <1>3, <2>2 DEF CreateVersion
  <2> QED BY <2>1, <2>2
<1>9. passed' \subseteq 1..Latest'
  <2>1. passed \subseteq 1..Len(versions)
    BY DEF RuleInv, RuleTypes, Latest
  <2>2. Len(versions') \in Nat
    BY <1>4
  <2>3. 1..Len(versions) \subseteq 1..Len(versions')
    BY <1>3, <1>4, <2>2
  <2> QED BY <1>1, <2>1, <2>3 DEF Latest
<1>10. Len(versions') >= 1
  <2>1. Len(versions') \in Nat
    BY <1>4
  <2> QED BY <1>3, <1>4, <2>1
<1>11. CommandsRecorded'
  BY <1>1, CommandEnds, Zenon
<1>5. RuleTypes'
  BY <1>1, <1>4, <1>9, <1>10, <1>11 DEF RuleInv, RuleTypes
<1>6. Cleared => Cleared'
  BY <1>1, <1>4, ClearedStands DEF Latest
<1>7. ruleStatus' # "DRAFT" => Cleared'
  BY <1>1, <1>6 DEF RuleInv
<1>8. \A d \in RuleCommands : ruleCommand'[d] = ruleCommand[d] \/ ruleCommand'[d].step = "none"
  BY <1>1, CommandEnds, Zenon
<1> QED BY <1>1, <1>4, <1>5, <1>6, <1>7, <1>8, RuleRowsMove DEF Latest

LEMMA TestRuleInv ==
  ASSUME RuleInv, NEW v, NEW succeeds, TestRule(v, succeeds)
  PROVE  RuleInv'
<1>1. /\ v \in 1..Latest /\ UNCHANGED <<ruleStatus, versions, ruleRequest, overdue, ruleCommand>>
      /\ passed' \in {passed, passed \cup {v}}
      /\ lastPassed' \subseteq passed'
  BY DEF TestRule, RuleInv, RuleTypes
<1>2. passed \subseteq passed' /\ passed' \subseteq 1..Latest
  BY <1>1 DEF RuleInv, RuleTypes
<1>3. RuleTypes'
  BY <1>1, <1>2, Zenon DEF RuleInv, RuleTypes, Latest, CommandsRecorded
<1>4. Cleared => Cleared'
  BY <1>1, <1>2, ClearedStands
<1>5. ruleStatus' # "DRAFT" => Cleared'
  BY <1>1, <1>4 DEF RuleInv
<1> QED BY <1>1, <1>2, <1>3, <1>4, <1>5, RuleRowsMove

LEMMA UpdateRuleStatusInv == ASSUME RuleInv, NEW c \in RuleCommands, UpdateRuleStatus(c) PROVE RuleInv'
<1>1. /\ ruleCommand' = [ruleCommand EXCEPT ![c] = NoCommand]
      /\ UNCHANGED <<versions, passed, lastPassed, ruleRequest, overdue>>
      /\ ruleCommand[c].step = "status" /\ RuleCarries(ruleCommand[c]) /\ ruleStatus' = ruleCommand[c].to
  BY DEF UpdateRuleStatus, Finishes, RuleInv, CommandsCarry
<1>2. ruleStatus' \in {"ACTIVE", "PASSIVE"} /\ Cleared
  BY <1>1 DEF RuleCarries
<1>3. Cleared'
  BY <1>1, <1>2, ClearedStands
<1>4. RuleTypes'
  BY <1>1, <1>2, CommandEnds, Zenon DEF RuleInv, RuleTypes, RuleStatuses, Latest
<1>5. \A d \in RuleCommands : ruleCommand'[d] = ruleCommand[d] \/ ruleCommand'[d].step = "none"
  BY <1>1, CommandEnds, Zenon
<1> QED BY <1>1, <1>3, <1>4, <1>5, RuleRowsMove

LEMMA AddRequestInv == ASSUME RuleInv, NEW c \in RuleCommands, AddRequest(c) PROVE RuleInv'
<1>1. /\ ruleCommand' = [ruleCommand EXCEPT ![c] = NoCommand]
      /\ UNCHANGED <<ruleStatus, versions, passed, lastPassed, overdue>>
      /\ ruleCommand[c].step = "request" /\ RuleCarries(ruleCommand[c])
  BY DEF AddRequest, Finishes, RuleInv, CommandsCarry
<1>2. CASE HasPending(ruleCommand[c].row.version)
  <2>1. ruleRequest' = ruleRequest
    BY <1>2 DEF AddRequest
  <2> QED BY <1>1, <2>1, IdleFits, RuleCommandMoves, Zenon
<1>3. CASE ~HasPending(ruleCommand[c].row.version)
  <2>1. PICK r, row : r = ruleCommand[c].request /\ row = ruleCommand[c].row
    OBVIOUS
  <2>2. /\ r \in RuleRequests /\ ruleRequest[r] = NoRequest
        /\ row \in RequestRow /\ row.status = "PENDING" /\ row.version \in passed
    BY <1>1, <2>1 DEF RuleCarries
  <2>3. ruleRequest' = [ruleRequest EXCEPT ![r] = row]
    BY <1>3, <2>1 DEF AddRequest
  <2>4. ruleRequest'[r] = row /\ \A q \in RuleRequests \ {r} : ruleRequest'[q] = ruleRequest[q]
    BY <2>2, <2>3 DEF RuleInv, RuleTypes
  <2>5. ruleRequest' \in [RuleRequests -> RequestRow \cup {NoRequest}]
    BY <2>2, <2>3 DEF RuleInv, RuleTypes
  <2>6. RuleTypes'
    BY <1>1, <2>2, <2>4, <2>5, CommandEnds, Zenon DEF RuleInv, RuleTypes, Latest
  <2>7. NoRequest.status # "APPROVED"
    BY RowShapes
  <2>8. Cleared => Cleared'
    BY <1>1, <2>2, <2>4, <2>7, ClearedStands
  <2>9. ruleStatus' # "DRAFT" => Cleared'
    BY <1>1, <2>8 DEF RuleInv
  <2>10. \A d \in RuleCommands : ruleCommand'[d] = ruleCommand[d] \/ ruleCommand'[d].step = "none"
    BY <1>1, CommandEnds, Zenon
  <2>11. \A q \in RuleRequests : ruleRequest[q] # NoRequest => ruleRequest'[q] = ruleRequest[q]
    BY <2>2, <2>4
  <2>12. \A q \in RuleRequests : ruleRequest[q] = NoRequest /\ ruleRequest'[q] # NoRequest =>
           /\ ruleCommand[c].step = "request" /\ ruleCommand[c].request = q
           /\ ruleCommand'[c].step = "none"
    BY <1>1, <2>1, <2>4, CommandEnds, Zenon
  <2> QED BY <1>1, <2>6, <2>8, <2>9, <2>10, <2>11, <2>12, RuleRowsMove
<1> QED BY <1>2, <1>3

\* The status of a request changes, and with APPROVED the rule becomes active.
LEMMA RequestClosed ==
  ASSUME RuleInv, NEW r \in RuleRequests, ruleRequest[r].status = "PENDING",
         NEW to \in RequestStatuses, NEW by \in Stewards \cup {"none"},
         \/ ruleRequest' = [ruleRequest EXCEPT ![r].status = to]
         \/ ruleRequest' = [ruleRequest EXCEPT ![r].status = to, ![r].checker = by]
  PROVE  /\ ruleRequest' \in [RuleRequests -> RequestRow \cup {NoRequest}]
         /\ ruleRequest[r] \in RequestRow /\ ruleRequest'[r] \in RequestRow /\ ruleRequest'[r] # NoRequest
         /\ ruleRequest'[r].status = to /\ ruleRequest'[r].maker = ruleRequest[r].maker
         /\ ruleRequest'[r].version = ruleRequest[r].version
         /\ \A q \in RuleRequests \ {r} : ruleRequest'[q] = ruleRequest[q]
         /\ ruleRequest' = [ruleRequest EXCEPT ![r].status = to, ![r].checker = by] =>
              ruleRequest'[r].checker = by
<1>1. ruleRequest[r] \in RequestRow
  BY RowShapes DEF RuleInv, RuleTypes
<1>2. PICK row : row = IF ruleRequest' = [ruleRequest EXCEPT ![r].status = to, ![r].checker = by]
                       THEN [ruleRequest[r] EXCEPT !.status = to, !.checker = by]
                       ELSE [ruleRequest[r] EXCEPT !.status = to]
  OBVIOUS
<1>3. /\ row \in RequestRow /\ row.status = to /\ row.maker = ruleRequest[r].maker
      /\ row.version = ruleRequest[r].version
      /\ ruleRequest' = [ruleRequest EXCEPT ![r].status = to, ![r].checker = by] => row.checker = by
  BY <1>1, <1>2, Zenon DEF RequestRow
<1>4. ruleRequest' = [ruleRequest EXCEPT ![r] = row]
  BY <1>2, Zenon DEF RuleInv, RuleTypes
<1> QED BY <1>1, <1>3, <1>4, RowShapes DEF RuleInv, RuleTypes

LEMMA CloseRequestInv == ASSUME RuleInv, NEW c \in RuleCommands, CloseRequest(c) PROVE RuleInv'
<1>1. /\ ruleCommand' = [ruleCommand EXCEPT ![c] = NoCommand]
      /\ UNCHANGED <<versions, passed, lastPassed, overdue>>
      /\ ruleCommand[c].step = "decide" /\ RuleCarries(ruleCommand[c])
  BY DEF CloseRequest, Finishes, RuleInv, CommandsCarry
<1>2. PICK r, to, by : r = ruleCommand[c].request /\ to = ruleCommand[c].to /\ by = ruleCommand[c].by
  BY Zenon
<1>3. /\ r \in RuleRequests /\ to \in {"APPROVED", "REJECTED", "WITHDRAWN"} /\ by \in Stewards \cup {"none"}
      /\ to = "APPROVED" => by \notin {"none", ruleRequest[r].maker, versions[ruleRequest[r].version].preparer}
  BY <1>1, <1>2 DEF RuleCarries
<1>4. CASE ruleRequest[r].status = "PENDING" /\ (to = "APPROVED" => ruleStatus = "DRAFT")
  <2>1. /\ ruleRequest' = [ruleRequest EXCEPT ![r].status = to, ![r].checker = by]
        /\ ruleStatus' = IF to = "APPROVED" THEN "ACTIVE" ELSE ruleStatus
    BY <1>2, <1>4 DEF CloseRequest
  <2>2. to \in RequestStatuses
    BY <1>3 DEF RequestStatuses
  <2>3. /\ ruleRequest' \in [RuleRequests -> RequestRow \cup {NoRequest}]
        /\ ruleRequest[r] \in RequestRow /\ ruleRequest'[r] \in RequestRow /\ ruleRequest'[r] # NoRequest
        /\ ruleRequest'[r].status = to /\ ruleRequest'[r].maker = ruleRequest[r].maker
        /\ ruleRequest'[r].version = ruleRequest[r].version /\ ruleRequest'[r].checker = by
        /\ \A q \in RuleRequests \ {r} : ruleRequest'[q] = ruleRequest[q]
    BY <1>3, <1>4, <2>1, <2>2, RequestClosed, Zenon
  <2>4. ruleRequest[r] # NoRequest /\ ruleRequest[r].version \in passed
    BY <1>3, <2>3, RowShapes DEF RuleInv, RuleTypes
  <2>11. ruleStatus' \in RuleStatuses
    BY <2>1 DEF RuleInv, RuleTypes, RuleStatuses
  <2>12. \A q \in RuleRequests : ruleRequest'[q] # NoRequest => ruleRequest'[q].version \in passed
    BY <2>3, <2>4 DEF RuleInv, RuleTypes
  <2>13. CommandsRecorded'
    BY <1>1, CommandEnds, Zenon
  <2>5. RuleTypes'
    BY <1>1, <2>3, <2>11, <2>12, <2>13 DEF RuleInv, RuleTypes, Latest
  <2>6. Cleared => Cleared'
    BY <1>1, <1>4, <2>3, ClearedStands
  <2>7. ruleStatus' # "DRAFT" => Cleared'
    <3>1. CASE to = "APPROVED"
      <4>1. PICK v : v = ruleRequest[r].version
        OBVIOUS
      <4>2. /\ ruleRequest'[r].status = "APPROVED" /\ ruleRequest'[r].version = v
            /\ ruleRequest'[r].checker \notin {"none", ruleRequest'[r].maker, versions'[v].preparer}
        BY <1>1, <1>3, <2>3, <3>1, <4>1
      <4>3. Approved(v)'
        BY <1>3, <4>2 DEF Approved
      <4>4. v \in passed'
        BY <1>1, <2>4, <4>1
      <4> QED BY <4>3, <4>4 DEF Cleared
    <3>2. CASE to # "APPROVED"
      BY <2>1, <2>6, <3>2 DEF RuleInv
    <3> QED BY <3>1, <3>2
  <2>8. \A d \in RuleCommands : ruleCommand'[d] = ruleCommand[d] \/ ruleCommand'[d].step = "none"
    BY <1>1, CommandEnds, Zenon
  <2>9. \A q \in RuleRequests : ruleRequest[q] # NoRequest =>
          /\ ruleRequest'[q] # NoRequest /\ ruleRequest'[q].maker = ruleRequest[q].maker
          /\ ruleRequest'[q].version = ruleRequest[q].version
    BY <2>3
  <2>10. \A q \in RuleRequests : ~(ruleRequest[q] = NoRequest /\ ruleRequest'[q] # NoRequest)
    BY <2>3, <2>4
  <2> QED BY <1>1, <2>5, <2>6, <2>7, <2>8, <2>9, <2>10, RuleRowsMove
<1>5. CASE ~(ruleRequest[r].status = "PENDING" /\ (to = "APPROVED" => ruleStatus = "DRAFT"))
  <2>1. UNCHANGED <<ruleRequest, ruleStatus>>
    BY <1>2, <1>5 DEF CloseRequest
  <2> QED BY <1>1, <2>1, IdleFits, RuleCommandMoves, Zenon
<1> QED BY <1>4, <1>5

LEMMA ExpireNextInv ==
  ASSUME RuleInv, NEW c \in RuleCommands, NEW r \in RuleRequests, ExpireNext(c, r)
  PROVE  RuleInv'
<1>1. /\ UNCHANGED <<ruleStatus, versions, passed, lastPassed, overdue>>
      /\ ruleCommand[c].step = "expire" /\ RuleCarries(ruleCommand[c])
  BY DEF ExpireNext, RuleInv, CommandsCarry
<1>2. CASE ruleRequest[r].status = "PENDING"
  <2>1. PICK left : left = ruleCommand[c].left \ {r}
    BY Zenon
  <2>2. PICK m : m = IF left = {} THEN NoCommand ELSE [step |-> "expire", left |-> left]
    BY Zenon
  <2>3. m.step \in {"none", "expire"} /\ (m.step = "expire" => m.left \subseteq RuleRequests)
    BY <1>1, <2>1, <2>2, RowShapes DEF RuleCarries
  <2>4. /\ ruleRequest' = [ruleRequest EXCEPT ![r].status = "EXPIRED"]
        /\ ruleCommand' = [ruleCommand EXCEPT ![c] = m]
    BY <1>2, <2>1, <2>2 DEF ExpireNext
  <2>5. "EXPIRED" \in RequestStatuses /\ "none" \in Stewards \cup {"none"}
    BY DEF RequestStatuses
  <2>6. /\ ruleRequest' \in [RuleRequests -> RequestRow \cup {NoRequest}]
        /\ ruleRequest[r] \in RequestRow /\ ruleRequest'[r] \in RequestRow /\ ruleRequest'[r] # NoRequest
        /\ ruleRequest'[r].maker = ruleRequest[r].maker /\ ruleRequest'[r].version = ruleRequest[r].version
        /\ \A q \in RuleRequests \ {r} : ruleRequest'[q] = ruleRequest[q]
    BY <1>2, <2>4, <2>5, RequestClosed, Zenon
  <2>7. ruleRequest[r] # NoRequest /\ ruleRequest[r].version \in passed
    BY <2>6, RowShapes DEF RuleInv, RuleTypes
  <2>8. PICK S : ruleCommand \in [RuleCommands -> S]
    BY DEF RuleInv, RuleTypes, CommandsRecorded
  <2>9. ruleCommand' \in [RuleCommands -> S \cup {m}]
    BY <2>4, <2>8
  <2>17. CommandsRecorded'
    BY <2>9, Zenon DEF CommandsRecorded
  <2>10. /\ CommandsRecorded'
         /\ ruleCommand'[c] = m /\ \A d \in RuleCommands \ {c} : ruleCommand'[d] = ruleCommand[d]
    BY <2>4, <2>8, <2>17
  <2>11. RuleTypes'
    BY <1>1, <2>6, <2>7, <2>10 DEF RuleInv, RuleTypes, Latest
  <2>12. Cleared => Cleared'
    BY <1>1, <1>2, <2>6, ClearedStands
  <2>13. ruleStatus' # "DRAFT" => Cleared'
    BY <1>1, <2>12 DEF RuleInv
  <2>14. \A d \in RuleCommands :
           \/ ruleCommand'[d] = ruleCommand[d]
           \/ /\ ruleCommand'[d].step \in {"none", "expire"}
              /\ ruleCommand'[d].step = "expire" => ruleCommand'[d].left \subseteq RuleRequests
    BY <2>3, <2>10
  <2>15. \A q \in RuleRequests : ruleRequest[q] # NoRequest =>
          /\ ruleRequest'[q] # NoRequest /\ ruleRequest'[q].maker = ruleRequest[q].maker
          /\ ruleRequest'[q].version = ruleRequest[q].version
    BY <2>6
  <2>16. \A q \in RuleRequests : ~(ruleRequest[q] = NoRequest /\ ruleRequest'[q] # NoRequest)
    BY <2>6, <2>7
  <2> QED BY <1>1, <2>11, <2>12, <2>13, <2>14, <2>15, <2>16, RuleRowsMove
<1>3. CASE ruleRequest[r].status # "PENDING"
  <2>1. ruleCommand' = [ruleCommand EXCEPT ![c] = NoCommand] /\ UNCHANGED ruleRequest
    BY <1>3 DEF ExpireNext
  <2> QED BY <1>1, <2>1, IdleFits, RuleCommandMoves, Zenon
<1> QED BY <1>2, <1>3

LEMMA BecomesOverdueInv == ASSUME RuleInv, NEW r \in RuleRequests, BecomesOverdue(r) PROVE RuleInv'
<1>1. /\ overdue' = overdue \cup {r}
      /\ UNCHANGED <<ruleStatus, versions, passed, lastPassed, ruleRequest, ruleCommand>>
  BY DEF BecomesOverdue
<1>2. RuleTypes'
  BY <1>1 DEF RuleInv, RuleTypes, Latest, CommandsRecorded
<1>3. Cleared => Cleared'
  BY <1>1, ClearedStands
<1>4. ruleStatus' # "DRAFT" => Cleared'
  BY <1>1, <1>3 DEF RuleInv
<1> QED BY <1>1, <1>2, <1>3, <1>4, RuleRowsMove

LEMMA RuleNextInv == RuleInv /\ [RuleNext]_ruleVars => RuleInv'
<1> SUFFICES ASSUME RuleInv, [RuleNext]_ruleVars PROVE RuleInv'
  OBVIOUS
<1>1. ASSUME NEW c \in RuleCommands, RuleCommand(c) PROVE RuleInv'
  BY <1>1, CreateVersionInv, StatusReadInv, UpdateRuleStatusInv, AddRequestInv, CloseRequestInv,
     ExpireReadInv, DropCommandInv, CreateVersionReadInv, ExpireNextInv, RequestReadInv,
     DecideReadInv DEF RuleCommand
<1>2. ASSUME UNCHANGED ruleVars PROVE RuleInv'
  BY <1>2, Zenon DEF ruleVars, RuleInv, RuleTypes, CommandsCarry, RuleCarries, AddedByOne, Cleared,
     Approved, Latest, CommandsRecorded
<1> QED BY <1>1, <1>2, TestRuleInv, BecomesOverdueInv DEF RuleNext

LEMMA RuleInvSafe == RuleInv => RuleTypeOK /\ ActivationWasCleared
<1> SUFFICES ASSUME RuleInv PROVE RuleTypeOK /\ ActivationWasCleared
  OBVIOUS
<1>1. Len(versions) \in Versions
  BY RuleAssumption DEF RuleInv, RuleTypes, Versions
<1>2. \A r \in RuleRequests : ruleRequest[r] # NoRequest =>
        ruleRequest[r] \in RequestRow /\ ruleRequest[r].version <= Latest
  <2>1. ASSUME NEW r \in RuleRequests, ruleRequest[r] # NoRequest
        PROVE  ruleRequest[r] \in RequestRow /\ ruleRequest[r].version \in 1..Latest
    BY <2>1, Zenon DEF RuleInv, RuleTypes
  <2> QED BY <2>1
<1>3. RuleTypeOK
  BY <1>1, <1>2 DEF RuleInv, RuleTypes, CommandsCarry, RuleCarries, RuleTypeOK
<1> QED BY <1>3 DEF RuleInv, ActivationWasCleared, Cleared

\* A row is changed only while it is PENDING, and to APPROVED with the rule.
LEMMA ApprovalActivatesStep ==
  ASSUME RuleInv, [RuleNext]_ruleVars, NEW r \in RuleRequests, ruleRequest[r] # NoRequest,
         ruleRequest'[r] # ruleRequest[r]
  PROVE  /\ ruleRequest[r].status = "PENDING"
         /\ ruleRequest'[r].status = "APPROVED" => ruleStatus = "DRAFT" /\ ruleStatus' = "ACTIVE"
<1>1. ASSUME NEW c \in RuleCommands, AddRequest(c) PROVE FALSE
  <2>1. ruleRequest[ruleCommand[c].request] = NoRequest
    BY <1>1 DEF AddRequest, Finishes, RuleInv, CommandsCarry, RuleCarries
  <2> QED BY <1>1, <2>1 DEF AddRequest, RuleInv, RuleTypes
<1>2. ASSUME NEW c \in RuleCommands, CloseRequest(c)
      PROVE  /\ ruleRequest[r].status = "PENDING"
             /\ ruleRequest'[r].status = "APPROVED" => ruleStatus = "DRAFT" /\ ruleStatus' = "ACTIVE"
  <2>1. PICK q, to, by : q = ruleCommand[c].request /\ to = ruleCommand[c].to /\ by = ruleCommand[c].by
    BY Zenon
  <2>2. /\ ruleRequest[q].status = "PENDING" /\ (to = "APPROVED" => ruleStatus = "DRAFT")
        /\ ruleRequest' = [ruleRequest EXCEPT ![q].status = to, ![q].checker = by]
        /\ ruleStatus' = IF to = "APPROVED" THEN "ACTIVE" ELSE ruleStatus
    BY <1>2, <2>1 DEF CloseRequest
  <2>3. q = r
    BY <2>2 DEF RuleInv, RuleTypes
  <2>4. ruleCommand[c].step = "decide" /\ RuleCarries(ruleCommand[c])
    BY <1>2 DEF CloseRequest, Finishes, RuleInv, CommandsCarry
  <2>5. to \in {"APPROVED", "REJECTED", "WITHDRAWN"} /\ by \in Stewards \cup {"none"}
    BY <2>1, <2>4 DEF RuleCarries
  <2>6. ruleRequest'[r].status = to
    BY <2>2, <2>3, <2>5, RequestClosed, Zenon DEF RequestStatuses
  <2> QED BY <2>2, <2>3, <2>6
<1>3. ASSUME NEW c \in RuleCommands, NEW q \in RuleRequests, ExpireNext(c, q)
      PROVE  ruleRequest[r].status = "PENDING" /\ ruleRequest'[r].status # "APPROVED"
  <2>1. /\ ruleRequest[q].status = "PENDING"
        /\ ruleRequest' = [ruleRequest EXCEPT ![q].status = "EXPIRED"]
    BY <1>3 DEF ExpireNext
  <2>2. q = r
    BY <2>1 DEF RuleInv, RuleTypes
  <2>3. ruleRequest'[r].status = "EXPIRED"
    BY <2>1, <2>2, RequestClosed DEF RequestStatuses
  <2> QED BY <2>1, <2>2, <2>3
<1>4. \E c \in RuleCommands : AddRequest(c) \/ CloseRequest(c) \/ \E q \in RuleRequests : ExpireNext(c, q)
  BY DEF RuleNext, RuleCommand, ruleVars, CreateVersion, ActivateRead, PassivateRead,
     UpdateRuleStatus, ExpireRead, DropCommand, CreateVersionRead, RequestRead, WithdrawRead,
     DecideRead, StartsWith, TestRule, BecomesOverdue
<1> QED BY <1>1, <1>2, <1>3, <1>4

-----------------------------------------------------------------------------
(* Scoring configurations *)

Known == Configurations \cup {"default"}

\* What a decision carries to its commit.
DecisionCarries(d) ==
  /\ d.step \in {"none", "latest", "decide", "refused"}
  /\ d.step \in {"latest", "decide"} =>
       /\ d.of \in Configurations /\ config[d.of] \in ConfigRow
       /\ d.to \in {"APPROVED", "REJECTED"} /\ d.by \in ScoringActors /\ d.by # config[d.of].maker

\* The one configuration in force is the migration's or was approved by a second person.
Approves(k) ==
  /\ inForce = {k} /\ k \in Known /\ config[k] \in ConfigRow /\ config[k].status = "APPROVED"
  /\ k # "default" => config[k].checker # config[k].maker

ScoringInv ==
  /\ config \in [Known -> ConfigRow \cup {NoConfig}]
  /\ \E k \in Known : Approves(k)
  /\ submissions = Cardinality({k \in Configurations : config[k] # NoConfig})
  /\ \A c \in ScoringDecisions : DecisionCarries(decider[c])
  /\ DOMAIN decider = ScoringDecisions

LEMMA ConfigShapes ==
  /\ NoConfig.status = "none" /\ Waiting.step = "none"
  /\ \A row \in ConfigRow : row # NoConfig /\ row.status # "none"
<1>1. NoConfig.status = "none" /\ Waiting.step = "none"
  BY DEF NoConfig, Waiting
<1>2. \A row \in ConfigRow : row.status \in {"PREPARED", "PENDING", "APPROVED", "REJECTED"}
  BY DEF ConfigRow
<1> QED BY <1>1, <1>2

LEMMA ScoringInitInv == ScoringInit => ScoringInv
<1> SUFFICES ASSUME ScoringInit PROVE ScoringInv
  OBVIOUS
<1>1. Default \in ConfigRow /\ Default.status = "APPROVED"
  BY ScoringAssumption DEF Default, ConfigRow
<1>2. /\ config \in [Known -> ConfigRow \cup {NoConfig}] /\ config["default"] = Default
      /\ \A k \in Configurations : config[k] = NoConfig
  BY <1>1, ScoringAssumption DEF ScoringInit, Known
<1>3. Approves("default")
  BY <1>1, <1>2 DEF ScoringInit, Approves, Known
<1>4. {k \in Configurations : config[k] # NoConfig} = {}
  BY <1>2
<1>5. submissions = Cardinality({k \in Configurations : config[k] # NoConfig})
  BY <1>4, FS_EmptySet DEF ScoringInit
<1>6. \A c \in ScoringDecisions : DecisionCarries(decider[c])
  BY ConfigShapes DEF ScoringInit, DecisionCarries
<1>7. DOMAIN decider = ScoringDecisions /\ "default" \in Known
  BY DEF ScoringInit, Known
<1> QED BY <1>2, <1>3, <1>5, <1>6, <1>7 DEF ScoringInv

LEMMA SubmissionsBounded ==
  ASSUME ScoringInv
  PROVE  /\ submissions \in 0..Cardinality(Configurations)
         /\ IsFiniteSet({k \in Configurations : config[k] # NoConfig})
<1>1. /\ IsFiniteSet({k \in Configurations : config[k] # NoConfig})
      /\ Cardinality({k \in Configurations : config[k] # NoConfig}) <= Cardinality(Configurations)
  BY ScoringAssumption, FS_Subset
<1>2. Cardinality({k \in Configurations : config[k] # NoConfig}) \in Nat /\ Cardinality(Configurations) \in Nat
  BY <1>1, ScoringAssumption, FS_CardinalityType
<1> QED BY <1>1, <1>2 DEF ScoringInv

\* A decision moves on while the configurations stay.
LEMMA DecisionMoves ==
  ASSUME ScoringInv, NEW c \in ScoringDecisions, NEW d, Decides(c, d), DecisionCarries(d),
         UNCHANGED <<config, inForce, submissions>>
  PROVE  ScoringInv'
<1>1. /\ DOMAIN decider' = ScoringDecisions /\ decider'[c] = d
      /\ \A b \in ScoringDecisions \ {c} : decider'[b] = decider[b]
  BY DEF Decides, ScoringInv
<1>2. ASSUME NEW b \in ScoringDecisions PROVE DecisionCarries(decider[b])'
  <2>1. PICK n : n = decider'[b]
    OBVIOUS
  <2>2. DecisionCarries(n)
    BY <1>1, <2>1 DEF ScoringInv
  <2>3. DecisionCarries(n)'
    BY <2>2 DEF DecisionCarries
  <2> QED BY <2>1, <2>3
<1>3. (\E k \in Known : Approves(k))'
  BY DEF ScoringInv, Approves, Known
<1>4. (submissions = Cardinality({k \in Configurations : config[k] # NoConfig}))'
  BY DEF ScoringInv
<1> QED BY <1>1, <1>2, <1>3, <1>4 DEF ScoringInv, Known

LEMMA WaitingFits == DecisionCarries(Waiting) /\ DecisionCarries([step |-> "refused"])
BY ConfigShapes DEF DecisionCarries

\* One row changes, keeps its maker, and the row in force is as it has to be.
LEMMA ConfigMoves ==
  ASSUME ScoringInv, NEW k \in Configurations, NEW row \in ConfigRow,
         config' = [config EXCEPT ![k] = row],
         config[k] # NoConfig => row.maker = config[k].maker,
         \E m \in Known : Approves(m)',
         submissions' = IF config[k] = NoConfig THEN submissions + 1 ELSE submissions,
         DOMAIN decider' = ScoringDecisions,
         \A b \in ScoringDecisions : decider'[b] = decider[b] \/ decider'[b] = Waiting
  PROVE  ScoringInv'
<1>1. /\ config' \in [Known -> ConfigRow \cup {NoConfig}] /\ config'[k] = row
      /\ \A j \in Known \ {k} : config'[j] = config[j]
  BY DEF ScoringInv, Known
<1>2. ASSUME NEW b \in ScoringDecisions PROVE DecisionCarries(decider[b])'
  <2>1. PICK n : n = decider'[b]
    OBVIOUS
  <2>2. DecisionCarries(n)
    BY <2>1, WaitingFits DEF ScoringInv
  <2>3. n.step \in {"latest", "decide"} =>
          config'[n.of] \in ConfigRow /\ config'[n.of].maker = config[n.of].maker
    BY <1>1, <2>2, ConfigShapes DEF DecisionCarries, Known
  <2>4. DecisionCarries(n)'
    BY <2>2, <2>3 DEF DecisionCarries
  <2> QED BY <2>1, <2>4
<1>3. submissions' = Cardinality({j \in Configurations : config'[j] # NoConfig})
  <2> DEFINE known == {j \in Configurations : config[j] # NoConfig}
             known2 == {j \in Configurations : config'[j] # NoConfig}
  <2>1. known2 = known \cup {k}
    BY <1>1, ConfigShapes DEF Known
  <2>2. IsFiniteSet(known) /\ submissions = Cardinality(known)
    BY SubmissionsBounded DEF ScoringInv
  <2>3. Cardinality(known \cup {k}) = IF k \in known THEN Cardinality(known) ELSE Cardinality(known) + 1
    BY <2>2, FS_AddElement
  <2> QED BY <2>1, <2>2, <2>3, Zenon
<1> QED BY <1>1, <1>2, <1>3 DEF ScoringInv, Known

LEMMA PrepareConfigurationInv ==
  ASSUME ScoringInv, NEW k \in Configurations, NEW u \in ScoringActors, NEW scope \in Scopes,
         PrepareConfiguration(k, u, scope)
  PROVE  ScoringInv'
<1>1. PICK row : row = [status |-> "PREPARED", scope |-> scope, maker |-> u,
                        checker |-> "none", at |-> submissions + 1]
  BY Zenon
<1>2. submissions \in Nat
  BY SubmissionsBounded
<1>3. row \in ConfigRow
  BY <1>1, <1>2 DEF ConfigRow
<1>4. PICK m \in Known : Approves(m)
  BY DEF ScoringInv
<1>5. m # k
  BY <1>4, ConfigShapes DEF Approves, PrepareConfiguration
<1>6. Approves(m)'
  BY <1>4, <1>5 DEF Approves, PrepareConfiguration, ScoringInv, Known
<1>7. \E n \in Known : Approves(n)'
  BY <1>6
<1>8. /\ config[k] = NoConfig /\ submissions' = submissions + 1 /\ decider' = decider
      /\ config' = [config EXCEPT ![k] = row]
  BY <1>1 DEF PrepareConfiguration
<1>9. DOMAIN decider' = ScoringDecisions
  BY <1>8 DEF ScoringInv
<1> QED BY <1>3, <1>7, <1>8, <1>9, ConfigMoves, Zenon

LEMMA SubmitConfigurationInv ==
  ASSUME ScoringInv, NEW k \in Configurations, SubmitConfiguration(k)
  PROVE  ScoringInv'
<1>1. config[k] \in ConfigRow /\ config[k].status = "PREPARED"
  BY ConfigShapes DEF SubmitConfiguration, ScoringInv, Known
<1>2. PICK row : row = [config[k] EXCEPT !.status = "PENDING"]
  BY Zenon
<1>3. row \in ConfigRow /\ row.maker = config[k].maker
  BY <1>1, <1>2 DEF ConfigRow
<1>4. config' = [config EXCEPT ![k] = row]
  BY <1>2 DEF SubmitConfiguration, ScoringInv
<1>5. PICK m \in Known : Approves(m)
  BY DEF ScoringInv
<1>6. m # k
  BY <1>1, <1>5 DEF Approves
<1>7. Approves(m)'
  BY <1>4, <1>5, <1>6 DEF Approves, SubmitConfiguration, ScoringInv, Known
<1>8. \E n \in Known : Approves(n)'
  BY <1>7
<1>9. config[k] # NoConfig /\ submissions' = submissions /\ decider' = decider
  BY <1>1, ConfigShapes DEF SubmitConfiguration
<1>10. DOMAIN decider' = ScoringDecisions
  BY <1>9 DEF ScoringInv
<1> QED BY <1>3, <1>4, <1>8, <1>9, <1>10, ConfigMoves, Zenon

LEMMA DecideConfigurationInv ==
  ASSUME ScoringInv, NEW c \in ScoringDecisions, NEW k \in Configurations, NEW u \in ScoringActors,
         NEW verdict \in {"APPROVED", "REJECTED"}, DecideConfiguration(c, k, u, verdict)
  PROVE  ScoringInv'
<1>1. PICK d : d = [step |-> "latest", of |-> k, by |-> u, to |-> verdict]
  BY Zenon
<1>2. config[k] \in ConfigRow
  BY ConfigShapes DEF DecideConfiguration, ScoringInv, Known
<1>3. d.step = "latest" /\ d.of = k /\ d.by = u /\ d.to = verdict
  BY <1>1
<1>4. DecisionCarries(d)
  BY <1>2, <1>3 DEF DecisionCarries, DecideConfiguration
<1> QED BY <1>1, <1>4, DecisionMoves DEF DecideConfiguration

LEMMA SelectLatestInv ==
  ASSUME ScoringInv, NEW c \in ScoringDecisions, SelectLatest(c)
  PROVE  ScoringInv'
<1>1. PICK d : d = [decider[c] EXCEPT !.step = "decide"]
  BY Zenon
<1>2. DecisionCarries(decider[c]) /\ decider[c].step = "latest"
  BY DEF ScoringInv, SelectLatest
<1>3. d.of = decider[c].of /\ d.by = decider[c].by /\ d.to = decider[c].to
  BY <1>1
<1>4. d.step = "decide" \/ d.step = decider[c].step
  BY <1>1
<1>5. DecisionCarries(d)
  BY <1>2, <1>3, <1>4 DEF DecisionCarries
<1>6. Decides(c, d) \/ Decides(c, Waiting)
  BY <1>1 DEF SelectLatest
<1> QED BY <1>5, <1>6, WaitingFits, DecisionMoves DEF SelectLatest

LEMMA EndDecisionInv == ASSUME ScoringInv, NEW c \in ScoringDecisions, EndDecision(c) PROVE ScoringInv'
BY WaitingFits, DecisionMoves DEF EndDecision

LEMMA CommitConfigurationInv ==
  ASSUME ScoringInv, NEW c \in ScoringDecisions, CommitConfiguration(c)
  PROVE  ScoringInv'
<1>1. PICK k, to, by : k = decider[c].of /\ to = decider[c].to /\ by = decider[c].by
  BY Zenon
<1>2. /\ k \in Configurations /\ config[k] \in ConfigRow /\ to \in {"APPROVED", "REJECTED"}
      /\ by \in ScoringActors /\ by # config[k].maker
  BY <1>1 DEF CommitConfiguration, ScoringInv, DecisionCarries
<1>3. PICK m \in Known : Approves(m)
  BY DEF ScoringInv
<1>4. ASSUME config[k].status = "PENDING", Decides(c, Waiting), submissions' = submissions,
             config' = [config EXCEPT ![k].status = to, ![k].checker = by],
             \/ to = "REJECTED" /\ inForce' = inForce
             \/ to = "APPROVED" /\ inForce' = {k}
      PROVE  ScoringInv'
  <2>1. PICK row : row = [config[k] EXCEPT !.status = to, !.checker = by]
    OBVIOUS
  <2>2. row \in ConfigRow /\ row.maker = config[k].maker /\ row.status = to /\ row.checker = by
    BY <1>2, <2>1, Zenon DEF ConfigRow
  <2>3. config' = [config EXCEPT ![k] = row]
    BY <1>4, <2>1, Zenon DEF ScoringInv
  <2>4. k \in Known /\ config'[k] = row /\ \A j \in Known \ {k} : config'[j] = config[j]
    BY <1>2, <2>3 DEF ScoringInv, Known
  <2>5. \E n \in Known : Approves(n)'
    <3>1. CASE to = "REJECTED"
      <4>1. m # k
        BY <1>3, <1>4 DEF Approves
      <4>2. Approves(m)'
        BY <1>3, <1>4, <2>4, <3>1, <4>1, Zenon DEF Approves, Known
      <4> QED BY <4>2
    <3>2. CASE to = "APPROVED"
      <4>1. Approves(k)'
        BY <1>2, <1>4, <2>2, <2>4, <3>2 DEF Approves, Known
      <4> QED BY <2>4, <4>1
    <3> QED BY <1>2, <3>1, <3>2
  <2>6. /\ DOMAIN decider' = ScoringDecisions
        /\ \A b \in ScoringDecisions : decider'[b] = decider[b] \/ decider'[b] = Waiting
    BY <1>4 DEF Decides, ScoringInv
  <2>7. config[k] # NoConfig
    BY <1>2, ConfigShapes
  <2> QED BY <1>2, <1>4, <2>2, <2>3, <2>5, <2>6, <2>7, ConfigMoves, Zenon
<1>5. CASE config[k].status # "PENDING"
  <2>1. Decides(c, Waiting) /\ UNCHANGED <<config, inForce, submissions>>
    BY <1>1, <1>5 DEF CommitConfiguration
  <2> QED BY <2>1, WaitingFits, DecisionMoves
<1>6. CASE config[k].status = "PENDING" /\ to = "REJECTED"
  <2>1. /\ Decides(c, Waiting) /\ UNCHANGED <<inForce, submissions>>
        /\ config' = [config EXCEPT ![k].status = to, ![k].checker = by]
    BY <1>1, <1>6 DEF CommitConfiguration
  <2> QED BY <1>4, <1>6, <2>1
<1>7. CASE config[k].status = "PENDING" /\ to = "APPROVED" /\ MayActivate(config[k].scope)
  <2>1. /\ Decides(c, Waiting) /\ UNCHANGED submissions
        /\ config' = [config EXCEPT ![k].status = to, ![k].checker = by]
        /\ inForce' = Remaining(config[k].scope) \cup {k}
    BY <1>1, <1>7 DEF CommitConfiguration
  <2>2. inForce' = {k}
    BY <1>7, <2>1 DEF MayActivate
  <2> QED BY <1>4, <1>7, <2>1, <2>2
<1>8. CASE config[k].status = "PENDING" /\ to = "APPROVED" /\ ~MayActivate(config[k].scope)
  <2>1. Decides(c, [step |-> "refused"]) /\ UNCHANGED <<config, inForce, submissions>>
    BY <1>1, <1>8 DEF CommitConfiguration
  <2> QED BY <2>1, WaitingFits, DecisionMoves
<1> QED BY <1>2, <1>5, <1>6, <1>7, <1>8

LEMMA ScoringNextInv == ScoringInv /\ [ScoringNext]_scoringVars => ScoringInv'
<1> SUFFICES ASSUME ScoringInv, [ScoringNext]_scoringVars PROVE ScoringInv'
  OBVIOUS
<1>1. ASSUME UNCHANGED scoringVars PROVE ScoringInv'
  BY <1>1 DEF scoringVars, ScoringInv, DecisionCarries, Approves, Known
<1> QED BY <1>1, PrepareConfigurationInv, SubmitConfigurationInv, SelectLatestInv,
           CommitConfigurationInv, EndDecisionInv, DecideConfigurationInv DEF ScoringNext

LEMMA ScoringInvSafe == ScoringInv => ScoringTypeOK /\ OneConfigurationInForce
<1> SUFFICES ASSUME ScoringInv PROVE ScoringTypeOK /\ OneConfigurationInForce
  OBVIOUS
<1>1. PICK k \in Known : Approves(k)
  BY DEF ScoringInv
<1>2. Cardinality(inForce) = 1
  BY <1>1, FS_Singleton, Zenon DEF Approves
<1>3. inForce \subseteq Rows
  BY <1>1 DEF Approves, Rows, ScoringInv
<1>4. \A j \in DOMAIN config : config[j] = NoConfig \/ config[j] \in ConfigRow
  BY DEF ScoringInv
<1>5. \A c \in ScoringDecisions : decider[c].step \in {"none", "latest", "decide", "refused"}
  BY DEF ScoringInv, DecisionCarries
<1>6. ScoringTypeOK
  BY <1>3, <1>4, <1>5, SubmissionsBounded DEF ScoringTypeOK
<1>7. \A j \in inForce \ {"default"} : config[j].status = "APPROVED" /\ config[j].checker # config[j].maker
  BY <1>1 DEF Approves
<1> QED BY <1>2, <1>6, <1>7 DEF OneConfigurationInForce

-----------------------------------------------------------------------------
(* Each by itself, from every initial state *)

\* A resolution is passed by somebody else than its maker, and gets one verdict.
THEOREM IssuesAreSafe == IssueSpec => [](IssueTypeOK /\ FourEyes /\ OneVerdictPerResolution)
<1>1. IssueSpec => []IssueInv
  BY IssueInitInv, IssueNextInv, PTL DEF IssueSpec
<1> QED BY <1>1, IssueInvSafe, PTL

\* What a governance request changes was approved by a second person, and changes once.
THEOREM GovernanceIsSafe ==
  GovernanceSpec => [](GovernanceTypeOK /\ ChangesAreApproved /\ ChangedOnce)
<1>1. GovernanceSpec => []GovernanceInv
  BY GovernanceInitInv, GovernanceNextInv, PTL DEF GovernanceSpec
<1> QED BY <1>1, GovernanceInvSafe, PTL

\* A rule is active only on a version that passed its test and, if it is critical, was approved.
THEOREM RulesAreSafe == RuleSpec => [](RuleTypeOK /\ ActivationWasCleared)
<1>1. RuleSpec => []RuleInv
  BY RuleInitInv, RuleNextInv, PTL DEF RuleSpec
<1> QED BY <1>1, RuleInvSafe, PTL

\* One configuration is in force: the default, or one that a second person approved.
THEOREM ConfigurationsAreSafe == ScoringSpec => [](ScoringTypeOK /\ OneConfigurationInForce)
<1>1. ScoringSpec => []ScoringInv
  BY ScoringInitInv, ScoringNextInv, PTL DEF ScoringSpec
<1> QED BY <1>1, ScoringInvSafe, PTL
===============================================================================
