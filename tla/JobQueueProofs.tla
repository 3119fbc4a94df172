---------------------------- MODULE JobQueueProofs ----------------------------
(***************************************************************************)
(* Proofs about JobQueue, for every set of jobs, workers and sources and   *)
(* every lease, quota, retry policy and clock lag.                         *)
(*                                                                         *)
(* The inductive invariant is a condition on one row and its dead letters, *)
(* RowOK.  Every transaction but the reaper's writes one row, so the       *)
(* step is: that row is RowOK again (one lemma per group of transactions), *)
(* and the other rows did not move (OneRowChanges).  Of the claims under   *)
(* way it only says that their instants are past; what they counted is the *)
(* subject of CountInv, at the end.                                        *)
(***************************************************************************)
EXTENDS JobQueue, FiniteSetTheorems, TLAPS

\* The condition each row keeps with its number n of OPEN dead letters.
RowOK(r, n) ==
  /\ r \in Row
  /\ n \in Nat
  /\ r.status \in Owned <=> r.claimedBy # NoWorker
  /\ r.status \in Owned <=> r.lease # NoTime
  /\ r.status \in Owned => r.attempts # 0
  /\ r.cancelAsked <=> r.status \in {"CANCEL_REQUESTED", "CANCELLED"}
  /\ n > 0 => n = 1 /\ r.status = "TECHNICAL_ERROR" /\ r.attempts > RetryCount

\* A claim under way works with an instant that is past.
ClaimsInTime ==
  /\ claim \in [Workers -> Claim]
  /\ \A w \in Counting : claim[w].at \in 1..now

IInv ==
  /\ TypeOK
  /\ \A j \in Jobs : RowOK(job[j], openLetters[j])
  /\ ClaimsInTime

-----------------------------------------------------------------------------

\* The inductive invariant says what the three invariants of JobQueue say.
LEMMA IInvImplies == IInv => TypeOK /\ ClaimMatchesStatus /\ CancelIsKept /\ DeadLettersMatchJobs
BY DEF IInv, RowOK, ClaimMatchesStatus, CancelIsKept, DeadLettersMatchJobs

\* What a caller may have read from its clock is a positive instant, so the
\* lease it computes is not the NULL timestamp.
LEMMA ReadingsArePositive ==
  ASSUME TypeOK, NEW at \in Readings
  PROVE  at \in Nat \ {0}
BY DEF Readings, TypeOK

\* So is the instant of a claim under way.
LEMMA ClaimTime ==
  ASSUME IInv, NEW w \in Counting
  PROVE  w \in Workers /\ claim[w].at \in Nat \ {0} /\ claim[w].at <= now /\ now \in Nat
BY DEF IInv, ClaimsInTime, Counting, TypeOK

LEMMA ClaimsStay ==
  ASSUME IInv, UNCHANGED claim, now' = now \/ now' = now + 1
  PROVE  ClaimsInTime'
BY DEF IInv, ClaimsInTime, Counting, TypeOK

LEMMA NoClaimIsTyped == NoClaim \in Claim
BY DEF NoClaim, Claim, NoTime

\* A claim that ends leaves the others as they are.
LEMMA ClaimLeaves ==
  ASSUME IInv, NEW w \in Workers, claim' = [claim EXCEPT ![w] = NoClaim], now' = now
  PROVE  ClaimsInTime'
<1>1. claim' \in [Workers -> Claim]
  BY NoClaimIsTyped DEF IInv, ClaimsInTime
<1>2. ASSUME NEW v \in Counting' PROVE v \in Counting /\ claim'[v] = claim[v]
  BY <1>2 DEF IInv, ClaimsInTime, Counting
<1> QED BY <1>1, <1>2 DEF IInv, ClaimsInTime

\* What a renewal of j's lease does to a claim.
LEMMA MissedIs ==
  ASSUME NEW c \in Claim, NEW j \in Jobs
  PROVE  /\ Missed(c, j) \in Claim
         /\ Missed(c, j).at = c.at /\ Missed(c, j).counted = c.counted
         /\ c.missed \subseteq Missed(c, j).missed
         /\ c # NoClaim => j \in Missed(c, j).counted \cup Missed(c, j).missed
         /\ c = NoClaim => Missed(c, j) = NoClaim
<1>1. CASE c = NoClaim \/ j \in c.counted
  BY <1>1 DEF Missed
<1>2. CASE ~ (c = NoClaim \/ j \in c.counted)
  <2> DEFINE d == [c EXCEPT !.missed = @ \cup {j}]
  <2>1. d \in Claim /\ d.at = c.at /\ d.counted = c.counted /\ d.missed = c.missed \cup {j}
    BY DEF Claim
  <2>2. Missed(c, j) = d
    BY <1>2 DEF Missed
  <2> HIDE DEF d
  <2> QED BY <1>2, <2>1, <2>2
<1> QED BY <1>1, <1>2

\* A step that replaces one row and its dead letters by an acceptable pair
\* preserves the invariant.
LEMMA OneRowChanges ==
  ASSUME IInv, NEW j \in Jobs, NEW r, NEW n,
         RowOK(r, n), now' = now, ClaimsInTime',
         job' = [job EXCEPT ![j] = r],
         openLetters' = [openLetters EXCEPT ![j] = n]
  PROVE  IInv'
<1>1. job \in [Jobs -> Row] /\ openLetters \in [Jobs -> Nat] /\ r \in Row /\ n \in Nat
  BY DEF IInv, TypeOK, RowOK
<1>2. TypeOK'
  BY <1>1 DEF IInv, TypeOK, ClaimsInTime
<1>3. ASSUME NEW k \in Jobs PROVE RowOK(job[k], openLetters[k])'
  <2>1. CASE k = j
    <3>1. job'[k] = r /\ openLetters'[k] = n
      BY <1>1, <2>1
    <3> QED BY <3>1 DEF RowOK
  <2>2. CASE k # j
    <3>1. job'[k] = job[k] /\ openLetters'[k] = openLetters[k]
      BY <1>1, <2>2
    <3> QED BY <3>1 DEF IInv, RowOK
  <2> QED BY <2>1, <2>2
<1> QED BY <1>2, <1>3 DEF IInv

\* Counting the change of a row does not make it unacceptable.
LEMMA BumpedIsOK ==
  ASSUME NEW r, NEW n, RowOK(r, n)
  PROVE  RowOK(Bumped(r), n)
<1>1. r \in Row /\ r.version + 1 \in Nat
  BY DEF RowOK, Row
<1>2. Bumped(r) \in Row
  BY <1>1 DEF Row, Bumped
<1>3. /\ Bumped(r).status = r.status /\ Bumped(r).claimedBy = r.claimedBy
      /\ Bumped(r).lease = r.lease /\ Bumped(r).attempts = r.attempts
      /\ Bumped(r).cancelAsked = r.cancelAsked
  BY <1>1 DEF Row, Bumped
<1> QED BY <1>2, <1>3 DEF RowOK

\* The same for a step that leaves the dead letters alone, and for one that
\* leaves the claims alone too.
LEMMA WriteRow ==
  ASSUME IInv, NEW j \in Jobs, NEW r,
         RowOK(r, openLetters[j]), Write(j, r), UNCHANGED openLetters, ClaimsInTime'
  PROVE  IInv'
<1>1. openLetters' = [openLetters EXCEPT ![j] = openLetters[j]]
  BY DEF IInv, TypeOK
<1> QED BY <1>1, BumpedIsOK, OneRowChanges DEF Write

LEMMA WriteAlone ==
  ASSUME IInv, NEW j \in Jobs, NEW r,
         RowOK(r, openLetters[j]), Write(j, r), UNCHANGED <<openLetters, claim>>
  PROVE  IInv'
<1>1. ClaimsInTime'
  BY ClaimsStay DEF Write
<1> QED BY <1>1, WriteRow

-----------------------------------------------------------------------------
(* One lemma per transaction *)

LEMMA EnqueueKeeps ==
  ASSUME IInv, NEW j \in Jobs, NEW at \in Readings, Enqueue(j, at)
  PROVE  IInv'
<1> DEFINE r == [job[j] EXCEPT !.status = "QUEUED", !.availableAt = at]
<1>1. at \in Nat
  BY ReadingsArePositive DEF IInv
<1>2. RowOK(r, openLetters[j])
  BY <1>1 DEF IInv, RowOK, Row, Enqueue, Owned, Terminal, Status, NoTime
<1>3. job' = [job EXCEPT ![j] = r]
  BY DEF Enqueue, IInv, TypeOK, Row
<1>4. openLetters' = [openLetters EXCEPT ![j] = openLetters[j]] /\ now' = now
  BY DEF Enqueue, IInv, TypeOK
<1>5. ClaimsInTime'
  BY <1>4, ClaimsStay DEF Enqueue
<1> HIDE DEF r
<1> QED BY <1>2, <1>3, <1>4, <1>5, OneRowChanges

\* The two halves of a claim, and its end without a job.
LEMMA CountKeeps ==
  ASSUME IInv, NEW w \in Workers, NEW at \in Readings, CountLeases(w, at)
  PROVE  IInv'
<1> DEFINE c == [at |-> at, counted |-> LiveAt(at), missed |-> {}]
<1>1. at \in 1..now /\ at \in Nat
  BY ReadingsArePositive DEF Readings, IInv
<1>2. c \in Claim /\ c.at = at
  BY <1>1 DEF Claim, LiveAt
<1>3. claim' = [claim EXCEPT ![w] = c] /\ UNCHANGED <<now, job, openLetters>>
  BY DEF CountLeases
<1> HIDE DEF c
<1>4. \A v \in Counting' : v = w \/ v \in Counting
  BY <1>3 DEF Counting, IInv, ClaimsInTime
<1>5. ClaimsInTime'
  BY <1>1, <1>2, <1>3, <1>4 DEF IInv, ClaimsInTime, Counting
<1> QED BY <1>3, <1>5 DEF IInv, TypeOK, RowOK, ClaimsInTime

LEMMA ClaimEndsKeeps ==
  ASSUME IInv, NEW w \in Workers, ClaimEnds(w)
  PROVE  IInv'
<1>1. ClaimsInTime'
  BY ClaimLeaves DEF ClaimEnds
<1> QED BY <1>1 DEF ClaimEnds, IInv, TypeOK, RowOK, ClaimsInTime

LEMMA ClaimKeeps ==
  ASSUME IInv, NEW w \in Workers, NEW j \in Jobs, ClaimNext(w, j)
  PROVE  IInv'
<1> DEFINE r == [job[j] EXCEPT !.status = "RUNNING", !.claimedBy = w,
                               !.lease = claim[w].at + Lease, !.attempts = @ + 1,
                               !.blockedUntil = NoTime]
<1>1. claim[w].at + Lease \in Nat \ {0}
  BY ClaimTime, ConstantsAssumption DEF ClaimNext
<1>2. job[j].status \in {"QUEUED", "RUNNING", "BLOCKED"}
  BY DEF ClaimNext, Candidates
<1>3. RowOK(job[j], openLetters[j])
  BY DEF IInv
<1>4. RowOK(r, openLetters[j])
  <2>1. job[j].attempts + 1 \in Nat /\ job[j].attempts + 1 # 0
    BY <1>3 DEF RowOK, Row
  <2>2. r \in Row
    BY <1>1, <1>3, <2>1 DEF RowOK, Row, Owned, Status, NoTime
  <2>3. /\ r.status = "RUNNING" /\ r.claimedBy = w /\ r.lease = claim[w].at + Lease
        /\ r.cancelAsked = job[j].cancelAsked /\ r.attempts = job[j].attempts + 1
    BY <1>3 DEF RowOK, Row
  <2>4. w # NoWorker
    BY ConstantsAssumption
  <2> HIDE DEF r
  <2> QED BY <1>1, <1>2, <1>3, <2>1, <2>2, <2>3, <2>4 DEF RowOK, Owned, NoTime
<1>5. Write(j, r) /\ UNCHANGED openLetters
  BY DEF ClaimNext
<1>6. ClaimsInTime'
  BY ClaimLeaves DEF ClaimNext, Write
<1> HIDE DEF r
<1> QED BY <1>4, <1>5, <1>6, WriteRow

LEMMA RenewalKeeps ==
  ASSUME IInv, NEW w \in Workers, NEW j \in Jobs, NEW at \in Readings,
         Heartbeat(w, j, at) \/ UpdateProgress(w, j)
  PROVE  IInv'
<1>1. RowOK(job[j], openLetters[j])
  BY DEF IInv
<1>2. CASE Heartbeat(w, j, at)
  <2> DEFINE r == [job[j] EXCEPT !.lease = at + Lease]
  <2>1. at + Lease \in Nat \ {0}
    BY ReadingsArePositive, ConstantsAssumption DEF IInv
  <2>2. RowOK(r, openLetters[j])
    BY <1>1, <1>2, <2>1 DEF Heartbeat, OwnedActive, RowOK, Row, NoTime
  <2>3. Write(j, r) /\ UNCHANGED openLetters /\ now' = now
    BY <1>2 DEF Heartbeat, Write
  <2>4. ClaimsInTime'
    <3>1. claim' = [v \in Workers |-> Missed(claim[v], j)]
      BY <1>2 DEF Heartbeat
    <3>2. claim \in [Workers -> Claim]
      BY DEF IInv, ClaimsInTime
    <3>3. \A v \in Workers : /\ claim'[v] \in Claim /\ claim'[v].at = claim[v].at
                             /\ claim[v] = NoClaim => claim'[v] = NoClaim
      BY <3>1, <3>2, MissedIs
    <3>4. claim' \in [Workers -> Claim]
      BY <3>1, <3>3
    <3>5. Counting' \subseteq Counting
      BY <3>3 DEF Counting
    <3>6. \A v \in Counting' : v \in Counting /\ claim'[v].at = claim[v].at
      BY <3>3, <3>5 DEF Counting
    <3> QED BY <2>3, <3>4, <3>6 DEF IInv, ClaimsInTime
  <2> HIDE DEF r
  <2> QED BY <2>2, <2>3, <2>4, WriteRow
<1>3. CASE UpdateProgress(w, j)
  <2> QED BY <1>1, <1>3, WriteAlone DEF UpdateProgress
<1> QED BY <1>2, <1>3

\* The owner hands the row back or ends it: BlockJob, Complete, CompleteCancelled.
LEMMA HandBackKeeps ==
  ASSUME IInv, NEW w \in Workers, NEW j \in Jobs, NEW at \in Readings,
         BlockJob(w, j, at) \/ Complete(w, j, at) \/ CompleteCancelled(w, j, at)
  PROVE  IInv'
<1>1. RowOK(job[j], openLetters[j])
  BY DEF IInv
<1>2. CASE BlockJob(w, j, at)
  <2> DEFINE r == [Unclaimed(job[j]) EXCEPT !.status = "BLOCKED",
                            !.blockedUntil = at + BlockDelay]
  <2>1. at + BlockDelay \in Nat
    BY ReadingsArePositive, ConstantsAssumption DEF IInv
  <2>2. RowOK(r, openLetters[j])
    <3>2. r \in Row
      BY <1>1, <2>1 DEF RowOK, Row, Unclaimed, Owned, Status, NoTime
    <3>3. /\ r.status = "BLOCKED" /\ r.claimedBy = NoWorker /\ r.lease = NoTime
          /\ r.cancelAsked = job[j].cancelAsked
      BY <1>1 DEF RowOK, Row, Unclaimed
    <3> QED BY <1>1, <1>2, <3>2, <3>3 DEF BlockJob, RowOK, Owned
  <2>3. Write(j, r) /\ UNCHANGED <<openLetters, claim>>
    BY <1>2 DEF BlockJob
  <2> HIDE DEF r
  <2> QED BY <2>2, <2>3, WriteAlone
<1>3. CASE Complete(w, j, at)
  <2> DEFINE r == [Unclaimed(job[j]) EXCEPT !.status = "SUCCESS"]
  <2>1. RowOK(r, openLetters[j])
    BY <1>1, <1>3 DEF Complete, Finish, OwnedActive, RowOK, Row, Unclaimed,
                      Owned, Terminal, Status, NoTime
  <2>2. Write(j, r) /\ UNCHANGED <<openLetters, claim>>
    BY <1>3 DEF Complete, Finish
  <2> HIDE DEF r
  <2> QED BY <2>1, <2>2, WriteAlone
<1>4. CASE CompleteCancelled(w, j, at)
  <2> DEFINE r == [Unclaimed(job[j]) EXCEPT !.status = "CANCELLED"]
  <2>1. RowOK(r, openLetters[j])
    BY <1>1, <1>4 DEF CompleteCancelled, Finish, OwnedActive, RowOK, Row,
                      Unclaimed, Owned, Terminal, Status, NoTime
  <2>2. Write(j, r) /\ UNCHANGED <<openLetters, claim>>
    BY <1>4 DEF CompleteCancelled, Finish
  <2> HIDE DEF r
  <2> QED BY <2>1, <2>2, WriteAlone
<1> QED BY <1>2, <1>3, <1>4

\* A failure requeues the row with its dead letters as they are, or ends it and
\* writes the one dead letter that RETRYABLE_TECHNICAL with no retry left means.
LEMMA FailureKeeps ==
  ASSUME IInv, NEW w \in Workers, NEW j \in Jobs, NEW kind \in FailureKinds,
         NEW at \in Readings, RecordFailure(w, j, kind, at)
  PROVE  IInv'
<1>1. RowOK(job[j], openLetters[j]) /\ job[j].status = "RUNNING" /\ openLetters[j] = 0
  BY DEF IInv, RowOK, RecordFailure, OwnedActive
<1>2. CASE Retries(j, kind)
  <2> DEFINE r == [Unclaimed(job[j]) EXCEPT
                     !.status = "QUEUED",
                     !.availableAt = at + RetryDelay[job[j].attempts]]
  <2>1. at + RetryDelay[job[j].attempts] \in Nat
    <3>1. job[j].attempts \in 1..RetryCount
      BY <1>1, <1>2, ConstantsAssumption DEF RowOK, Row, Retries, Owned
    <3>2. at \in Nat
      BY ReadingsArePositive DEF IInv
    <3> QED BY <3>1, <3>2, ConstantsAssumption, SMTT(30)
  <2>2. r \in Row
    BY <1>1, <2>1 DEF RowOK, Row, Unclaimed, Owned, Status, NoTime
  <2>3. /\ r.status = "QUEUED" /\ r.claimedBy = NoWorker /\ r.lease = NoTime
        /\ r.cancelAsked = job[j].cancelAsked
    BY <1>1 DEF RowOK, Row, Unclaimed
  <2>4. RowOK(r, openLetters[j])
    BY <1>1, <2>2, <2>3 DEF RowOK, Owned
  <2>5. Write(j, r) /\ UNCHANGED <<openLetters, claim>>
    BY <1>2 DEF RecordFailure
  <2> HIDE DEF r
  <2> QED BY <2>4, <2>5, WriteAlone
<1>3. CASE ~ Retries(j, kind)
  <2> DEFINE r == [Unclaimed(job[j]) EXCEPT
                     !.status = IF kind = "TIMEOUT" THEN "TIMEOUT" ELSE "TECHNICAL_ERROR"]
             n == IF kind = "RETRYABLE_TECHNICAL" THEN 1 ELSE 0
  <2>1. r \in Row
    BY <1>1 DEF RowOK, Row, Unclaimed, Terminal, Status, NoTime
  <2>2. /\ r.status = IF kind = "TIMEOUT" THEN "TIMEOUT" ELSE "TECHNICAL_ERROR"
        /\ r.claimedBy = NoWorker /\ r.lease = NoTime
        /\ r.cancelAsked = job[j].cancelAsked /\ r.attempts = job[j].attempts
    BY <1>1 DEF RowOK, Row, Unclaimed
  <2>3. n = 1 => job[j].attempts > RetryCount
    BY <1>1, <1>3, ConstantsAssumption DEF Retries, RowOK, Row
  <2>4. RowOK(r, n)
    BY <1>1, <2>1, <2>2, <2>3 DEF RowOK, Owned
  <2>6. ClaimsInTime'
    BY ClaimsStay DEF RecordFailure, Write
  <2>5. /\ Write(j, r)
        /\ openLetters' = [openLetters EXCEPT ![j] = n]
    <3>1. openLetters \in [Jobs -> Nat]
      BY DEF IInv, TypeOK
    <3>2. Write(j, r)
      BY <1>3 DEF RecordFailure
    <3>3. CASE kind = "RETRYABLE_TECHNICAL"
      BY <1>1, <1>3, <3>1, <3>2, <3>3 DEF RecordFailure
    <3>4. CASE kind # "RETRYABLE_TECHNICAL"
      BY <1>1, <1>3, <3>1, <3>2, <3>4 DEF RecordFailure
    <3> QED BY <3>3, <3>4
  <2> HIDE DEF r, n
  <2> QED BY <2>4, <2>5, <2>6, BumpedIsOK, OneRowChanges DEF Write
<1> QED BY <1>2, <1>3

LEMMA CancelKeeps ==
  ASSUME IInv, NEW j \in Jobs, RequestCancel(j)
  PROVE  IInv'
<1>1. RowOK(job[j], openLetters[j])
  BY DEF IInv
<1>2. CASE job[j].status = "QUEUED"
  <2> DEFINE r == [Unclaimed(job[j]) EXCEPT !.status = "CANCELLED", !.cancelAsked = TRUE]
  <2>1. r \in Row
    BY <1>1 DEF RowOK, Row, Unclaimed, Terminal, Status, NoTime
  <2>2. RowOK(r, openLetters[j])
    BY <1>1, <1>2, <2>1 DEF RowOK, Row, Unclaimed, Owned
  <2>3. Write(j, r) /\ UNCHANGED <<openLetters, claim>>
    BY <1>2 DEF RequestCancel
  <2> HIDE DEF r
  <2> QED BY <2>2, <2>3, WriteAlone
<1>3. CASE job[j].status = "RUNNING"
  <2> DEFINE r == [job[j] EXCEPT !.status = "CANCEL_REQUESTED", !.cancelAsked = TRUE]
  <2>1. r \in Row
    BY <1>1 DEF RowOK, Row, Owned, Status
  <2>2. RowOK(r, openLetters[j])
    BY <1>1, <1>3, <2>1 DEF RowOK, Row, Owned
  <2>3. Write(j, r) /\ UNCHANGED <<openLetters, claim>>
    BY <1>3 DEF RequestCancel
  <2> HIDE DEF r
  <2> QED BY <2>2, <2>3, WriteAlone
<1> QED BY <1>2, <1>3 DEF RequestCancel

LEMMA ReprocessKeeps ==
  ASSUME IInv, NEW j \in Jobs, NEW at \in Readings, ReprocessDeadLetter(j, at)
  PROVE  IInv'
<1> DEFINE r == [job[j] EXCEPT !.status = "QUEUED", !.availableAt = at, !.attempts = 0]
<1>1. RowOK(job[j], openLetters[j]) /\ openLetters[j] = 1
  BY DEF IInv, RowOK, ReprocessDeadLetter
<1>2. at \in Nat
  BY ReadingsArePositive DEF IInv
<1>3. r \in Row
  BY <1>1, <1>2 DEF RowOK, Row, Status
<1>4. RowOK(r, 0)
  BY <1>1, <1>3 DEF RowOK, Row, Owned, ReprocessDeadLetter
<1>5. Write(j, r) /\ openLetters' = [openLetters EXCEPT ![j] = 0]
  <2>1. Write(j, r)
    BY DEF ReprocessDeadLetter
  <2>2. openLetters' = [openLetters EXCEPT ![j] = 0]
    BY <1>1 DEF ReprocessDeadLetter, IInv, TypeOK
  <2> QED BY <2>1, <2>2
<1>6. ClaimsInTime'
  BY <1>5, ClaimsStay DEF ReprocessDeadLetter, Write
<1> HIDE DEF r
<1> QED BY <1>4, <1>5, <1>6, BumpedIsOK, OneRowChanges DEF Write

\* The reaper writes every row whose lease ran out, and each is acceptable.
LEMMA ReaperKeeps ==
  ASSUME IInv, NEW at \in Readings, ReleaseExpiredClaims(at)
  PROVE  IInv'
<1>1. ASSUME NEW j \in Jobs
      PROVE  RowOK(Released(job[j], at), openLetters[j])
  <2>1. RowOK(job[j], openLetters[j])
    BY DEF IInv
  <2>2. CASE ~ Expired(job[j], at)
    BY <2>1, <2>2 DEF Released
  <2>3. CASE Expired(job[j], at)
    <3> DEFINE r == [Unclaimed(job[j]) EXCEPT
                       !.status = IF @ = "RUNNING" THEN "QUEUED" ELSE "CANCELLED"]
    <3>1. job[j].status \in Owned
      BY <2>3 DEF Expired
    <3>2. r \in Row
      BY <2>1 DEF RowOK, Row, Unclaimed, Terminal, Status, NoTime
    <3>3. RowOK(r, openLetters[j])
      BY <2>1, <3>1, <3>2 DEF RowOK, Row, Unclaimed, Owned
    <3>4. Released(job[j], at) = Bumped(r)
      BY <2>3 DEF Released
    <3> HIDE DEF r
    <3> QED BY <3>3, <3>4, BumpedIsOK
  <2> QED BY <2>2, <2>3
<1>2. TypeOK'
  BY <1>1 DEF ReleaseExpiredClaims, IInv, TypeOK, RowOK
<1>4. ClaimsInTime'
  BY ClaimsStay DEF ReleaseExpiredClaims
<1>3. ASSUME NEW j \in Jobs PROVE RowOK(job[j], openLetters[j])'
  <2>1. job'[j] = Released(job[j], at) /\ openLetters'[j] = openLetters[j]
    BY DEF ReleaseExpiredClaims
  <2> QED BY <1>1, <2>1 DEF RowOK
<1> QED BY <1>2, <1>3, <1>4 DEF IInv

-----------------------------------------------------------------------------

LEMMA InitEstablishes == Init => IInv
<1> SUFFICES ASSUME Init PROVE IInv
  OBVIOUS
<1>1. RowOK(NoRow, 0)
  BY ConstantsAssumption DEF RowOK, NoRow, Row, Status, Owned, NoTime
<1> QED BY <1>1, NoClaimIsTyped DEF Init, IInv, TypeOK, RowOK, ClaimsInTime, Counting

LEMMA NextKeeps == IInv /\ [Next]_vars => IInv'
<1> SUFFICES ASSUME IInv, [Next]_vars PROVE IInv'
  OBVIOUS
<1>1. CASE Tick
  BY <1>1, ClaimsStay DEF Tick, IInv, TypeOK, RowOK
<1>2. ASSUME NEW j \in Jobs, RequestCancel(j) PROVE IInv'
  BY <1>2, CancelKeeps
<1>3. ASSUME NEW w \in Workers, NEW j \in Jobs, OwnerStep(w, j) PROVE IInv'
  <2>1. Readings # {}
    <3>1. now \in Readings
      BY ConstantsAssumption DEF IInv, TypeOK, Readings
    <3> QED BY <3>1
  <2> QED BY <1>3, <2>1, RenewalKeeps, HandBackKeeps, FailureKeeps DEF OwnerStep
<1>4. ASSUME NEW at \in Readings, ReleaseExpiredClaims(at) PROVE IInv'
  BY <1>4, ReaperKeeps
<1>5. ASSUME NEW at \in Readings, NEW j \in Jobs,
             Enqueue(j, at) \/ ReprocessDeadLetter(j, at)
      PROVE  IInv'
  BY <1>5, EnqueueKeeps, ReprocessKeeps
<1>6. ASSUME NEW w \in Workers,
             \/ ClaimEnds(w) \/ \E at \in Readings : CountLeases(w, at)
             \/ \E j \in Jobs : ClaimNext(w, j)
      PROVE  IInv'
  BY <1>6, ClaimEndsKeeps, CountKeeps, ClaimKeeps
<1>7. CASE UNCHANGED vars
  BY <1>7, ClaimsStay DEF vars, IInv, TypeOK, RowOK
<1> QED BY <1>1, <1>2, <1>3, <1>4, <1>5, <1>6, <1>7 DEF Next

\* The inductive invariant holds in every reachable state.
THEOREM InvariantHolds == Spec => []IInv
BY InitEstablishes, NextKeeps, PTL DEF Spec

\* Every row and counter keeps its type.
THEOREM TypeCorrect == Spec => []TypeOK
BY InvariantHolds, IInvImplies, PTL

\* Claims and leases are on RUNNING and CANCEL_REQUESTED rows and nowhere else.
THEOREM ClaimsMatch == Spec => []ClaimMatchesStatus
BY InvariantHolds, IInvImplies, PTL

\* A cancellation is neither lost nor invented.
THEOREM CancellationsAreKept == Spec => []CancelIsKept
BY InvariantHolds, IInvImplies, PTL

\* A job has at most one open dead letter, and only while it can be reprocessed.
THEOREM DeadLettersMatch == Spec => []DeadLettersMatchJobs
BY InvariantHolds, IInvImplies, PTL

-----------------------------------------------------------------------------
(* Action properties: from the invariant, one step at a time *)

\* A transaction on one row changes no other.
LEMMA OtherRowsStay ==
  ASSUME TypeOK, NEW k \in Jobs, NEW r, Write(k, r), NEW j \in Jobs, j # k
  PROVE  job'[j] = job[j]
BY DEF Write, TypeOK

\* What an owner's transaction does to other rows, and whose it is.
LEMMA OwnerStepIsLocal ==
  ASSUME TypeOK, NEW w \in Workers, NEW k \in Jobs, OwnerStep(w, k)
  PROVE  /\ job[k].claimedBy = w /\ job[k].status \in Owned
         /\ \A j \in Jobs : j # k => job'[j] = job[j]
<1>1. CASE UpdateProgress(w, k)
  BY <1>1, OtherRowsStay DEF UpdateProgress, Owned
<1>2. ASSUME NEW at \in Readings,
             \/ Heartbeat(w, k, at) \/ BlockJob(w, k, at)
             \/ Complete(w, k, at) \/ CompleteCancelled(w, k, at)
             \/ \E kind \in FailureKinds : RecordFailure(w, k, kind, at)
      PROVE  /\ job[k].claimedBy = w /\ job[k].status \in Owned
             /\ \A j \in Jobs : j # k => job'[j] = job[j]
  <2>1. job[k].claimedBy = w /\ job[k].status \in Owned
    BY <1>2 DEF Heartbeat, BlockJob, Complete, CompleteCancelled, RecordFailure, Finish,
                OwnedActive, Owned
  <2>2. \E r : Write(k, r)
    <3>1. CASE Heartbeat(w, k, at)  BY <3>1 DEF Heartbeat
    <3>2. CASE BlockJob(w, k, at)   BY <3>2 DEF BlockJob
    <3>3. CASE Complete(w, k, at)   BY <3>3 DEF Complete, Finish
    <3>4. CASE CompleteCancelled(w, k, at)  BY <3>4 DEF CompleteCancelled, Finish
    <3>5. CASE \E kind \in FailureKinds : RecordFailure(w, k, kind, at)
      BY <3>5 DEF RecordFailure
    <3> QED BY <1>2, <3>1, <3>2, <3>3, <3>4, <3>5
  <2> QED BY <2>1, <2>2, OtherRowsStay
<1> QED BY <1>1, <1>2 DEF OwnerStep

LEMMA StepProtectsOwner ==
  ASSUME IInv, [Next]_vars, NEW j \in Jobs,
         job[j].claimedBy # NoWorker, job[j].lease > now,
         job'[j].claimedBy # job[j].claimedBy
  PROVE  OwnerStep(job[j].claimedBy, j)
<1>1. TypeOK /\ job[j] \in Row /\ job[j].status \in Owned
  BY DEF IInv, RowOK
<1>2. \A at \in Readings : at \in Nat /\ at <= now /\ job[j].lease > at
  BY <1>1 DEF Readings, TypeOK, Row
<1>3. CASE Tick \/ UNCHANGED vars
  BY <1>3 DEF Tick, vars
<1>4. ASSUME NEW k \in Jobs, RequestCancel(k) PROVE FALSE
  <2>1. CASE k = j
    <3>1. job[j].status = "RUNNING"
      BY <1>1, <1>4, <2>1 DEF RequestCancel, Owned
    <3>2. Write(j, [job[j] EXCEPT !.status = "CANCEL_REQUESTED", !.cancelAsked = TRUE])
      BY <1>4, <2>1, <3>1 DEF RequestCancel
    <3> QED BY <1>1, <3>2 DEF Write, Bumped, Row, TypeOK
  <2>2. CASE k # j
    BY <1>1, <1>4, <2>2, OtherRowsStay DEF RequestCancel
  <2> QED BY <2>1, <2>2
<1>5. ASSUME NEW w \in Workers, NEW k \in Jobs, OwnerStep(w, k)
      PROVE  OwnerStep(job[j].claimedBy, j)
  <2>1. k = j /\ job[j].claimedBy = w
    BY <1>1, <1>5, OwnerStepIsLocal
  <2> QED BY <1>5, <2>1
<1>6. ASSUME NEW at \in Readings, ReleaseExpiredClaims(at) PROVE FALSE
  <2>1. ~ Expired(job[j], at)
    BY <1>1, <1>2 DEF Expired, Row
  <2> QED BY <1>6, <2>1 DEF ReleaseExpiredClaims, Released
<1>7. ASSUME NEW at \in Readings, NEW k \in Jobs, Enqueue(k, at) PROVE FALSE
  <2>1. k # j
    BY <1>1, <1>7 DEF Enqueue, Owned
  <2> QED BY <1>1, <1>7, <2>1 DEF Enqueue, TypeOK
<1>8. ASSUME NEW at \in Readings, NEW k \in Jobs, ReprocessDeadLetter(k, at) PROVE FALSE
  <2>1. k # j
    BY <1>1, <1>8 DEF ReprocessDeadLetter, Owned
  <2> QED BY <1>1, <1>8, <2>1, OtherRowsStay DEF ReprocessDeadLetter
<1>10. ASSUME NEW w \in Workers, ClaimEnds(w) \/ \E at \in Readings : CountLeases(w, at)
       PROVE  FALSE
  BY <1>10 DEF ClaimEnds, CountLeases
<1>9. ASSUME NEW w \in Workers, NEW k \in Jobs, ClaimNext(w, k)
      PROVE  FALSE
  <2>1. j \notin Candidates(claim[w].at)
    <3>1. claim[w].at \in Nat /\ claim[w].at <= now /\ now \in Nat
      BY <1>9, ClaimTime DEF ClaimNext
    <3> QED BY <1>1, <3>1 DEF Candidates, Owned, Row
  <2>2. k # j
    BY <1>9, <2>1 DEF ClaimNext
  <2> QED BY <1>1, <1>9, <2>2, OtherRowsStay DEF ClaimNext
<1> QED BY <1>3, <1>4, <1>5, <1>6, <1>7, <1>8, <1>9, <1>10 DEF Next

\* While a lease is live nobody but its owner ends the claim.
THEOREM LeasesProtect == Spec => LeaseProtectsOwner
<1>1. IInv /\ [Next]_vars =>
        [\A j \in Jobs :
           /\ job[j].claimedBy # NoWorker /\ job[j].lease > now
           /\ job'[j].claimedBy # job[j].claimedBy
           => OwnerStep(job[j].claimedBy, j)]_vars
  BY StepProtectsOwner
<1> QED BY <1>1, InvariantHolds, PTL DEF Spec, LeaseProtectsOwner

-----------------------------------------------------------------------------
(* The refinement, and the version of the row each transaction writes *)

Counted(k) == job'[k].version = job[k].version + 1

\* The status of a row that was written.
LEMMA WrittenStatus ==
  ASSUME TypeOK, NEW k \in Jobs, NEW r \in Row, Write(k, r)
  PROVE  job'[k].status = r.status
<1>1. job'[k] = Bumped(r)
  BY DEF Write, TypeOK
<1> QED BY <1>1 DEF Bumped, Row

\* Writing one row is one Move of the lifecycle, and a counted change.
LEMMA WriteMoves ==
  ASSUME TypeOK, NEW k \in Jobs, NEW r \in Row, Write(k, r), r.version = job[k].version
  PROVE  Lifecycle!Move(k, PhaseOf(r.status), r.claimedBy) /\ Counted(k)
<1>1. job' = [job EXCEPT ![k] = Bumped(r)] /\ job \in [Jobs -> Row]
  BY DEF Write, TypeOK
<1>2. /\ Bumped(r).status = r.status /\ Bumped(r).claimedBy = r.claimedBy
      /\ Bumped(r).version = r.version + 1
  BY DEF Bumped, Row
<1>3. \A j \in Jobs : /\ job'[j].status = IF j = k THEN r.status ELSE job[j].status
                      /\ job'[j].claimedBy = IF j = k THEN r.claimedBy ELSE job[j].claimedBy
  BY <1>1, <1>2
<1>4. [j \in Jobs |-> PhaseOf(job'[j].status)]
        = [[j \in Jobs |-> PhaseOf(job[j].status)] EXCEPT ![k] = PhaseOf(r.status)]
  BY <1>3
<1>5. [j \in Jobs |-> job'[j].claimedBy]
        = [[j \in Jobs |-> job[j].claimedBy] EXCEPT ![k] = r.claimedBy]
  BY <1>3
<1>6. job'[k] = Bumped(r)
  BY <1>1
<1> QED BY <1>2, <1>4, <1>5, <1>6 DEF Lifecycle!Move, Counted, PhaseOf

\* To hand one held job back is to recover the set of that one job.
LEMMA MoveIsRecover ==
  ASSUME NEW k \in Jobs, job[k].status = "RUNNING", Lifecycle!Move(k, "waiting", NoWorker)
  PROVE  Lifecycle!Recover({k})
<1> DEFINE phase  == [j \in Jobs |-> PhaseOf(job[j].status)]
           holder == [j \in Jobs |-> job[j].claimedBy]
<1>1. phase[k] = "held"
  BY DEF PhaseOf
<1>2. /\ [j \in Jobs |-> PhaseOf(job'[j].status)] = [phase EXCEPT ![k] = "waiting"]
      /\ [j \in Jobs |-> job'[j].claimedBy] = [holder EXCEPT ![k] = NoWorker]
  BY DEF Lifecycle!Move, PhaseOf
<1> HIDE DEF phase, holder
<1>3. phase = [j \in Jobs |-> phase[j]] /\ holder = [j \in Jobs |-> holder[j]]
  BY DEF phase, holder
<1>4. [phase EXCEPT ![k] = "waiting"]
        = [j \in Jobs |-> IF j \notin {k} THEN phase[j]
                         ELSE IF phase[j] = "held" THEN "waiting" ELSE "cancelled"]
  BY <1>1, <1>3
<1>5. [holder EXCEPT ![k] = NoWorker]
        = [j \in Jobs |-> IF j \in {k} THEN NoWorker ELSE holder[j]]
  BY <1>3
<1> QED BY <1>1, <1>2, <1>4, <1>5 DEF Lifecycle!Recover, phase, holder, PhaseOf

\* Each transaction is an action of the lifecycle or leaves its state alone, and
\* counts the change it makes to a row.
LEMMA OwnerStepMoves ==
  ASSUME IInv, NEW w \in Workers, NEW k \in Jobs, OwnerStep(w, k)
  PROVE  [Lifecycle!Next]_(Lifecycle!vars) /\ Counted(k)
<1>1. TypeOK /\ job[k] \in Row
  BY DEF IInv, TypeOK
<1> DEFINE u == Unclaimed(job[k])
<1>2. u \in Row /\ u.version = job[k].version /\ u.claimedBy = NoWorker
  BY <1>1 DEF Row, Unclaimed, NoTime
<1> HIDE DEF u
<1>3. ASSUME NEW r \in Row, Write(k, r), r.version = job[k].version,
             r.status = job[k].status, r.claimedBy = job[k].claimedBy
      PROVE  UNCHANGED Lifecycle!vars /\ Counted(k)
  <2>1. Lifecycle!Move(k, PhaseOf(r.status), r.claimedBy) /\ Counted(k)
    BY <1>1, <1>3, WriteMoves
  <2>2. PhaseOf(r.status) = PhaseOf(job[k].status)
    BY <1>3
  <2> DEFINE phase  == [j \in Jobs |-> PhaseOf(job[j].status)]
             holder == [j \in Jobs |-> job[j].claimedBy]
  <2>3. /\ [j \in Jobs |-> PhaseOf(job'[j].status)] = [phase EXCEPT ![k] = phase[k]]
        /\ [j \in Jobs |-> job'[j].claimedBy] = [holder EXCEPT ![k] = holder[k]]
    BY <1>3, <2>1, <2>2 DEF Lifecycle!Move, PhaseOf
  <2>4. [phase EXCEPT ![k] = phase[k]] = phase /\ [holder EXCEPT ![k] = holder[k]] = holder
    OBVIOUS
  <2> QED BY <2>1, <2>3, <2>4 DEF Lifecycle!vars, PhaseOf
<1>4. CASE UpdateProgress(w, k)
  BY <1>1, <1>3, <1>4 DEF UpdateProgress
<1>5. ASSUME NEW at \in Readings, Heartbeat(w, k, at)
      PROVE  UNCHANGED Lifecycle!vars /\ Counted(k)
  <2> DEFINE r == [job[k] EXCEPT !.lease = at + Lease]
  <2>1. at + Lease \in Nat
    BY <1>1, ReadingsArePositive, ConstantsAssumption
  <2>2. /\ r \in Row /\ r.version = job[k].version
        /\ r.status = job[k].status /\ r.claimedBy = job[k].claimedBy
    BY <1>1, <2>1 DEF Row
  <2>3. Write(k, r)
    BY <1>5 DEF Heartbeat
  <2> HIDE DEF r
  <2> QED BY <1>3, <2>2, <2>3
<1>6. ASSUME NEW at \in Readings, BlockJob(w, k, at)
      PROVE  Lifecycle!Recover({k}) /\ Counted(k)
  <2> DEFINE r == [u EXCEPT !.status = "BLOCKED",
                            !.blockedUntil = at + BlockDelay]
  <2>1. at + BlockDelay \in Nat
    BY <1>1, ReadingsArePositive, ConstantsAssumption
  <2>3. /\ r \in Row /\ r.version = job[k].version
        /\ r.status = "BLOCKED" /\ r.claimedBy = NoWorker
    BY <1>2, <2>1 DEF Row, Status
  <2>4. Write(k, r) /\ job[k].status = "RUNNING"
    BY <1>6 DEF BlockJob, u
  <2> HIDE DEF r
  <2>5. Lifecycle!Move(k, "waiting", NoWorker) /\ Counted(k)
    BY <1>1, <2>3, <2>4, WriteMoves DEF PhaseOf
  <2> QED BY <2>4, <2>5, MoveIsRecover
<1>7. ASSUME NEW at \in Readings, Complete(w, k, at)
      PROVE  Lifecycle!Done(k) /\ Counted(k)
  <2> DEFINE r == [u EXCEPT !.status = "SUCCESS"]
  <2>1. /\ r \in Row /\ r.version = job[k].version
        /\ r.status = "SUCCESS" /\ r.claimedBy = NoWorker
    BY <1>2 DEF Row, Status, Terminal
  <2>2. Write(k, r) /\ job[k].status = "RUNNING"
    BY <1>7 DEF Complete, Finish, OwnedActive, u
  <2> HIDE DEF r
  <2>3. Lifecycle!Move(k, "done", NoWorker) /\ Counted(k)
    BY <1>1, <2>1, <2>2, WriteMoves DEF PhaseOf
  <2> QED BY <2>2, <2>3 DEF Lifecycle!Done, PhaseOf
<1>8. ASSUME NEW at \in Readings, CompleteCancelled(w, k, at)
      PROVE  Lifecycle!Stopped(k) /\ Counted(k)
  <2> DEFINE r == [u EXCEPT !.status = "CANCELLED"]
  <2>1. /\ r \in Row /\ r.version = job[k].version
        /\ r.status = "CANCELLED" /\ r.claimedBy = NoWorker
    BY <1>2 DEF Row, Status, Terminal
  <2>2. Write(k, r) /\ job[k].status = "CANCEL_REQUESTED"
    BY <1>8 DEF CompleteCancelled, Finish, OwnedActive, u
  <2> HIDE DEF r
  <2>3. Lifecycle!Move(k, "cancelled", NoWorker) /\ Counted(k)
    BY <1>1, <2>1, <2>2, WriteMoves DEF PhaseOf
  <2> QED BY <2>2, <2>3 DEF Lifecycle!Stopped, PhaseOf
<1>9. ASSUME NEW at \in Readings, NEW kind \in FailureKinds, RecordFailure(w, k, kind, at)
      PROVE  (Lifecycle!Recover({k}) \/ Lifecycle!Fail(k)) /\ Counted(k)
  <2>1. job[k].status = "RUNNING"
    BY <1>9 DEF RecordFailure, OwnedActive
  <2>2. CASE Retries(k, kind)
    <3> DEFINE r == [u EXCEPT !.status = "QUEUED",
                              !.availableAt = at + RetryDelay[job[k].attempts]]
    <3>1. at + RetryDelay[job[k].attempts] \in Nat
      <4>1. job[k].attempts \in 1..RetryCount
        BY <1>1, <2>1, <2>2, ConstantsAssumption DEF IInv, RowOK, Row, Retries, Owned
      <4>2. at \in Nat
        BY <1>1, ReadingsArePositive
      <4> QED BY <4>1, <4>2, ConstantsAssumption, SMTT(30)
    <3>2. /\ r \in Row /\ r.version = job[k].version
          /\ r.status = "QUEUED" /\ r.claimedBy = NoWorker
      BY <1>2, <3>1 DEF Row, Status
    <3>3. Write(k, r)
      BY <1>9, <2>2 DEF RecordFailure, u
    <3> HIDE DEF r
    <3>4. Lifecycle!Move(k, "waiting", NoWorker) /\ Counted(k)
      BY <1>1, <3>2, <3>3, WriteMoves DEF PhaseOf
    <3> QED BY <2>1, <3>4, MoveIsRecover
  <2>3. CASE ~ Retries(k, kind)
    <3> DEFINE r == [u EXCEPT !.status = IF kind = "TIMEOUT" THEN "TIMEOUT"
                                                            ELSE "TECHNICAL_ERROR"]
    <3>1. /\ r \in Row /\ r.version = job[k].version
          /\ r.status \in {"TIMEOUT", "TECHNICAL_ERROR"} /\ r.claimedBy = NoWorker
      BY <1>2 DEF Row, Status, Terminal
    <3>2. Write(k, r)
      BY <1>9, <2>3 DEF RecordFailure, u
    <3> HIDE DEF r
    <3>3. Lifecycle!Move(k, "failed", NoWorker) /\ Counted(k)
      BY <1>1, <3>1, <3>2, WriteMoves DEF PhaseOf
    <3> QED BY <2>1, <3>3 DEF Lifecycle!Fail, PhaseOf
  <2> QED BY <2>2, <2>3
<1>10. Lifecycle!Recover({k}) => Lifecycle!Next
  BY DEF Lifecycle!Next
<1> QED BY <1>4, <1>5, <1>6, <1>7, <1>8, <1>9, <1>10, <1>3 DEF OwnerStep, Lifecycle!Next

LEMMA EnqueueMoves ==
  ASSUME IInv, NEW k \in Jobs, NEW at \in Readings, Enqueue(k, at)
  PROVE  Lifecycle!Submit(k) /\ \A j \in Jobs : j # k => job'[j] = job[j]
<1>1. job \in [Jobs -> Row] /\ job[k].status = "ABSENT" /\ job[k].claimedBy = NoWorker
  BY DEF IInv, TypeOK, RowOK, Enqueue, Owned
<1> DEFINE r == [job[k] EXCEPT !.status = "QUEUED", !.availableAt = at]
<1>2. job' = [job EXCEPT ![k] = r]
  BY <1>1 DEF Enqueue, Row
<1>3. \A j \in Jobs : j # k => job'[j] = job[j]
  BY <1>1, <1>2
<1>4. r.status = "QUEUED" /\ r.claimedBy = NoWorker
  BY <1>1 DEF Row
<1> HIDE DEF r
<1>5. \A j \in Jobs : /\ job'[j].status = IF j = k THEN "QUEUED" ELSE job[j].status
                      /\ job'[j].claimedBy = IF j = k THEN NoWorker ELSE job[j].claimedBy
  BY <1>1, <1>2, <1>4
<1>6. [j \in Jobs |-> PhaseOf(job'[j].status)]
        = [[j \in Jobs |-> PhaseOf(job[j].status)] EXCEPT ![k] = "waiting"]
  <2>1. PhaseOf(job'[k].status) = "waiting"
    BY <1>5 DEF PhaseOf
  <2>2. \A j \in Jobs : j # k => PhaseOf(job'[j].status) = PhaseOf(job[j].status)
    BY <1>3
  <2> QED BY <2>1, <2>2
<1>7. [j \in Jobs |-> job'[j].claimedBy]
        = [[j \in Jobs |-> job[j].claimedBy] EXCEPT ![k] = NoWorker]
  BY <1>5
<1> QED BY <1>1, <1>3, <1>6, <1>7 DEF Lifecycle!Submit, Lifecycle!Move, PhaseOf

LEMMA CancelMoves ==
  ASSUME IInv, NEW k \in Jobs, RequestCancel(k)
  PROVE  Lifecycle!Withdraw(k) /\ Counted(k)
<1>1. TypeOK /\ job[k] \in Row
  BY DEF IInv, TypeOK
<1>2. CASE job[k].status = "QUEUED"
  <2> DEFINE r == [Unclaimed(job[k]) EXCEPT !.status = "CANCELLED", !.cancelAsked = TRUE]
  <2>1. /\ r \in Row /\ r.version = job[k].version
        /\ r.status = "CANCELLED" /\ r.claimedBy = NoWorker
    BY <1>1 DEF Row, Unclaimed, Status, Terminal, NoTime
  <2>2. Write(k, r)
    BY <1>2 DEF RequestCancel
  <2> HIDE DEF r
  <2>3. Lifecycle!Move(k, "cancelled", NoWorker) /\ Counted(k)
    BY <1>1, <2>1, <2>2, WriteMoves DEF PhaseOf
  <2> QED BY <1>2, <2>3 DEF Lifecycle!Withdraw, PhaseOf
<1>3. CASE job[k].status = "RUNNING"
  <2> DEFINE r == [job[k] EXCEPT !.status = "CANCEL_REQUESTED", !.cancelAsked = TRUE]
  <2>1. /\ r \in Row /\ r.version = job[k].version
        /\ r.status = "CANCEL_REQUESTED" /\ r.claimedBy = job[k].claimedBy
    BY <1>1 DEF Row, Status, Owned
  <2>2. Write(k, r)
    BY <1>3 DEF RequestCancel
  <2> HIDE DEF r
  <2>3. Lifecycle!Move(k, "stopping", r.claimedBy) /\ Counted(k)
    <3>1. Lifecycle!Move(k, PhaseOf(r.status), r.claimedBy) /\ Counted(k)
      BY <1>1, <2>1, <2>2, WriteMoves DEF PhaseOf, Lifecycle!Move
    <3> QED BY <2>1, <3>1 DEF PhaseOf, Lifecycle!Move
  <2> QED BY <1>3, <2>1, <2>3 DEF Lifecycle!Withdraw, Lifecycle!Move, PhaseOf
<1> QED BY <1>2, <1>3 DEF RequestCancel

LEMMA ReprocessMoves ==
  ASSUME IInv, NEW k \in Jobs, NEW at \in Readings, ReprocessDeadLetter(k, at)
  PROVE  /\ Lifecycle!Reopen(k) /\ Counted(k)
         /\ job[k].status = "TECHNICAL_ERROR" /\ job'[k].status = "QUEUED"
         /\ openLetters[k] = 1 /\ openLetters'[k] = 0
<1>1. /\ TypeOK /\ job[k] \in Row /\ openLetters[k] = 1
      /\ job[k].status = "TECHNICAL_ERROR" /\ job[k].claimedBy = NoWorker
  BY DEF IInv, TypeOK, RowOK, ReprocessDeadLetter, Owned
<1> DEFINE r == [job[k] EXCEPT !.status = "QUEUED", !.availableAt = at, !.attempts = 0]
<1>2. at \in Nat
  BY <1>1, ReadingsArePositive
<1>3. /\ r \in Row /\ r.version = job[k].version
      /\ r.status = "QUEUED" /\ r.claimedBy = NoWorker
  BY <1>1, <1>2 DEF Row, Status
<1>4. Write(k, r)
  BY DEF ReprocessDeadLetter
<1> HIDE DEF r
<1>5. Lifecycle!Move(k, "waiting", NoWorker) /\ Counted(k)
  BY <1>1, <1>3, <1>4, WriteMoves DEF PhaseOf
<1>6. job'[k].status = "QUEUED"
  BY <1>1, <1>3, <1>4, WrittenStatus
<1>7. openLetters'[k] = 0
  BY <1>1 DEF ReprocessDeadLetter, TypeOK
<1> QED BY <1>1, <1>5, <1>6, <1>7 DEF Lifecycle!Reopen, PhaseOf

LEMMA ClaimMoves ==
  ASSUME IInv, NEW w \in Workers, NEW k \in Jobs, ClaimNext(w, k)
  PROVE  /\ Lifecycle!Take(w, k) /\ Counted(k)
         /\ job[k].status \in {"QUEUED", "RUNNING", "BLOCKED"}
<1>1. TypeOK /\ job[k] \in Row
  BY DEF IInv, TypeOK
<1> DEFINE r == [job[k] EXCEPT !.status = "RUNNING", !.claimedBy = w,
                               !.lease = claim[w].at + Lease, !.attempts = @ + 1,
                               !.blockedUntil = NoTime]
<1>2. claim[w].at + Lease \in Nat
  BY ClaimTime, ConstantsAssumption DEF ClaimNext
<1>3. job[k].attempts + 1 \in Nat
  BY <1>1 DEF Row
<1>4. /\ r \in Row /\ r.version = job[k].version
      /\ r.status = "RUNNING" /\ r.claimedBy = w
  BY <1>1, <1>2, <1>3 DEF Row, Status, Owned, NoTime
<1>5. Write(k, r) /\ job[k].status \in {"QUEUED", "RUNNING", "BLOCKED"}
  BY DEF ClaimNext, Candidates
<1> HIDE DEF r
<1>6. Lifecycle!Move(k, "held", w) /\ Counted(k)
  BY <1>1, <1>4, <1>5, WriteMoves DEF PhaseOf
<1> QED BY <1>5, <1>6 DEF Lifecycle!Take, PhaseOf

LEMMA ReaperMoves ==
  ASSUME IInv, NEW at \in Readings, ReleaseExpiredClaims(at)
  PROVE  /\ Lifecycle!Recover({j \in Jobs : Expired(job[j], at)})
         /\ \A j \in Jobs : job'[j] = job[j] \/ (Counted(j) /\ job[j].status \in Owned)
<1>1. job \in [Jobs -> Row] /\ job' = [j \in Jobs |-> Released(job[j], at)]
  BY DEF IInv, TypeOK, ReleaseExpiredClaims
<1>2. ASSUME NEW j \in Jobs, Expired(job[j], at)
      PROVE  /\ job[j].status \in Owned
             /\ job'[j].status = IF job[j].status = "RUNNING" THEN "QUEUED" ELSE "CANCELLED"
             /\ job'[j].claimedBy = NoWorker
             /\ Counted(j)
  <2> DEFINE r == [Unclaimed(job[j]) EXCEPT
                     !.status = IF @ = "RUNNING" THEN "QUEUED" ELSE "CANCELLED"]
  <2>1. job[j] \in Row /\ job[j].status \in Owned
    BY <1>1, <1>2 DEF Expired
  <2>2. /\ r \in Row /\ r.version = job[j].version /\ r.claimedBy = NoWorker
        /\ r.status = IF job[j].status = "RUNNING" THEN "QUEUED" ELSE "CANCELLED"
    BY <2>1 DEF Row, Unclaimed, Status, Terminal, NoTime
  <2>3. job'[j] = Bumped(r)
    BY <1>1, <1>2 DEF Released
  <2> HIDE DEF r
  <2> QED BY <2>1, <2>2, <2>3 DEF Bumped, Row, Counted
<1>3. ASSUME NEW j \in Jobs, ~ Expired(job[j], at)
      PROVE  job'[j] = job[j]
  BY <1>1, <1>3 DEF Released
<1> DEFINE lost == {j \in Jobs : Expired(job[j], at)}
<1>4. \A j \in lost : PhaseOf(job[j].status) \in {"held", "stopping"}
  BY <1>2 DEF PhaseOf, Owned
<1>5. [j \in Jobs |-> PhaseOf(job'[j].status)]
        = [j \in Jobs |-> IF j \notin lost THEN PhaseOf(job[j].status)
                         ELSE IF PhaseOf(job[j].status) = "held" THEN "waiting"
                                                               ELSE "cancelled"]
  <2>1. ASSUME NEW j \in Jobs, j \in lost
        PROVE  PhaseOf(job'[j].status)
                 = IF PhaseOf(job[j].status) = "held" THEN "waiting" ELSE "cancelled"
    BY <1>2, <2>1 DEF PhaseOf, Owned
  <2>2. ASSUME NEW j \in Jobs, j \notin lost
        PROVE  PhaseOf(job'[j].status) = PhaseOf(job[j].status)
    BY <1>3, <2>2
  <2> HIDE DEF lost
  <2> QED BY <2>1, <2>2
<1>6. [j \in Jobs |-> job'[j].claimedBy]
        = [j \in Jobs |-> IF j \in lost THEN NoWorker ELSE job[j].claimedBy]
  BY <1>2, <1>3
<1>7. lost \subseteq Jobs
  OBVIOUS
<1>8. Lifecycle!Recover(lost)
  <2> HIDE DEF lost
  <2> DEFINE phase  == [j \in Jobs |-> PhaseOf(job[j].status)]
             holder == [j \in Jobs |-> job[j].claimedBy]
  <2>1. \A j \in lost : phase[j] \in {"held", "stopping"}
    BY <1>4, <1>7
  <2>2. [j \in Jobs |-> PhaseOf(job'[j].status)]
          = [j \in Jobs |-> IF j \notin lost THEN phase[j]
                           ELSE IF phase[j] = "held" THEN "waiting" ELSE "cancelled"]
    BY <1>5
  <2>3. [j \in Jobs |-> job'[j].claimedBy]
          = [j \in Jobs |-> IF j \in lost THEN NoWorker ELSE holder[j]]
    BY <1>6
  <2> QED BY <2>1, <2>2, <2>3 DEF Lifecycle!Recover, PhaseOf
<1>9. \A j \in Jobs : job'[j] = job[j] \/ (Counted(j) /\ job[j].status \in Owned)
  BY <1>2, <1>3
<1> QED BY <1>8, <1>9

-----------------------------------------------------------------------------

LEMMA StepMoves == IInv /\ [Next]_vars => [Lifecycle!Next]_(Lifecycle!vars)
<1> SUFFICES ASSUME IInv, [Next]_vars PROVE [Lifecycle!Next]_(Lifecycle!vars)
  OBVIOUS
<1>1. CASE Tick \/ UNCHANGED vars
  BY <1>1 DEF Tick, vars, Lifecycle!vars
<1>2. ASSUME NEW k \in Jobs, RequestCancel(k) PROVE Lifecycle!Next
  BY <1>2, CancelMoves DEF Lifecycle!Next
<1>3. ASSUME NEW w \in Workers, NEW k \in Jobs, OwnerStep(w, k)
      PROVE  [Lifecycle!Next]_(Lifecycle!vars)
  BY <1>3, OwnerStepMoves
<1>4. ASSUME NEW at \in Readings, ReleaseExpiredClaims(at) PROVE Lifecycle!Next
  <2> DEFINE lost == {j \in Jobs : Expired(job[j], at)}
  <2>1. Lifecycle!Recover(lost)
    BY <1>4, ReaperMoves
  <2>2. lost \in SUBSET Jobs
    OBVIOUS
  <2> HIDE DEF lost
  <2>3. \E some \in SUBSET Jobs : Lifecycle!Recover(some)
    BY <2>1, <2>2 DEF Lifecycle!Recover
  <2> QED BY <2>3 DEF Lifecycle!Next
<1>5. ASSUME NEW at \in Readings, NEW k \in Jobs, Enqueue(k, at) PROVE Lifecycle!Next
  BY <1>5, EnqueueMoves DEF Lifecycle!Next
<1>6. ASSUME NEW at \in Readings, NEW k \in Jobs, ReprocessDeadLetter(k, at)
      PROVE  Lifecycle!Next
  BY <1>6, ReprocessMoves DEF Lifecycle!Next
<1>7. ASSUME NEW w \in Workers, NEW k \in Jobs, ClaimNext(w, k)
      PROVE  Lifecycle!Next
  BY <1>7, ClaimMoves DEF Lifecycle!Next
<1>8. ASSUME NEW w \in Workers, ClaimEnds(w) \/ \E at \in Readings : CountLeases(w, at)
      PROVE  UNCHANGED Lifecycle!vars
  BY <1>8 DEF ClaimEnds, CountLeases, Lifecycle!vars
<1> QED BY <1>1, <1>2, <1>3, <1>4, <1>5, <1>6, <1>7, <1>8 DEF Next

LEMMA InitMoves == Init => Lifecycle!Init
BY DEF Init, NoRow, PhaseOf, Lifecycle!Init

\* The rows, read as phases and holders, behave as JobLifecycle promises.
THEOREM QueueImplementsLifecycle == Spec => ImplementsLifecycle
BY InitMoves, StepMoves, InvariantHolds, PTL DEF Spec, ImplementsLifecycle, Lifecycle!Spec

\* What a step may do to a row that changes.
LEMMA StepEffect ==
  ASSUME IInv, [Next]_vars, NEW j \in Jobs, job'[j] # job[j], job[j].status # "ABSENT"
  PROVE  /\ Counted(j)
         /\ job[j].status \in Terminal =>
              /\ job[j].status = "TECHNICAL_ERROR" /\ job'[j].status = "QUEUED"
              /\ openLetters[j] = 1 /\ openLetters'[j] = 0
<1>1. TypeOK
  BY DEF IInv
<1>2. Next /\ ~ Tick
  BY DEF Tick, vars
<1>3. ASSUME NEW k \in Jobs, RequestCancel(k)
      PROVE  Counted(j) /\ job[j].status \notin Terminal
  <2>1. k = j
    BY <1>1, <1>3, OtherRowsStay DEF RequestCancel
  <2> QED BY <1>3, <2>1, CancelMoves DEF RequestCancel, Terminal
<1>4. ASSUME NEW w \in Workers, NEW k \in Jobs, OwnerStep(w, k)
      PROVE  Counted(j) /\ job[j].status \notin Terminal
  <2>1. k = j /\ job[k].status \in Owned
    BY <1>1, <1>4, OwnerStepIsLocal
  <2> QED BY <1>4, <2>1, OwnerStepMoves DEF Owned, Terminal
<1>5. ASSUME NEW at \in Readings, ReleaseExpiredClaims(at)
      PROVE  Counted(j) /\ job[j].status \notin Terminal
  BY <1>5, ReaperMoves DEF Owned, Terminal
<1>6. ASSUME NEW at \in Readings, NEW k \in Jobs, Enqueue(k, at) PROVE FALSE
  BY <1>6, EnqueueMoves DEF Enqueue
<1>7. ASSUME NEW at \in Readings, NEW k \in Jobs, ReprocessDeadLetter(k, at)
      PROVE  /\ Counted(j)
             /\ job[j].status = "TECHNICAL_ERROR" /\ job'[j].status = "QUEUED"
             /\ openLetters[j] = 1 /\ openLetters'[j] = 0
  <2>1. k = j
    BY <1>1, <1>7, OtherRowsStay DEF ReprocessDeadLetter
  <2> QED BY <1>7, <2>1, ReprocessMoves
<1>9. ASSUME NEW w \in Workers, ClaimEnds(w) \/ \E at \in Readings : CountLeases(w, at)
      PROVE  FALSE
  BY <1>9 DEF ClaimEnds, CountLeases
<1>8. ASSUME NEW w \in Workers, NEW k \in Jobs, ClaimNext(w, k)
      PROVE  Counted(j) /\ job[j].status \notin Terminal
  <2>1. k = j
    BY <1>1, <1>8, OtherRowsStay DEF ClaimNext
  <2> QED BY <1>8, <2>1, ClaimMoves DEF Terminal
<1> QED BY <1>2, <1>3, <1>4, <1>5, <1>6, <1>7, <1>8, <1>9, SMTT(60) DEF Next

\* Every change of an enqueued row moves its version by exactly one.
THEOREM VersionsCount == Spec => VersionCountsChanges
<1>1. IInv /\ [Next]_vars =>
        [\A j \in Jobs :
           /\ job[j].status # "ABSENT"
           /\ job'[j] # job[j]
           => job'[j].version = job[j].version + 1]_vars
  BY StepEffect DEF Counted
<1> QED BY <1>1, InvariantHolds, PTL DEF Spec, VersionCountsChanges

\* A finished job changes only by the reprocessing of its open dead letter.
THEOREM FinishedIsFinal == Spec => FinishedStaysFinished
<1>1. IInv /\ [Next]_vars =>
        [\A j \in Jobs :
           /\ job[j].status \in Terminal
           /\ job'[j] # job[j]
           => /\ job[j].status = "TECHNICAL_ERROR" /\ job'[j].status = "QUEUED"
              /\ openLetters[j] = 1 /\ openLetters'[j] = 0]_vars
  BY StepEffect DEF Terminal
<1> QED BY <1>1, InvariantHolds, PTL DEF Spec, FinishedStaysFinished

-----------------------------------------------------------------------------
(* The quotas *)

\* Writing a row that keeps its attempts raises no count of attempts.
LEMMA WrittenAttempts ==
  ASSUME TypeOK, NEW k \in Jobs, NEW r, Write(k, r), r.attempts = job[k].attempts,
         DOMAIN r = DOMAIN job[k], NEW j \in Jobs
  PROVE  job'[j].attempts = job[j].attempts
<1>1. CASE j = k
  <2>1. job'[k] = Bumped(r)
    BY DEF Write, TypeOK
  <2> QED BY <1>1, <2>1 DEF Bumped
<1>2. CASE j # k
  BY <1>2, OtherRowsStay
<1> QED BY <1>1, <1>2

\* An owner's transactions write one row and keep its attempts.
LEMMA OwnerWrites ==
  ASSUME TypeOK, NEW w \in Workers, NEW k \in Jobs, OwnerStep(w, k)
  PROVE  \E r : Write(k, r) /\ r.attempts = job[k].attempts /\ DOMAIN r = DOMAIN job[k]
<1>1. job[k] \in Row
  BY DEF TypeOK
<1>2. CASE UpdateProgress(w, k)
  BY <1>2 DEF UpdateProgress
<1>3. ASSUME NEW at \in Readings, Heartbeat(w, k, at)
      PROVE  \E r : Write(k, r) /\ r.attempts = job[k].attempts /\ DOMAIN r = DOMAIN job[k]
  <2> DEFINE r == [job[k] EXCEPT !.lease = at + Lease]
  <2>1. Write(k, r)
    BY <1>3 DEF Heartbeat
  <2>2. r.attempts = job[k].attempts /\ DOMAIN r = DOMAIN job[k]
    BY <1>1 DEF Row
  <2> HIDE DEF r
  <2> QED BY <2>1, <2>2
<1>4. ASSUME NEW at \in Readings, BlockJob(w, k, at)
      PROVE  \E r : Write(k, r) /\ r.attempts = job[k].attempts /\ DOMAIN r = DOMAIN job[k]
  <2> DEFINE r == [Unclaimed(job[k]) EXCEPT !.status = "BLOCKED",
                            !.blockedUntil = at + BlockDelay]
  <2>1. Write(k, r)
    BY <1>4 DEF BlockJob
  <2>2. r.attempts = job[k].attempts /\ DOMAIN r = DOMAIN job[k]
    BY <1>1 DEF Row, Unclaimed
  <2> HIDE DEF r
  <2> QED BY <2>1, <2>2
<1>5. ASSUME NEW at, NEW allowed, NEW status, Finish(w, k, allowed, status, at)
      PROVE  \E r : Write(k, r) /\ r.attempts = job[k].attempts /\ DOMAIN r = DOMAIN job[k]
  <2> DEFINE r == [Unclaimed(job[k]) EXCEPT !.status = status]
  <2>1. Write(k, r)
    BY <1>5 DEF Finish
  <2>2. r.attempts = job[k].attempts /\ DOMAIN r = DOMAIN job[k]
    BY <1>1 DEF Row, Unclaimed
  <2> HIDE DEF r
  <2> QED BY <2>1, <2>2
<1>6. ASSUME NEW at \in Readings, NEW kind \in FailureKinds, RecordFailure(w, k, kind, at)
      PROVE  \E r : Write(k, r) /\ r.attempts = job[k].attempts /\ DOMAIN r = DOMAIN job[k]
  <2> DEFINE r == [Unclaimed(job[k]) EXCEPT !.status = "QUEUED",
                                            !.availableAt = at + RetryDelay[job[k].attempts]]
             s == [Unclaimed(job[k]) EXCEPT !.status = IF kind = "TIMEOUT" THEN "TIMEOUT"
                                                                       ELSE "TECHNICAL_ERROR"]
  <2>1. Write(k, r) \/ Write(k, s)
    BY <1>6 DEF RecordFailure
  <2>2. /\ r.attempts = job[k].attempts /\ DOMAIN r = DOMAIN job[k]
        /\ s.attempts = job[k].attempts /\ DOMAIN s = DOMAIN job[k]
    BY <1>1 DEF Row, Unclaimed
  <2> HIDE DEF r, s
  <2> QED BY <2>1, <2>2
<1> QED BY <1>2, <1>3, <1>4, <1>5, <1>6 DEF OwnerStep, Complete, CompleteCancelled

\* Only a claim raises a count of attempts.
LEMMA OnlyClaimsCount ==
  ASSUME IInv, [Next]_vars, NEW j \in Jobs, job'[j].attempts > job[j].attempts
  PROVE  \E w \in Workers : ClaimNext(w, j)
<1>1. TypeOK /\ job \in [Jobs -> Row]
  BY DEF IInv, TypeOK
<1>2. \A k \in Jobs : job[k].attempts \in Nat
  BY <1>1 DEF Row
<1>3. ~ (job'[j].attempts = job[j].attempts)
  BY <1>2
<1>4. Next /\ ~ Tick
  BY <1>3 DEF Tick, vars
<1>5. ASSUME NEW k \in Jobs, RequestCancel(k) PROVE FALSE
  <2> DEFINE r == [Unclaimed(job[k]) EXCEPT !.status = "CANCELLED", !.cancelAsked = TRUE]
             s == [job[k] EXCEPT !.status = "CANCEL_REQUESTED", !.cancelAsked = TRUE]
  <2>1. Write(k, r) \/ Write(k, s)
    BY <1>5 DEF RequestCancel
  <2>2. /\ r.attempts = job[k].attempts /\ DOMAIN r = DOMAIN job[k]
        /\ s.attempts = job[k].attempts /\ DOMAIN s = DOMAIN job[k]
    BY <1>1 DEF Row, Unclaimed
  <2> HIDE DEF r, s
  <2> QED BY <1>1, <1>3, <2>1, <2>2, WrittenAttempts
<1>6. ASSUME NEW w \in Workers, NEW k \in Jobs, OwnerStep(w, k) PROVE FALSE
  <2>1. \E r : Write(k, r) /\ r.attempts = job[k].attempts /\ DOMAIN r = DOMAIN job[k]
    BY <1>1, <1>6, OwnerWrites
  <2> QED BY <1>1, <1>3, <2>1, WrittenAttempts
<1>7. ASSUME NEW at \in Readings, ReleaseExpiredClaims(at) PROVE FALSE
  <2>1. job'[j] = Released(job[j], at)
    BY <1>7 DEF ReleaseExpiredClaims
  <2> QED BY <1>1, <1>3, <2>1 DEF Released, Bumped, Unclaimed, Row
<1>8. ASSUME NEW at \in Readings, NEW k \in Jobs, Enqueue(k, at) PROVE FALSE
  <2>1. job' = [job EXCEPT ![k] = [job[k] EXCEPT !.status = "QUEUED", !.availableAt = at]]
    BY <1>1, <1>8 DEF Enqueue, Row
  <2>2. CASE j = k
    <3>1. job'[j] = [job[j] EXCEPT !.status = "QUEUED", !.availableAt = at]
      BY <1>1, <2>1, <2>2
    <3> QED BY <1>1, <1>3, <3>1 DEF Row
  <2>3. CASE j # k
    BY <1>1, <1>3, <2>1, <2>3
  <2> QED BY <2>2, <2>3
<1>9. ASSUME NEW at \in Readings, NEW k \in Jobs, ReprocessDeadLetter(k, at) PROVE FALSE
  <2>1. CASE j = k
    <3>1. job'[j].attempts = 0
      BY <1>1, <1>9, <2>1 DEF ReprocessDeadLetter, Write, Bumped, TypeOK, Row
    <3> QED BY <1>2, <3>1
  <2>2. CASE j # k
    BY <1>1, <1>3, <1>9, <2>2, OtherRowsStay DEF ReprocessDeadLetter
  <2> QED BY <2>1, <2>2
<1>11. ASSUME NEW w \in Workers, ClaimEnds(w) \/ \E at \in Readings : CountLeases(w, at)
       PROVE  FALSE
  BY <1>3, <1>11 DEF ClaimEnds, CountLeases
<1>10. ASSUME NEW w \in Workers, NEW k \in Jobs, ClaimNext(w, k)
       PROVE  \E v \in Workers : ClaimNext(v, j)
  <2>1. k = j
    BY <1>1, <1>3, <1>10, OtherRowsStay DEF ClaimNext
  <2> QED BY <1>10, <2>1
<1> QED BY <1>4, <1>5, <1>6, <1>7, <1>8, <1>9, <1>10, <1>11, SMTT(60) DEF Next

\* A set that lies within a finite set and one more element has at most one
\* element more.
LEMMA AtMostOneMore ==
  ASSUME NEW S, NEW T, NEW k, NEW n \in Nat, IsFiniteSet(S), Cardinality(S) < n,
         T \subseteq S \cup {k}
  PROVE  Cardinality(T) <= n
<1>1. Cardinality(S) \in Nat
  BY FS_CardinalityType
<1>2. /\ IsFiniteSet(S \cup {k})
      /\ Cardinality(S \cup {k}) = IF k \in S THEN Cardinality(S) ELSE Cardinality(S) + 1
  BY FS_AddElement
<1>3. IsFiniteSet(T) /\ Cardinality(T) <= Cardinality(S \cup {k})
  BY <1>2, FS_Subset
<1>4. Cardinality(T) \in Nat
  BY <1>3, FS_CardinalityType
<1> QED BY <1>1, <1>2, <1>3, <1>4

\* At most one claim has counted, and every lease that is live at its instant is
\* one that it counted or one that was renewed since.
CountInv ==
  /\ \A v, w \in Counting : v = w
  /\ \A w \in Counting : /\ LiveAt(claim[w].at) \subseteq claim[w].counted \cup claim[w].missed
                         /\ Cardinality(claim[w].counted) < MaxRunning

\* A row that is owned after a transaction other than a claim or a heartbeat was
\* owned before, under the same lease, and the claims are left alone.
Quiet ==
  /\ UNCHANGED claim
  /\ \A j \in Jobs : job'[j].status \in Owned
                     => job[j].status \in Owned /\ job'[j].lease = job[j].lease

\* A transaction on one row is quiet when what it writes is.
LEMMA QuietWrite ==
  ASSUME TypeOK, NEW k \in Jobs, NEW r \in Row, Write(k, r), UNCHANGED claim,
         r.status \in Owned => job[k].status \in Owned /\ r.lease = job[k].lease
  PROVE  Quiet
<1>1. job'[k] = Bumped(r)
  BY DEF Write, TypeOK
<1>2. job'[k].status = r.status /\ job'[k].lease = r.lease
  BY <1>1 DEF Bumped, Row
<1>3. \A j \in Jobs : j # k => job'[j] = job[j]
  BY OtherRowsStay
<1> QED BY <1>2, <1>3 DEF Quiet

\* What the owner does besides its heartbeats is quiet.
LEMMA OwnerIsQuiet ==
  ASSUME IInv, NEW w \in Workers, NEW k \in Jobs, OwnerStep(w, k)
  PROVE  Quiet \/ \E at \in Readings : Heartbeat(w, k, at)
<1>1. TypeOK /\ job[k] \in Row
  BY DEF IInv, TypeOK
<1>2. CASE UpdateProgress(w, k)
  BY <1>1, <1>2, QuietWrite DEF UpdateProgress
<1>3. ASSUME NEW at \in Readings, BlockJob(w, k, at) PROVE Quiet
  <2> DEFINE r == [Unclaimed(job[k]) EXCEPT !.status = "BLOCKED",
                                            !.blockedUntil = at + BlockDelay]
  <2>1. at + BlockDelay \in Nat
    BY <1>1, ReadingsArePositive, ConstantsAssumption
  <2>2. r \in Row /\ r.status = "BLOCKED"
    BY <1>1, <2>1 DEF Row, Unclaimed, Status, NoTime
  <2>3. Write(k, r) /\ UNCHANGED claim
    BY <1>3 DEF BlockJob
  <2> HIDE DEF r
  <2> QED BY <1>1, <2>2, <2>3, QuietWrite DEF Owned
<1>4. ASSUME NEW at, NEW allowed, NEW status \in Terminal, Finish(w, k, allowed, status, at)
      PROVE  Quiet
  <2> DEFINE r == [Unclaimed(job[k]) EXCEPT !.status = status]
  <2>1. r \in Row /\ r.status \notin Owned
    BY <1>1 DEF Row, Unclaimed, Status, Terminal, Owned, NoTime
  <2>2. Write(k, r) /\ UNCHANGED claim
    BY <1>4 DEF Finish
  <2> HIDE DEF r
  <2> QED BY <1>1, <2>1, <2>2, QuietWrite
<1>5. ASSUME NEW at \in Readings, NEW kind \in FailureKinds, RecordFailure(w, k, kind, at)
      PROVE  Quiet
  <2> DEFINE u == Unclaimed(job[k])
  <2>1. u \in Row
    BY <1>1 DEF Row, Unclaimed, NoTime
  <2>2. UNCHANGED claim /\ job[k].status = "RUNNING"
    BY <1>5 DEF RecordFailure, OwnedActive
  <2>3. CASE Retries(k, kind)
    <3> DEFINE r == [u EXCEPT !.status = "QUEUED",
                              !.availableAt = at + RetryDelay[job[k].attempts]]
    <3>1. at + RetryDelay[job[k].attempts] \in Nat
      <4>1. job[k].attempts \in 1..RetryCount
        BY <1>1, <2>2, <2>3, ConstantsAssumption DEF IInv, RowOK, Row, Retries, Owned
      <4>2. at \in Nat
        BY <1>1, ReadingsArePositive
      <4> QED BY <4>1, <4>2, ConstantsAssumption, SMTT(30)
    <3>2. Write(k, r)
      BY <1>5, <2>3 DEF RecordFailure
    <3> HIDE DEF u
    <3>3. r \in Row /\ r.status = "QUEUED"
      BY <2>1, <3>1 DEF Row, Status
    <3> HIDE DEF r
    <3> QED BY <1>1, <2>2, <3>2, <3>3, QuietWrite DEF Owned
  <2>4. CASE ~ Retries(k, kind)
    <3> DEFINE r == [u EXCEPT !.status = IF kind = "TIMEOUT" THEN "TIMEOUT"
                                                            ELSE "TECHNICAL_ERROR"]
    <3>1. Write(k, r)
      BY <1>5, <2>4 DEF RecordFailure
    <3> HIDE DEF u
    <3>2. r \in Row /\ r.status \notin Owned
      BY <2>1 DEF Row, Status, Terminal, Owned
    <3> HIDE DEF r
    <3> QED BY <1>1, <2>2, <3>1, <3>2, QuietWrite
  <2> QED BY <2>3, <2>4
<1> QED BY <1>2, <1>3, <1>4, <1>5 DEF OwnerStep, Complete, CompleteCancelled, Terminal

LEMMA OthersAreQuiet ==
  ASSUME IInv, [Next]_vars
  PROVE  \/ Quiet
         \/ \E w \in Workers : \/ ClaimEnds(w) \/ \E at \in Readings : CountLeases(w, at)
                               \/ \E j \in Jobs : \/ ClaimNext(w, j)
                                                  \/ \E at \in Readings : Heartbeat(w, j, at)
<1>1. TypeOK /\ job \in [Jobs -> Row]
  BY DEF IInv, TypeOK
<1>2. CASE Tick \/ UNCHANGED vars
  BY <1>2 DEF Tick, vars, Quiet
<1>3. ASSUME NEW k \in Jobs, RequestCancel(k) PROVE Quiet
  <2>1. CASE job[k].status = "QUEUED"
    <3> DEFINE r == [Unclaimed(job[k]) EXCEPT !.status = "CANCELLED", !.cancelAsked = TRUE]
    <3>1. r \in Row /\ r.status = "CANCELLED"
      BY <1>1 DEF Row, Unclaimed, Terminal, Status, NoTime
    <3>2. Write(k, r) /\ UNCHANGED claim
      BY <1>3, <2>1 DEF RequestCancel
    <3> HIDE DEF r
    <3> QED BY <1>1, <3>1, <3>2, QuietWrite DEF Owned
  <2>2. CASE job[k].status = "RUNNING"
    <3> DEFINE r == [job[k] EXCEPT !.status = "CANCEL_REQUESTED", !.cancelAsked = TRUE]
    <3>1. r \in Row /\ r.lease = job[k].lease
      BY <1>1 DEF Row, Owned, Status
    <3>2. Write(k, r) /\ UNCHANGED claim
      BY <1>3, <2>2 DEF RequestCancel
    <3> HIDE DEF r
    <3> QED BY <1>1, <2>2, <3>1, <3>2, QuietWrite DEF Owned
  <2> QED BY <1>3, <2>1, <2>2 DEF RequestCancel
<1>4. ASSUME NEW at \in Readings, ReleaseExpiredClaims(at) PROVE Quiet
  <2>1. ASSUME NEW j \in Jobs, job'[j].status \in Owned PROVE job'[j] = job[j]
    <3>1. ~ Expired(job[j], at)
      <4>1. Expired(job[j], at) => job[j].status \in Owned
        BY DEF Expired
      <4>2. Expired(job[j], at) => job'[j].status \in {"QUEUED", "CANCELLED"}
        BY <1>1, <1>4, <4>1 DEF ReleaseExpiredClaims, Released, Bumped, Unclaimed, Row
      <4> QED BY <2>1, <4>2 DEF Owned
    <3> QED BY <1>4, <3>1 DEF ReleaseExpiredClaims, Released
  <2> QED BY <1>4, <2>1 DEF ReleaseExpiredClaims, Quiet
<1>5. ASSUME NEW at \in Readings, NEW k \in Jobs, Enqueue(k, at) PROVE Quiet
  <2> DEFINE r == [job[k] EXCEPT !.status = "QUEUED", !.availableAt = at]
  <2>1. r.status = "QUEUED"
    BY <1>1 DEF Row
  <2>2. job' = [job EXCEPT ![k] = r] /\ UNCHANGED claim
    BY <1>1, <1>5 DEF Enqueue, Row
  <2> HIDE DEF r
  <2> QED BY <1>1, <2>1, <2>2 DEF Quiet, Owned
<1>6. ASSUME NEW at \in Readings, NEW k \in Jobs, ReprocessDeadLetter(k, at) PROVE Quiet
  <2> DEFINE r == [job[k] EXCEPT !.status = "QUEUED", !.availableAt = at, !.attempts = 0]
  <2>1. r \in Row /\ r.status = "QUEUED"
    BY <1>1, ReadingsArePositive DEF Row, Status
  <2>2. Write(k, r) /\ UNCHANGED claim
    BY <1>6 DEF ReprocessDeadLetter
  <2> HIDE DEF r
  <2> QED BY <1>1, <2>1, <2>2, QuietWrite DEF Owned
<1>7. ASSUME NEW w \in Workers, NEW k \in Jobs, OwnerStep(w, k)
      PROVE  Quiet \/ \E at \in Readings : Heartbeat(w, k, at)
  BY <1>7, OwnerIsQuiet
<1> QED BY <1>2, <1>3, <1>4, <1>5, <1>6, <1>7, SMTT(60) DEF Next

\* The claim that has counted keeps count of the leases it did not see.
LEMMA CountInvKept == IInv /\ CountInv /\ [Next]_vars => CountInv'
<1> SUFFICES ASSUME IInv, CountInv, [Next]_vars PROVE CountInv'
  OBVIOUS
<1>1. TypeOK /\ job \in [Jobs -> Row] /\ claim \in [Workers -> Claim]
  BY DEF IInv, TypeOK, ClaimsInTime
<1>2. CASE Quiet
  <2>1. Counting' = Counting /\ \A t : LiveAt(t)' \subseteq LiveAt(t)
    BY <1>2 DEF Quiet, Counting, LiveAt
  <2> QED BY <1>2, <2>1 DEF Quiet, CountInv
<1>3. ASSUME NEW w \in Workers, ClaimEnds(w) PROVE CountInv'
  <2>1. \A v \in Counting' : v \in Counting /\ claim'[v] = claim[v]
    BY <1>1, <1>3 DEF ClaimEnds, Counting
  <2>2. \A t : LiveAt(t)' = LiveAt(t)
    BY <1>3 DEF ClaimEnds, LiveAt
  <2> QED BY <2>1, <2>2 DEF CountInv
<1>4. ASSUME NEW w \in Workers, NEW at \in Readings, CountLeases(w, at) PROVE CountInv'
  <2> DEFINE c == [at |-> at, counted |-> LiveAt(at), missed |-> {}]
  <2>1. claim' = [claim EXCEPT ![w] = c] /\ Counting = {} /\ job' = job
    BY <1>4 DEF CountLeases
  <2>2. \A v \in Counting' : v = w
    BY <1>1, <2>1 DEF Counting
  <2>3. claim'[w] = c
    BY <1>1, <2>1
  <2>4. LiveAt(at)' = LiveAt(at)
    BY <2>1 DEF LiveAt
  <2>5. Cardinality(LiveAt(at)) < MaxRunning
    BY <1>4 DEF CountLeases
  <2> HIDE DEF LiveAt
  <2> QED BY <2>2, <2>3, <2>4, <2>5 DEF CountInv
<1>5. ASSUME NEW w \in Workers, NEW j \in Jobs, ClaimNext(w, j) PROVE CountInv'
  <2>1. claim' = [claim EXCEPT ![w] = NoClaim] /\ w \in Counting
    BY <1>5 DEF ClaimNext
  <2>2. Counting' = {}
    BY <1>1, <2>1 DEF Counting, CountInv
  <2> QED BY <2>2 DEF CountInv
<1>6. ASSUME NEW w \in Workers, NEW j \in Jobs, NEW at \in Readings, Heartbeat(w, j, at)
      PROVE  CountInv'
  <2>1. claim' = [v \in Workers |-> Missed(claim[v], j)]
    BY <1>6 DEF Heartbeat
  <2>2. \A v \in Workers : /\ claim'[v].at = claim[v].at /\ claim'[v].counted = claim[v].counted
                           /\ claim[v].missed \subseteq claim'[v].missed
                           /\ claim[v] # NoClaim => j \in claim'[v].counted \cup claim'[v].missed
                           /\ claim[v] = NoClaim => claim'[v] = NoClaim
    BY <1>1, <2>1, MissedIs
  <2>3. \A v \in Counting' : v \in Counting
    BY <2>2 DEF Counting
  <2>4. \A i \in Jobs : i # j => job'[i] = job[i]
    BY <1>1, <1>6, OtherRowsStay DEF Heartbeat
  <2>5. \A t : LiveAt(t)' \subseteq LiveAt(t) \cup {j}
    BY <2>4 DEF LiveAt
  <2>6. ASSUME NEW v \in Counting'
        PROVE  /\ LiveAt(claim[v].at)' \subseteq claim'[v].counted \cup claim'[v].missed
               /\ Cardinality(claim'[v].counted) < MaxRunning
    <3>1. v \in Counting /\ v \in Workers /\ claim[v] # NoClaim
      BY <2>3, <2>6 DEF Counting
    <3>2. /\ LiveAt(claim[v].at) \subseteq claim[v].counted \cup claim[v].missed
          /\ Cardinality(claim[v].counted) < MaxRunning
      BY <3>1 DEF CountInv
    <3> DEFINE t == claim[v].at
    <3>3. claim'[v].at = t /\ LiveAt(t)' \subseteq LiveAt(t) \cup {j}
      BY <2>2, <2>5, <3>1
    <3>4. LiveAt(claim[v].at)' = LiveAt(t)'
      BY <3>3 DEF LiveAt
    <3> HIDE DEF LiveAt
    <3> QED BY <2>2, <3>1, <3>2, <3>3, <3>4
  <2> QED BY <2>3, <2>6 DEF CountInv
<1> QED BY <1>2, <1>3, <1>4, <1>5, <1>6, OthersAreQuiet

\* It holds in every reachable state, with the inductive invariant.
LEMMA CountInvHolds == Spec => [](IInv /\ CountInv)
<1>1. Init => CountInv
  BY DEF Init, CountInv, Counting
<1> QED BY <1>1, CountInvKept, InitEstablishes, NextKeeps, PTL DEF Spec

\* The leases that are live after a claim are the one it took, those it counted
\* and those that were renewed while it was under way.
LEMMA ClaimAddsOneLease ==
  ASSUME IInv, CountInv, NEW w \in Workers, NEW k \in Jobs, ClaimNext(w, k)
  PROVE  LiveAt(now)' \ claim[w].missed \subseteq claim[w].counted \cup {k}
<1>1. TypeOK /\ job \in [Jobs -> Row] /\ w \in Counting
  BY DEF IInv, TypeOK, ClaimNext
<1>2. now' = now /\ claim[w].at \in Nat /\ now \in Nat /\ claim[w].at <= now
  BY <1>1, ClaimTime DEF ClaimNext, Write
<1>3. ASSUME NEW j \in Jobs, j # k, job'[j].status \in Owned, job'[j].lease > now
      PROVE  j \in LiveAt(claim[w].at)
  <2>1. job'[j] = job[j]
    BY <1>1, <1>3, OtherRowsStay DEF ClaimNext
  <2>2. job[j].lease \in Nat
    BY <1>1 DEF Row
  <2> QED BY <1>2, <1>3, <2>1, <2>2 DEF LiveAt
<1>4. LiveAt(now)' \subseteq LiveAt(claim[w].at) \cup {k}
  BY <1>2, <1>3 DEF LiveAt
<1> QED BY <1>1, <1>4 DEF CountInv

\* No claim leads over the total or over a source's quota, for any clock lag,
\* counting all live leases but those that a heartbeat revived between the
\* claim's count and its write.
THEOREM ClaimsRespect == Spec => ClaimsRespectQuotas
<1>1. ASSUME IInv, CountInv, [Next]_vars, NEW j \in Jobs, NEW w \in Workers,
             job'[j].attempts > job[j].attempts, job'[j].claimedBy = w
      PROVE  WithinQuotas(LiveAt(now)' \ claim[w].missed, SourcesOf[j])
  <2>1. PICK v \in Workers : ClaimNext(v, j)
    BY <1>1, OnlyClaimsCount
  <2>2. v = w
    <3> DEFINE r == [job[j] EXCEPT !.status = "RUNNING", !.claimedBy = v,
                                   !.lease = claim[v].at + Lease, !.attempts = @ + 1,
                                   !.blockedUntil = NoTime]
    <3>2. job \in [Jobs -> Row]
      BY <1>1 DEF IInv, TypeOK
    <3>3. r.claimedBy = v /\ DOMAIN r = DOMAIN job[j]
      BY <3>2 DEF Row
    <3>4. job'[j] = Bumped(r)
      BY <2>1, <3>2 DEF ClaimNext, Write
    <3>5. "claimedBy" \in DOMAIN r
      BY <3>2, <3>3 DEF Row
    <3> HIDE DEF r
    <3>1. job'[j].claimedBy = v
      BY <3>3, <3>4, <3>5 DEF Bumped
    <3> QED BY <1>1, <3>1
  <2> DEFINE S == claim[w].counted
             T == LiveAt(now)' \ claim[w].missed
  <2>3. T \subseteq S \cup {j} /\ w \in Counting
    BY <1>1, <2>1, <2>2, ClaimAddsOneLease DEF ClaimNext
  <2>4. S \subseteq Jobs
    BY <1>1, <2>3 DEF IInv, ClaimsInTime, Claim, Counting
  <2>5. Cardinality(S) < MaxRunning
    BY <1>1, <2>3 DEF CountInv
  <2>6. \A s \in SourcesOf[j] : Cardinality(UsersOf(s, S)) < SourceLimit[s]
    BY <2>1, <2>2 DEF ClaimNext, SourceQuotaAllows
  <2> HIDE DEF S, T
  <2>7. IsFiniteSet(S) /\ \A s : IsFiniteSet(UsersOf(s, S))
    <3>1. \A s : UsersOf(s, S) \subseteq Jobs
      BY <2>4 DEF UsersOf
    <3> QED BY <2>4, <3>1, ConstantsAssumption, FS_Subset
  <2>8. Cardinality(T) <= MaxRunning
    <3>1. MaxRunning \in Nat
      BY ConstantsAssumption
    <3> QED BY <2>3, <2>5, <2>7, <3>1, AtMostOneMore
  <2>9. ASSUME NEW s \in SourcesOf[j] PROVE Cardinality(UsersOf(s, T)) <= SourceLimit[s]
    <3>1. SourceLimit[s] \in Nat
      BY ConstantsAssumption
    <3>2. UsersOf(s, T) \subseteq UsersOf(s, S) \cup {j}
      BY <2>3 DEF UsersOf
    <3> QED BY <2>6, <2>7, <3>1, <3>2, AtMostOneMore
  <2>10. WithinQuotas(T, SourcesOf[j])
    BY <2>8, <2>9 DEF WithinQuotas
  <2> QED BY <2>10 DEF T
<1>2. IInv /\ CountInv /\ [Next]_vars =>
        [\A j \in Jobs, w \in Workers :
           job'[j].attempts > job[j].attempts /\ job'[j].claimedBy = w
           => WithinQuotas(LiveAt(now)' \ claim[w].missed, SourcesOf[j])]_vars
  BY <1>1
<1> QED BY <1>2, CountInvHolds, PTL DEF Spec, ClaimsRespectQuotas
=============================================================================
