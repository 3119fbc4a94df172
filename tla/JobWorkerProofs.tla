--------------------------- MODULE JobWorkerProofs ----------------------------
(***************************************************************************)
(* Proofs about JobWorker, for any number of jobs and workers, any         *)
(* priorities and retry policy, and any number of crashes and stalls.      *)
(*                                                                         *)
(* The argument for BusyWorkerHoldsLease is that, as long as no worker     *)
(* stalls, the row of a worker's job is its own: a live lease is neither   *)
(* taken over nor reaped, so what others can do to the row is to ask for   *)
(* its cancellation.  LostClaimsAreHarmless and the refinement rest on the *)
(* condition on claimed_by alone and hold whoever stalls.                  *)
(***************************************************************************)
EXTENDS JobWorker, TLAPS

AtWork == {"decide", "handle", "polled", "ended", "close"}

\* A worker has a job from its claim to the end of its turn.
Placed == \A w \in Workers : task[w] # NoJob <=> pc[w] \in AtWork

\* Only rows that are worked on have an owner.
Unowned == \A j \in Jobs : row[j].status \notin Owned => row[j].owner = NoWorker /\ ~ row[j].live

\* What a worker knows of its job's row, as long as nobody stalled.
Mine(w) ==
  /\ task[w] # NoJob => /\ row[task[w]].status \in Owned
                        /\ row[task[w]].owner = w
                        /\ row[task[w]].live
  /\ pc[w] = "close" => \/ fresh[w] /\ row[task[w]].status = seen[w]
                        \/ seen[w] = "RUNNING" /\ row[task[w]].status = "CANCEL_REQUESTED"

Held == budget.stalls = 0 => \A w \in Workers : Mine(w)

WorkerInv == TypeOK /\ Placed /\ Unowned /\ Held

LEMMA InitWorker == Init => WorkerInv
<1> SUFFICES ASSUME Init PROVE WorkerInv
  OBVIOUS
<1>1. TypeOK
  <2>1. 0 \in 0..(RetryCount + 1) /\ 0 \in 0..MaxBlocks
    BY ConstantsAssumption
  <2>2. row \in [Jobs -> Row]
    BY <2>1 DEF Init, Row, Status
  <2>3. budget \in [crashes : 0..MaxCrashes, stalls : 0..MaxStalls, reprocessed : 0..MaxReprocess]
    BY ConstantsAssumption DEF Init
  <2> QED BY <2>2, <2>3 DEF Init, TypeOK, Points, Status, Results
<1>2. Placed /\ Unowned /\ Held
  BY DEF Init, Placed, Unowned, Held, Mine, AtWork, Owned
<1> QED BY <1>1, <1>2 DEF WorkerInv

-----------------------------------------------------------------------------
(* Types *)

\* What a change of one row comes to.
LEMMA ChangeRowIs ==
  ASSUME TypeOK, NEW j \in Jobs, NEW r \in Row, NEW writer, ChangeRow(j, r, writer)
  PROVE  /\ row' = [row EXCEPT ![j] = r] /\ row' \in [Jobs -> Row]
         /\ row'[j] = r /\ \A i \in Jobs : i # j => row'[i] = row[i]
         /\ fresh' \in [Workers -> BOOLEAN]
         /\ \A w \in Workers : fresh'[w] = IF task[w] = j THEN w = writer ELSE fresh[w]
<1> DEFINE rows == [i \in {j} |-> r]
<1>1. DOMAIN rows = {j} /\ rows[j] = r
  OBVIOUS
<1>2. /\ row' = [i \in Jobs |-> IF i \in DOMAIN rows THEN rows[i] ELSE row[i]]
      /\ fresh' = [w \in Workers |-> IF task[w] \in DOMAIN rows THEN w = writer ELSE fresh[w]]
  BY DEF ChangeRow, Change
<1> HIDE DEF rows
<1>3. row \in [Jobs -> Row] /\ fresh \in [Workers -> BOOLEAN]
  BY DEF TypeOK
<1>4. row' = [row EXCEPT ![j] = r] /\ row' \in [Jobs -> Row]
  BY <1>1, <1>2, <1>3
<1>5. /\ fresh' \in [Workers -> BOOLEAN]
      /\ \A w \in Workers : fresh'[w] = IF task[w] = j THEN w = writer ELSE fresh[w]
  <2>1. fresh' = [w \in Workers |-> IF task[w] = j THEN w = writer ELSE fresh[w]]
    BY <1>1, <1>2
  <2>2. \A w \in Workers : (IF task[w] = j THEN w = writer ELSE fresh[w]) \in BOOLEAN
    BY <1>3
  <2> QED BY <2>1, <2>2
<1> QED BY <1>3, <1>4, <1>5

\* The parts of a row.
LEMMA RowParts ==
  ASSUME TypeOK, NEW j \in Jobs
  PROVE  /\ row[j] \in Row /\ row[j].status \in Status /\ row[j].owner \in Workers \cup {NoWorker}
         /\ row[j].live \in BOOLEAN /\ row[j].ready \in BOOLEAN /\ row[j].letter \in BOOLEAN
         /\ row[j].attempts \in 0..(RetryCount + 1) /\ row[j].blocks \in 0..MaxBlocks
BY DEF TypeOK, Row

\* The world around the workers leaves them where they are.
WorldStep(j) ==
  \/ Enqueue(j) \/ RequestCancel(j) \/ ReprocessDeadLetter(j)
  \/ BecomesReady(j) \/ LeaseRunsOut(j) \/ Stall(j)

\* Rows with some of their parts changed are rows.
LEMMA RowWith ==
  ASSUME NEW r \in Row
  PROVE  /\ \A s \in Status : [r EXCEPT !.status = s] \in Row
         /\ \A b \in BOOLEAN : /\ [r EXCEPT !.live = b] \in Row /\ [r EXCEPT !.ready = b] \in Row
                               /\ [r EXCEPT !.letter = b] \in Row
         /\ \A s \in Status, b \in BOOLEAN : [r EXCEPT !.status = s, !.ready = b] \in Row
BY DEF Row

\* A row as the world leaves it.
LEMMA WorldRow ==
  ASSUME TypeOK, NEW j \in Jobs, WorldStep(j)
  PROVE  /\ UNCHANGED <<pc, task, seen, result>>
         /\ row' \in [Jobs -> Row] /\ \A i \in Jobs : i # j => row'[i] = row[i]
         /\ fresh' \in [Workers -> BOOLEAN]
         /\ \A w \in Workers : task[w] # j => fresh'[w] = fresh[w]
<1>1. UNCHANGED <<pc, task, seen, result>> /\ row \in [Jobs -> Row] /\ row[j] \in Row
  BY RowParts DEF WorldStep, Enqueue, RequestCancel, ReprocessDeadLetter, BecomesReady,
     LeaseRunsOut, Stall, local, TypeOK
<1>2. CASE \E r \in Row : ChangeRow(j, r, NoWorker)
  BY <1>1, <1>2, ChangeRowIs
<1>3. CASE Enqueue(j) \/ RequestCancel(j)
  <2>1. /\ [row[j] EXCEPT !.status = "QUEUED", !.ready = TRUE] \in Row
        /\ [row[j] EXCEPT !.status = "CANCELLED"] \in Row
        /\ [row[j] EXCEPT !.status = "CANCEL_REQUESTED"] \in Row
    BY <1>1, RowWith DEF Status, Owned, Terminal
  <2> QED BY <1>2, <1>3, <2>1 DEF Enqueue, RequestCancel
<1>4. CASE ReprocessDeadLetter(j)
  <2>1. [row[j] EXCEPT !.status = "QUEUED", !.ready = TRUE] \in Row
    BY <1>1, RowWith DEF Status
  <2>2. 0 \in 0..(RetryCount + 1)
    BY ConstantsAssumption
  <2>3. [row[j] EXCEPT !.status = "QUEUED", !.ready = TRUE, !.attempts = 0, !.letter = FALSE] \in Row
    BY <2>1, <2>2 DEF Row
  <2> QED BY <1>2, <1>4, <2>3 DEF ReprocessDeadLetter
<1>5. CASE BecomesReady(j) \/ LeaseRunsOut(j) \/ Stall(j)
  <2>1. [row[j] EXCEPT !.ready = TRUE] \in Row /\ [row[j] EXCEPT !.live = FALSE] \in Row
    BY <1>1, RowWith
  <2>2. \E r \in Row : row' = [row EXCEPT ![j] = r]
    BY <1>5, <2>1 DEF BecomesReady, LeaseRunsOut, Stall
  <2>3. fresh' = fresh /\ fresh \in [Workers -> BOOLEAN]
    BY <1>5 DEF TypeOK, BecomesReady, LeaseRunsOut, Stall
  <2> QED BY <1>1, <2>2, <2>3
<1> QED BY <1>3, <1>4, <1>5 DEF WorldStep

LEMMA WorldTyped ==
  ASSUME TypeOK, NEW j \in Jobs, WorldStep(j)
  PROVE  TypeOK'
<1>1. UNCHANGED <<pc, task, seen, result>> /\ row' \in [Jobs -> Row] /\ fresh' \in [Workers -> BOOLEAN]
  BY WorldRow
<1>2. budget' \in [crashes : 0..MaxCrashes, stalls : 0..MaxStalls, reprocessed : 0..MaxReprocess]
  <2>1. /\ budget \in [crashes : 0..MaxCrashes, stalls : 0..MaxStalls, reprocessed : 0..MaxReprocess]
        /\ MaxStalls \in Nat /\ MaxReprocess \in Nat
    BY ConstantsAssumption DEF TypeOK
  <2>2. \/ budget' = budget
        \/ budget.stalls < MaxStalls /\ budget' = [budget EXCEPT !.stalls = @ + 1]
        \/ budget.reprocessed < MaxReprocess /\ budget' = [budget EXCEPT !.reprocessed = @ + 1]
    BY DEF WorldStep, Enqueue, RequestCancel, ReprocessDeadLetter, BecomesReady, LeaseRunsOut, Stall
  <2> QED BY <2>1, <2>2
<1> QED BY <1>1, <1>2 DEF TypeOK

\* The steps of a worker that change no row.
QuietStep(w) ==
  \/ ClaimNothing(w) \/ StartHandler(w) \/ RejectJob(w) \/ HandlerEnds(w) \/ PollRow(w)
  \/ StopHandler(w) \/ HeartbeatNotDue(w) \/ Heartbeat(w) \/ ReadToClose(w) \/ CloseRefused(w)
  \/ ReportProgress(w) \/ Start(w) \/ Crash(w) \/ Raises(w)

\* What such a step does to the rows and to the readings of the other workers.
LEMMA QuietRows ==
  ASSUME TypeOK, Placed, NEW w \in Workers, QuietStep(w)
  PROVE  /\ row' = row /\ fresh' \in [Workers -> BOOLEAN]
         /\ \A v \in Workers : v # w /\ task[v] # task[w] => fresh'[v] = fresh[v]
         /\ pc'[w] = "close" => fresh'[w] /\ seen'[w] = row[task[w]].status
<1>1. /\ row \in [Jobs -> Row] /\ fresh \in [Workers -> BOOLEAN] /\ pc \in [Workers -> Points]
      /\ seen \in [Workers -> Status] /\ task \in [Workers -> Jobs \cup {NoJob}]
  BY DEF TypeOK
<1>2. CASE ReadToClose(w)
  BY <1>1, <1>2 DEF ReadToClose, Read, Goto
<1>3. CASE Heartbeat(w) \/ ReportProgress(w)
  <2>1. task[w] \in Jobs
    <3>1. pc[w] \in AtWork
      BY <1>3 DEF Heartbeat, ReportProgress, AtWork
    <3> QED BY <1>1, <3>1 DEF Placed
  <2>2. row[task[w]] \in Row
    BY <1>1, <2>1
  <2>3. pc'[w] # "close"
    BY <1>1, <1>3 DEF Heartbeat, ReportProgress, Goto, Raises, LetGo, local
  <2>4. CASE ChangeRow(task[w], row[task[w]], w)
    <3>1. /\ row' = [row EXCEPT ![task[w]] = row[task[w]]] /\ fresh' \in [Workers -> BOOLEAN]
          /\ \A v \in Workers : fresh'[v] = IF task[v] = task[w] THEN v = w ELSE fresh[v]
      BY <2>1, <2>2, <2>4, ChangeRowIs
    <3>2. row' = row
      BY <1>1, <2>1, <3>1
    <3> QED BY <2>3, <3>1, <3>2
  <2>5. CASE ~ ChangeRow(task[w], row[task[w]], w)
    BY <1>1, <1>3, <2>3, <2>5 DEF Heartbeat, ReportProgress, Raises
  <2> QED BY <2>4, <2>5
<1>4. CASE ~ (ReadToClose(w) \/ Heartbeat(w) \/ ReportProgress(w))
  BY <1>1, <1>4 DEF QuietStep, ClaimNothing, StartHandler, RejectJob, HandlerEnds, PollRow,
     StopHandler, HeartbeatNotDue, CloseRefused, Start, Crash, Raises, LetGo, Read, EndHandler,
     Goto
<1> QED BY <1>2, <1>3, <1>4

\* A worker that changes no row has its job as before, or lets go of it.
LEMMA QuietPlaces ==
  ASSUME TypeOK, Placed, NEW w \in Workers, QuietStep(w)
  PROVE  /\ task' = task \/ task' = [task EXCEPT ![w] = NoJob]
         /\ seen' \in [Workers -> Status] /\ \A v \in Workers : v # w => seen'[v] = seen[v]
         /\ pc' \in [Workers -> Points] /\ \A v \in Workers : v # w => pc'[v] = pc[v]
         /\ result' \in [Workers -> Results]
         /\ Placed'
<1>1. /\ row \in [Jobs -> Row] /\ pc \in [Workers -> Points] /\ seen \in [Workers -> Status]
      /\ task \in [Workers -> Jobs \cup {NoJob}] /\ result \in [Workers -> Results]
  BY DEF TypeOK
<1>2. task' = task \/ task' = [task EXCEPT ![w] = NoJob]
  BY DEF QuietStep, ClaimNothing, StartHandler, RejectJob, HandlerEnds, PollRow, StopHandler,
     HeartbeatNotDue, Heartbeat, ReadToClose, CloseRefused, ReportProgress, Start, Crash, Raises,
     LetGo, local
<1>3. seen' \in [Workers -> Status] /\ \A v \in Workers : v # w => seen'[v] = seen[v]
  <2>1. \E s \in Status : seen' = seen \/ seen' = [seen EXCEPT ![w] = s]
    <3>1. CASE PollRow(w) \/ ReadToClose(w)
      <4>1. task[w] \in Jobs
        BY <1>1, <3>1 DEF PollRow, ReadToClose, Placed, AtWork
      <4>2. row[task[w]].status \in Status
        BY <4>1, RowParts
      <4> QED BY <3>1, <4>2 DEF PollRow, ReadToClose, Read
    <3>2. CASE ~ (PollRow(w) \/ ReadToClose(w))
      <4>1. seen' = seen \/ seen' = [seen EXCEPT ![w] = "ABSENT"]
        BY <3>2 DEF QuietStep, ClaimNothing, StartHandler, RejectJob, HandlerEnds, StopHandler,
           HeartbeatNotDue, Heartbeat, CloseRefused, ReportProgress, Start, Crash, Raises, LetGo,
           local
      <4> QED BY <4>1 DEF Status
    <3> QED BY <3>1, <3>2
  <2> QED BY <1>1, <2>1
<1>4. pc' \in [Workers -> Points] /\ \A v \in Workers : v # w => pc'[v] = pc[v]
  BY <1>1 DEF QuietStep, ClaimNothing, StartHandler, RejectJob, HandlerEnds, PollRow, StopHandler,
     HeartbeatNotDue, Heartbeat, ReadToClose, CloseRefused, ReportProgress, Start, Crash, Raises,
     LetGo, local, EndHandler, Goto, Points
<1>5. result' \in [Workers -> Results]
  BY <1>1 DEF QuietStep, ClaimNothing, StartHandler, RejectJob, HandlerEnds, PollRow, StopHandler,
     HeartbeatNotDue, Heartbeat, ReadToClose, CloseRefused, ReportProgress, Start, Crash, Raises,
     LetGo, local, EndHandler, Results
<1>6. task'[w] # NoJob <=> pc'[w] \in AtWork
  <2>1. task[w] # NoJob <=> pc[w] \in AtWork
    BY DEF Placed
  <2> QED BY <1>1, <2>1 DEF QuietStep, ClaimNothing, StartHandler, RejectJob, HandlerEnds, PollRow,
             StopHandler, HeartbeatNotDue, Heartbeat, ReadToClose, CloseRefused, ReportProgress,
             Start, Crash, Raises, LetGo, local, EndHandler, Goto, AtWork
<1>7. Placed'
  BY <1>1, <1>2, <1>4, <1>6 DEF Placed
<1> QED BY <1>2, <1>3, <1>4, <1>5, <1>7

LEMMA QuietTyped ==
  ASSUME TypeOK, Placed, NEW w \in Workers, QuietStep(w)
  PROVE  TypeOK'
<1>1. budget' \in [crashes : 0..MaxCrashes, stalls : 0..MaxStalls, reprocessed : 0..MaxReprocess]
  <2>1. /\ budget \in [crashes : 0..MaxCrashes, stalls : 0..MaxStalls, reprocessed : 0..MaxReprocess]
        /\ MaxCrashes \in Nat
    BY ConstantsAssumption DEF TypeOK
  <2>2. budget' = budget \/ (budget.crashes < MaxCrashes /\ budget' = [budget EXCEPT !.crashes = @ + 1])
    BY DEF QuietStep, ClaimNothing, StartHandler, RejectJob, HandlerEnds, PollRow, StopHandler,
       HeartbeatNotDue, Heartbeat, ReadToClose, CloseRefused, ReportProgress, Start, Crash, Raises
  <2> QED BY <2>1, <2>2
<1>2. task' \in [Workers -> Jobs \cup {NoJob}] /\ row' \in [Jobs -> Row]
  BY QuietRows, QuietPlaces DEF TypeOK
<1> QED BY <1>1, <1>2, QuietRows, QuietPlaces DEF TypeOK

\* The ends of a claim, and the rows they can leave.
Ends(from) == IF from = "RUNNING" THEN {"BLOCKED", "QUEUED", "SUCCESS", "TIMEOUT", "TECHNICAL_ERROR"}
              ELSE {"CANCELLED"}

\* A worker that writes the end of its claim: it owns the row, and gives it up.
HandsBack(w) ==
  /\ task[w] \in Jobs /\ row[task[w]].status \in Owned /\ row[task[w]].owner = w
  /\ \E r \in Row : /\ ChangeRow(task[w], r, NoWorker)
                    /\ r.owner = NoWorker /\ ~ r.live /\ r.status \in Ends(row[task[w]].status)
  /\ LetGo(w, "idle")
  /\ UNCHANGED budget

LEMMA UnclaimedIs ==
  ASSUME NEW r \in Row
  PROVE  /\ Unclaimed(r) \in Row /\ Unclaimed(r).owner = NoWorker /\ ~ Unclaimed(r).live
         /\ Unclaimed(r).status = r.status /\ Unclaimed(r).blocks = r.blocks
<1>1. [r EXCEPT !.owner = NoWorker] \in Row
  BY DEF Row
<1>2. [r EXCEPT !.owner = NoWorker, !.live = FALSE] \in Row
  BY <1>1, RowWith
<1>3. /\ [r EXCEPT !.owner = NoWorker, !.live = FALSE].owner = NoWorker
      /\ ~ [r EXCEPT !.owner = NoWorker, !.live = FALSE].live
      /\ [r EXCEPT !.owner = NoWorker, !.live = FALSE].status = r.status
      /\ [r EXCEPT !.owner = NoWorker, !.live = FALSE].blocks = r.blocks
  BY DEF Row
<1> QED BY <1>2, <1>3 DEF Unclaimed

\* What complete, complete_cancelled and record_failure leave is a row, not one that is
\* worked on.
LEMMA ClosedIs ==
  ASSUME NEW r \in Row, NEW s, NEW k
  PROVE  /\ Closed(r, s, k) \in Row
         /\ s = "CANCEL_REQUESTED" => Closed(r, s, k).status = "CANCELLED"
         /\ s # "CANCEL_REQUESTED" =>
              Closed(r, s, k).status \in {"QUEUED", "SUCCESS", "TIMEOUT", "TECHNICAL_ERROR"}
<1>1. ASSUME NEW t \in {"CANCELLED", "SUCCESS", "TIMEOUT", "TECHNICAL_ERROR"}
      PROVE  [r EXCEPT !.status = t] \in Row /\ [r EXCEPT !.status = t].status = t
  BY RowWith DEF Status, Terminal, Row
<1>2. /\ [r EXCEPT !.status = "QUEUED", !.ready = FALSE] \in Row
      /\ [r EXCEPT !.status = "QUEUED", !.ready = FALSE].status = "QUEUED"
  BY RowWith DEF Status, Row
<1>3. /\ [r EXCEPT !.status = "TECHNICAL_ERROR", !.letter = TRUE] \in Row
      /\ [r EXCEPT !.status = "TECHNICAL_ERROR", !.letter = TRUE].status = "TECHNICAL_ERROR"
  BY <1>1, RowWith DEF Row
<1>4. CASE s = "CANCEL_REQUESTED"
  BY <1>1, <1>4 DEF Closed
<1>5. CASE s # "CANCEL_REQUESTED" /\ k = "outcome"
  BY <1>1, <1>5 DEF Closed
<1>6. CASE s # "CANCEL_REQUESTED" /\ k = "timeout"
  BY <1>1, <1>6 DEF Closed
<1>7. CASE s # "CANCEL_REQUESTED" /\ k = "retryable"
  BY <1>2, <1>3, <1>7 DEF Closed
<1>8. CASE s # "CANCEL_REQUESTED" /\ k \notin {"outcome", "timeout", "retryable"}
  BY <1>1, <1>8 DEF Closed
<1> QED BY <1>4, <1>5, <1>6, <1>7, <1>8

LEMMA BlockHandsBack ==
  ASSUME TypeOK, Placed, NEW w \in Workers, BlockJob(w), ~ Raises(w)
  PROVE  HandsBack(w)
<1> DEFINE j == task[w]
           r == [Unclaimed(row[j]) EXCEPT !.status = "BLOCKED", !.ready = FALSE, !.blocks = @ + 1]
<1>1. /\ pc[w] = "decide" /\ row[j].blocks < MaxBlocks
      /\ row[j].status = "RUNNING" /\ row[j].owner = w
      /\ ChangeRow(j, r, NoWorker) /\ LetGo(w, "idle") /\ UNCHANGED budget
  BY DEF BlockJob
<1>2. j \in Jobs
  BY <1>1 DEF TypeOK, Placed, AtWork
<1>3. r \in Row /\ r.owner = NoWorker /\ ~ r.live /\ r.status = "BLOCKED"
  <2> DEFINE u == Unclaimed(row[j])
             v == [u EXCEPT !.status = "BLOCKED", !.ready = FALSE]
  <2>1. u \in Row /\ u.owner = NoWorker /\ ~ u.live /\ u.blocks = row[j].blocks
    BY <1>2, RowParts, UnclaimedIs
  <2>2. u.blocks + 1 \in 0..MaxBlocks
    BY <1>1, <1>2, <2>1, RowParts, ConstantsAssumption
  <2> HIDE DEF u
  <2>3. v \in Row
    BY <2>1, RowWith DEF Status
  <2>4. v.owner = NoWorker /\ ~ v.live /\ v.status = "BLOCKED" /\ v.blocks = u.blocks
    BY <2>1 DEF Row
  <2> HIDE DEF v
  <2>5. [v EXCEPT !.blocks = @ + 1] \in Row
    BY <2>2, <2>3, <2>4 DEF Row
  <2>6. /\ [v EXCEPT !.blocks = @ + 1].owner = NoWorker /\ ~ [v EXCEPT !.blocks = @ + 1].live
        /\ [v EXCEPT !.blocks = @ + 1].status = "BLOCKED"
    BY <2>3, <2>4 DEF Row
  <2> QED BY <2>5, <2>6 DEF u, v
<1> HIDE DEF r
<1> QED BY <1>1, <1>2, <1>3 DEF HandsBack, Owned, Ends

LEMMA CloseHandsBack ==
  ASSUME TypeOK, Placed, NEW w \in Workers, Close(w)
  PROVE  HandsBack(w)
<1> DEFINE j == task[w]
           c == Closed(row[j], seen[w], result[w])
<1>1. /\ pc[w] = "close" /\ Accepted(w, Expects(seen[w]))
      /\ ChangeRow(j, Unclaimed(c), NoWorker) /\ LetGo(w, "idle") /\ UNCHANGED budget
  BY DEF Close
<1>2. j \in Jobs /\ row[j] \in Row
  BY <1>1, RowParts DEF TypeOK, Placed, AtWork
<1>3. c \in Row /\ /\ seen[w] = "CANCEL_REQUESTED" => c.status = "CANCELLED"
                   /\ seen[w] # "CANCEL_REQUESTED" =>
                        c.status \in {"QUEUED", "SUCCESS", "TIMEOUT", "TECHNICAL_ERROR"}
  BY <1>2, ClosedIs
<1>4. /\ row[j].owner = w
      /\ \/ seen[w] = "CANCEL_REQUESTED" /\ row[j].status = "CANCEL_REQUESTED"
         \/ seen[w] # "CANCEL_REQUESTED" /\ row[j].status = "RUNNING"
  BY <1>1 DEF Accepted, Expects
<1>5. /\ Unclaimed(c) \in Row /\ Unclaimed(c).owner = NoWorker
      /\ ~ Unclaimed(c).live /\ Unclaimed(c).status = c.status
  BY <1>3, UnclaimedIs
<1>6. Unclaimed(c).status \in Ends(row[j].status) /\ row[j].status \in Owned
  BY <1>3, <1>4, <1>5 DEF Ends, Owned
<1> HIDE DEF c
<1> QED BY <1>1, <1>2, <1>4, <1>5, <1>6 DEF HandsBack

LEMMA HandBackTyped ==
  ASSUME TypeOK, Placed, NEW w \in Workers, HandsBack(w)
  PROVE  TypeOK' /\ Placed'
<1>1. row' \in [Jobs -> Row] /\ fresh' \in [Workers -> BOOLEAN]
  BY ChangeRowIs DEF HandsBack
<1>2. /\ pc' = [pc EXCEPT ![w] = "idle"] /\ task' = [task EXCEPT ![w] = NoJob]
      /\ seen' = [seen EXCEPT ![w] = "ABSENT"] /\ result' = [result EXCEPT ![w] = "none"]
      /\ budget' = budget
  BY DEF HandsBack, LetGo, Goto
<1>3. TypeOK'
  BY <1>1, <1>2 DEF TypeOK, Points, Status, Results
<1>4. Placed'
  BY <1>2 DEF TypeOK, Placed, AtWork
<1> QED BY <1>3, <1>4

\* The rows a claim and the reaper leave.
LEMMA ClaimNextRow ==
  ASSUME TypeOK, NEW w \in Workers, NEW j \in Jobs, ClaimNext(w, j)
  PROVE  /\ row' \in [Jobs -> Row] /\ \A i \in Jobs : i # j => row'[i] = row[i]
         /\ row'[j].status = "RUNNING" /\ row'[j].owner = w /\ row'[j].live
<1> DEFINE r == [row[j] EXCEPT !.status = "RUNNING", !.owner = w, !.live = TRUE,
                               !.attempts = LeastOf(@ + 1, RetryCount + 1)]
           u == [row[j] EXCEPT !.status = "RUNNING", !.owner = w, !.live = TRUE]
<1>1. row \in [Jobs -> Row] /\ row[j] \in Row /\ row' = [row EXCEPT ![j] = r]
  BY RowParts DEF ClaimNext, TypeOK
<1>2. LeastOf(row[j].attempts + 1, RetryCount + 1) \in 0..(RetryCount + 1)
  BY RowParts, ConstantsAssumption DEF LeastOf
<1>3. [row[j] EXCEPT !.status = "RUNNING"] \in Row
  BY <1>1, RowWith DEF Status, Owned
<1>4. u \in Row
  BY <1>3 DEF Row
<1>5. u.status = "RUNNING" /\ u.owner = w /\ u.live /\ u.attempts = row[j].attempts
  BY <1>1 DEF Row
<1> HIDE DEF u
<1>6. /\ [u EXCEPT !.attempts = LeastOf(@ + 1, RetryCount + 1)] \in Row
      /\ [u EXCEPT !.attempts = LeastOf(@ + 1, RetryCount + 1)].status = "RUNNING"
      /\ [u EXCEPT !.attempts = LeastOf(@ + 1, RetryCount + 1)].owner = w
      /\ [u EXCEPT !.attempts = LeastOf(@ + 1, RetryCount + 1)].live
  BY <1>2, <1>4, <1>5 DEF Row
<1>7. r = [u EXCEPT !.attempts = LeastOf(@ + 1, RetryCount + 1)]
  BY DEF u
<1>8. r \in Row /\ r.status = "RUNNING" /\ r.owner = w /\ r.live
  BY <1>6, <1>7
<1> HIDE DEF r
<1> QED BY <1>1, <1>8

Expired == {j \in Jobs : row[j].status \in Owned /\ ~ row[j].live}

LEMMA ReapRow ==
  ASSUME TypeOK, NEW w \in Workers, Reap(w)
  PROVE  /\ row' \in [Jobs -> Row] /\ fresh' \in [Workers -> BOOLEAN]
         /\ \A i \in Jobs : i \notin Expired => row'[i] = row[i]
         /\ \A i \in Expired :
              /\ row'[i].owner = NoWorker /\ ~ row'[i].live
              /\ row'[i].status = IF row[i].status = "RUNNING" THEN "QUEUED" ELSE "CANCELLED"
         /\ \A v \in Workers : task[v] \notin Expired => fresh'[v] = fresh[v]
<1> DEFINE back(i) == [Unclaimed(row[i]) EXCEPT
                        !.status = IF @ = "RUNNING" THEN "QUEUED" ELSE "CANCELLED",
                        !.ready = TRUE]
           rows == [i \in Expired |-> back(i)]
<1>1. /\ row' = [i \in Jobs |-> IF i \in DOMAIN rows THEN rows[i] ELSE row[i]]
      /\ fresh' = [v \in Workers |-> IF task[v] \in DOMAIN rows THEN v = NoWorker ELSE fresh[v]]
  BY DEF Reap, Change, Expired
<1>2. DOMAIN rows = Expired /\ \A i \in Expired : rows[i] = back(i)
  OBVIOUS
<1>3. ASSUME NEW i \in Expired
      PROVE  /\ back(i) \in Row /\ back(i).owner = NoWorker /\ ~ back(i).live
             /\ back(i).status = IF row[i].status = "RUNNING" THEN "QUEUED" ELSE "CANCELLED"
  <2> DEFINE u == Unclaimed(row[i])
             s == IF u.status = "RUNNING" THEN "QUEUED" ELSE "CANCELLED"
  <2>1. u \in Row /\ u.owner = NoWorker /\ ~ u.live /\ u.status = row[i].status
    BY RowParts, UnclaimedIs DEF Expired
  <2>2. s \in Status
    BY DEF Status, Terminal
  <2> HIDE DEF u
  <2>3. back(i) = [u EXCEPT !.status = s, !.ready = TRUE]
    BY DEF u
  <2> HIDE DEF s, back
  <2>4. /\ [u EXCEPT !.status = s, !.ready = TRUE] \in Row
    BY <2>1, <2>2, RowWith
  <2>5. /\ [u EXCEPT !.status = s, !.ready = TRUE].owner = NoWorker
        /\ ~ [u EXCEPT !.status = s, !.ready = TRUE].live
        /\ [u EXCEPT !.status = s, !.ready = TRUE].status = s
    BY <2>1 DEF Row
  <2> QED BY <2>1, <2>3, <2>4, <2>5 DEF s
<1> HIDE DEF rows, back
<1>4. \A i \in Jobs : row'[i] = IF i \in Expired THEN back(i) ELSE row[i]
  BY <1>1, <1>2
<1>5. row' \in [Jobs -> Row]
  <2>1. row' = [i \in Jobs |-> IF i \in Expired THEN back(i) ELSE row[i]]
    BY <1>1, <1>2
  <2>2. \A i \in Jobs : (IF i \in Expired THEN back(i) ELSE row[i]) \in Row
    BY <1>3, RowParts
  <2> QED BY <2>1, <2>2
<1>6. Expired \subseteq Jobs
  BY DEF Expired
<1>7. /\ fresh' \in [Workers -> BOOLEAN]
      /\ \A v \in Workers : task[v] \notin Expired => fresh'[v] = fresh[v]
  <2>1. fresh' = [v \in Workers |-> IF task[v] \in Expired THEN v = NoWorker ELSE fresh[v]]
    BY <1>1, <1>2
  <2>2. \A v \in Workers : (IF task[v] \in Expired THEN v = NoWorker ELSE fresh[v]) \in BOOLEAN
    BY DEF TypeOK
  <2> QED BY <2>1, <2>2
<1> QED BY <1>3, <1>4, <1>5, <1>6, <1>7

\* A claim and the reaper leave every variable its type.
LEMMA TakeTyped ==
  ASSUME TypeOK, Placed, NEW w \in Workers, Reap(w) \/ \E j \in Jobs : ClaimNext(w, j)
  PROVE  TypeOK' /\ Placed'
<1>1. CASE Reap(w)
  <2>1. pc' = [pc EXCEPT ![w] = "claim"] /\ pc[w] = "idle" /\ UNCHANGED <<task, seen, result, budget>>
    BY <1>1 DEF Reap, Goto
  <2>2. TypeOK'
    BY <1>1, <2>1, ReapRow DEF TypeOK, Points
  <2>3. Placed'
    BY <2>1 DEF TypeOK, Placed, AtWork
  <2> QED BY <2>2, <2>3
<1>2. ASSUME NEW j \in Jobs, ClaimNext(w, j) PROVE TypeOK' /\ Placed'
  <2>1. /\ pc' = [pc EXCEPT ![w] = "decide"] /\ task' = [task EXCEPT ![w] = j]
        /\ seen' = [seen EXCEPT ![w] = "RUNNING"] /\ UNCHANGED <<result, budget>>
        /\ fresh' = [v \in Workers |-> v = w \/ (task[v] # j /\ fresh[v])]
    BY <1>2 DEF ClaimNext, Goto
  <2>2. fresh' \in [Workers -> BOOLEAN]
    BY <2>1 DEF TypeOK
  <2>3. TypeOK'
    BY <1>2, <2>1, <2>2, ClaimNextRow DEF TypeOK, Points, Status, Owned
  <2>4. j # NoJob
    BY ConstantsAssumption
  <2>5. Placed'
    BY <2>1, <2>4 DEF TypeOK, Placed, AtWork
  <2> QED BY <2>3, <2>5
<1> QED BY <1>1, <1>2

-----------------------------------------------------------------------------
(* The rows of those at work *)

\* What one row is, and what the reading of it is, before and after a step.
LEMMA MineStays ==
  ASSUME NEW w \in Workers, Mine(w), task'[w] = task[w], pc'[w] = pc[w], seen'[w] = seen[w],
         task[w] # NoJob => row'[task[w]] = row[task[w]] /\ fresh'[w] = fresh[w],
         pc[w] = "close" => task[w] # NoJob
  PROVE  Mine(w)'
BY DEF Mine

\* Unowned, for the rows a step leaves alone.
LEMMA UnownedStays ==
  ASSUME Unowned, NEW j \in Jobs, \A i \in Jobs : i # j => row'[i] = row[i],
         row'[j].status \notin Owned => row'[j].owner = NoWorker /\ ~ row'[j].live
  PROVE  Unowned'
BY DEF Unowned

\* The statuses before and after, and what becomes of owner and lease, when the world
\* changes a row.
LEMMA WorldEffect ==
  ASSUME WorkerInv, NEW j \in Jobs, WorldStep(j)
  PROVE  /\ row'[j].owner = row[j].owner
         /\ \/ row[j].status = "ABSENT" /\ row'[j].status = "QUEUED" /\ Enqueue(j)
            \/ row[j].status = "QUEUED" /\ row'[j].status = "CANCELLED"
            \/ /\ row[j].status = "RUNNING" /\ row'[j].status = "CANCEL_REQUESTED"
               /\ row'[j].live = row[j].live
            \/ row[j].status = "TECHNICAL_ERROR" /\ row'[j].status = "QUEUED"
            \/ BecomesReady(j) /\ row'[j].status = row[j].status /\ row'[j].live = row[j].live
            \/ (LeaseRunsOut(j) \/ Stall(j)) /\ row'[j].status = row[j].status /\ ~ row'[j].live
         /\ row'[j].live => row[j].live
<1>1. TypeOK /\ row \in [Jobs -> Row] /\ row[j] \in Row
  BY RowParts DEF WorkerInv, TypeOK
<1>2. ASSUME NEW r \in Row, ChangeRow(j, r, NoWorker) PROVE row'[j] = r
  BY <1>1, <1>2, ChangeRowIs
<1>3. CASE Enqueue(j)
  <2> DEFINE r == [row[j] EXCEPT !.status = "QUEUED", !.ready = TRUE]
  <2>1. r \in Row
    BY <1>1, RowWith DEF Status
  <2>2. row'[j] = r /\ row[j].status = "ABSENT"
    BY <1>2, <1>3, <2>1 DEF Enqueue
  <2>3. r.owner = row[j].owner /\ r.live = row[j].live /\ r.status = "QUEUED"
    BY <1>1 DEF Row
  <2> QED BY <1>3, <2>2, <2>3
<1>4. CASE RequestCancel(j)
  <2>1. ASSUME NEW s \in Status
        PROVE  /\ [row[j] EXCEPT !.status = s] \in Row
               /\ [row[j] EXCEPT !.status = s].owner = row[j].owner
               /\ [row[j] EXCEPT !.status = s].live = row[j].live
               /\ [row[j] EXCEPT !.status = s].status = s
    BY <1>1, RowWith DEF Row
  <2>2. CASE row[j].status = "QUEUED"
    <3> DEFINE r == [row[j] EXCEPT !.status = "CANCELLED"]
    <3>1. "CANCELLED" \in Status /\ ChangeRow(j, r, NoWorker)
      BY <1>4, <2>2 DEF RequestCancel, Status, Terminal
    <3>2. r \in Row /\ r.owner = row[j].owner /\ r.live = row[j].live /\ r.status = "CANCELLED"
      BY <2>1, <3>1
    <3> HIDE DEF r
    <3>3. row'[j] = r
      BY <1>2, <3>1, <3>2
    <3> QED BY <2>2, <3>2, <3>3
  <2>3. CASE row[j].status = "RUNNING"
    <3> DEFINE r == [row[j] EXCEPT !.status = "CANCEL_REQUESTED"]
    <3>1. "CANCEL_REQUESTED" \in Status /\ ChangeRow(j, r, NoWorker)
      BY <1>4, <2>3 DEF RequestCancel, Status, Owned
    <3>2. /\ r \in Row /\ r.owner = row[j].owner /\ r.live = row[j].live
          /\ r.status = "CANCEL_REQUESTED"
      BY <2>1, <3>1
    <3> HIDE DEF r
    <3>3. row'[j] = r
      BY <1>2, <3>1, <3>2
    <3> QED BY <2>3, <3>2, <3>3
  <2> QED BY <1>4, <2>2, <2>3 DEF RequestCancel
<1>5. CASE ReprocessDeadLetter(j)
  <2> DEFINE r == [row[j] EXCEPT !.status = "QUEUED", !.ready = TRUE, !.attempts = 0, !.letter = FALSE]
             u == [row[j] EXCEPT !.status = "QUEUED", !.ready = TRUE]
  <2>1. u \in Row /\ 0 \in 0..(RetryCount + 1)
    <3>1. u \in Row
      BY <1>1, RowWith DEF Status
    <3>2. 0 \in 0..(RetryCount + 1)
      BY ConstantsAssumption
    <3> QED BY <3>1, <3>2
  <2>2. u.owner = row[j].owner /\ u.live = row[j].live /\ u.status = "QUEUED"
    BY <1>1 DEF Row
  <2> HIDE DEF u
  <2>3. r = [u EXCEPT !.attempts = 0, !.letter = FALSE]
    BY DEF u
  <2> HIDE DEF r
  <2>4. r \in Row /\ r.owner = u.owner /\ r.live = u.live /\ r.status = u.status
    BY <2>1, <2>3 DEF Row
  <2>5. row'[j] = r /\ row[j].status = "TECHNICAL_ERROR"
    BY <1>2, <1>5, <2>4 DEF ReprocessDeadLetter, r
  <2> QED BY <2>2, <2>4, <2>5
<1>6. CASE BecomesReady(j)
  <2>1. row'[j] = [row[j] EXCEPT !.ready = TRUE]
    BY <1>1, <1>6 DEF BecomesReady
  <2> QED BY <1>1, <1>6, <2>1 DEF Row
<1>7. CASE LeaseRunsOut(j) \/ Stall(j)
  <2>1. row'[j] = [row[j] EXCEPT !.live = FALSE]
    BY <1>1, <1>7 DEF LeaseRunsOut, Stall
  <2> QED BY <1>1, <1>7, <2>1 DEF Row
<1> QED BY <1>3, <1>4, <1>5, <1>6, <1>7 DEF WorldStep

LEMMA WorldKeeps ==
  ASSUME WorkerInv, NEW j \in Jobs, WorldStep(j)
  PROVE  WorkerInv'
<1>1. TypeOK' /\ UNCHANGED <<pc, task, seen, result>>
  BY WorldTyped, WorldRow DEF WorkerInv
<1>2. Placed'
  BY <1>1 DEF WorkerInv, Placed
<1>3. /\ \A i \in Jobs : i # j => row'[i] = row[i]
      /\ \A w \in Workers : task[w] # j => fresh'[w] = fresh[w]
  BY WorldRow DEF WorkerInv
<1>4. Unowned'
  <2>1. row'[j].status \notin Owned => row[j].status \notin Owned
    BY WorldEffect DEF Owned
  <2>2. row[j].live \in BOOLEAN /\ row'[j].live \in BOOLEAN
    BY <1>1, RowParts DEF WorkerInv, TypeOK, Row
  <2> QED BY <1>3, <2>1, <2>2, WorldEffect, UnownedStays DEF WorkerInv, Unowned
<1>5. CASE Stall(j)
  <2>1. /\ budget \in [crashes : 0..MaxCrashes, stalls : 0..MaxStalls, reprocessed : 0..MaxReprocess]
        /\ budget' = [budget EXCEPT !.stalls = @ + 1] /\ MaxStalls \in Nat
    BY <1>5, ConstantsAssumption DEF WorkerInv, TypeOK, Stall
  <2>2. budget'.stalls # 0
    BY <2>1
  <2> QED BY <1>1, <1>2, <1>4, <2>2 DEF WorkerInv, Held
<1>6. CASE ~ Stall(j)
  <2>1. budget'.stalls = budget.stalls
    BY <1>6 DEF WorkerInv, TypeOK, WorldStep, Enqueue, RequestCancel, ReprocessDeadLetter,
       BecomesReady, LeaseRunsOut
  <2>2. ASSUME budget.stalls = 0, NEW w \in Workers PROVE Mine(w)'
    <3>1. Mine(w) /\ (pc[w] = "close" => task[w] # NoJob) /\ task[w] \in Jobs \cup {NoJob}
      BY <2>2 DEF WorkerInv, Held, Placed, AtWork, TypeOK
    <3>2. CASE task[w] # j
      BY <1>1, <1>3, <3>1, <3>2, MineStays
    <3>3. CASE task[w] = j
      <4>1. j # NoJob
        BY ConstantsAssumption
      <4>2. row[j].status \in Owned /\ row[j].owner = w /\ row[j].live
        BY <3>1, <3>3, <4>1 DEF Mine
      <4>3. ~ LeaseRunsOut(j)
        BY <3>3, <4>2 DEF LeaseRunsOut
      <4>4. CASE BecomesReady(j)
        BY <4>2, <4>4 DEF BecomesReady, Owned
      <4>5. CASE row[j].status = "RUNNING" /\ row'[j].status = "CANCEL_REQUESTED"
                 /\ row'[j].live = row[j].live
        <5>1. row'[j].owner = w
          BY <4>2, WorldEffect
        <5> QED BY <1>1, <3>1, <3>3, <4>2, <4>5, <5>1 DEF Mine, Owned
      <4> QED BY <1>6, <4>2, <4>3, <4>4, <4>5, WorldEffect DEF Owned
    <3> QED BY <3>2, <3>3
  <2> QED BY <1>1, <1>2, <1>4, <2>1, <2>2 DEF WorkerInv, Held
<1> QED BY <1>5, <1>6

\* Two workers with one job would both own its row.
LEMMA OneAtJob ==
  ASSUME WorkerInv, budget.stalls = 0, NEW v \in Workers, NEW w \in Workers,
         task[v] # NoJob, task[v] = task[w]
  PROVE  v = w
BY DEF WorkerInv, Held, Mine

LEMMA QuietKeeps ==
  ASSUME WorkerInv, NEW w \in Workers, QuietStep(w)
  PROVE  WorkerInv'
<1>1. TypeOK' /\ Placed'
  BY QuietTyped, QuietPlaces DEF WorkerInv
<1>2. row' = row /\ Unowned'
  BY QuietRows DEF WorkerInv, Unowned
<1>3. budget'.stalls = budget.stalls
  <2>1. budget \in [crashes : 0..MaxCrashes, stalls : 0..MaxStalls, reprocessed : 0..MaxReprocess]
    BY DEF WorkerInv, TypeOK
  <2> QED BY <2>1 DEF QuietStep, ClaimNothing, StartHandler, RejectJob, HandlerEnds, PollRow,
             StopHandler, HeartbeatNotDue, Heartbeat, ReadToClose, CloseRefused, ReportProgress,
             Start, Crash, Raises
<1>4. ASSUME budget.stalls = 0, NEW v \in Workers PROVE Mine(v)'
  <2>1. /\ Mine(v) /\ (pc[v] = "close" => task[v] # NoJob)
        /\ task \in [Workers -> Jobs \cup {NoJob}]
    BY <1>4 DEF WorkerInv, Held, Placed, AtWork, TypeOK
  <2>2. /\ task' = task \/ task' = [task EXCEPT ![w] = NoJob]
        /\ \A u \in Workers : u # w => seen'[u] = seen[u] /\ pc'[u] = pc[u]
    BY QuietPlaces DEF WorkerInv
  <2>3. CASE v = w
    <3>1. task'[w] \in {task[w], NoJob}
      BY <2>1, <2>2
    <3>2. pc'[w] = "close" => task'[w] # NoJob /\ fresh'[w] /\ seen'[w] = row[task[w]].status
      BY <1>1, QuietRows DEF WorkerInv, Placed, AtWork
    <3> QED BY <1>2, <2>1, <2>3, <3>1, <3>2 DEF Mine
  <2>4. CASE v # w
    <3>1. task'[v] = task[v] /\ pc'[v] = pc[v] /\ seen'[v] = seen[v]
      BY <2>1, <2>2, <2>4
    <3>2. task[v] # NoJob => fresh'[v] = fresh[v]
      BY <1>4, <2>4, OneAtJob, QuietRows DEF WorkerInv
    <3> QED BY <1>2, <2>1, <3>1, <3>2, MineStays
  <2> QED BY <2>3, <2>4
<1> QED BY <1>1, <1>2, <1>3, <1>4 DEF WorkerInv, Held

LEMMA HandBackKeeps ==
  ASSUME WorkerInv, NEW w \in Workers, HandsBack(w)
  PROVE  WorkerInv'
<1> DEFINE j == task[w]
<1>1. TypeOK' /\ Placed'
  BY HandBackTyped DEF WorkerInv
<1>2. PICK r \in Row : /\ ChangeRow(j, r, NoWorker)
                       /\ r.owner = NoWorker /\ ~ r.live /\ r.status \in Ends(row[j].status)
  BY DEF HandsBack
<1>3. /\ row'[j] = r /\ \A i \in Jobs : i # j => row'[i] = row[i]
      /\ \A v \in Workers : task[v] # j => fresh'[v] = fresh[v]
      /\ j \in Jobs
  BY <1>2, ChangeRowIs DEF WorkerInv, HandsBack
<1>4. Unowned'
  BY <1>2, <1>3, UnownedStays DEF WorkerInv
<1>5. /\ pc' = [pc EXCEPT ![w] = "idle"] /\ task' = [task EXCEPT ![w] = NoJob]
      /\ seen' = [seen EXCEPT ![w] = "ABSENT"] /\ budget' = budget
  BY DEF HandsBack, LetGo, Goto
<1>6. ASSUME budget.stalls = 0, NEW v \in Workers PROVE Mine(v)'
  <2>1. /\ Mine(v) /\ (pc[v] = "close" => task[v] # NoJob)
        /\ task \in [Workers -> Jobs \cup {NoJob}] /\ pc \in [Workers -> Points]
        /\ seen \in [Workers -> Status]
    BY <1>6 DEF WorkerInv, Held, Placed, AtWork, TypeOK
  <2>2. CASE v = w
    BY <1>5, <2>1, <2>2 DEF Mine
  <2>3. CASE v # w
    <3>1. task'[v] = task[v] /\ pc'[v] = pc[v] /\ seen'[v] = seen[v]
      BY <1>5, <2>1, <2>3
    <3>2. task[v] # NoJob => task[v] # j /\ task[v] \in Jobs
      BY <1>6, <2>1, <2>3, OneAtJob
    <3> QED BY <1>3, <2>1, <3>1, <3>2, MineStays
  <2> QED BY <2>2, <2>3
<1> QED BY <1>1, <1>4, <1>5, <1>6 DEF WorkerInv, Held

\* What is taken over or reaped is not the job of anybody at work, unless somebody stalled.
LEMMA ReapKeeps ==
  ASSUME WorkerInv, NEW w \in Workers, Reap(w)
  PROVE  WorkerInv'
<1>1. TypeOK' /\ Placed'
  BY TakeTyped DEF WorkerInv
<1>2. /\ \A i \in Jobs : i \notin Expired => row'[i] = row[i]
      /\ \A i \in Expired : row'[i].owner = NoWorker /\ ~ row'[i].live
      /\ \A v \in Workers : task[v] \notin Expired => fresh'[v] = fresh[v]
  BY ReapRow DEF WorkerInv
<1>3. Unowned'
  BY <1>2 DEF WorkerInv, Unowned
<1>4. /\ pc' = [pc EXCEPT ![w] = "claim"] /\ pc[w] = "idle" /\ UNCHANGED <<task, seen, budget>>
  BY DEF Reap, Goto
<1>5. ASSUME budget.stalls = 0, NEW v \in Workers PROVE Mine(v)'
  <2>1. /\ Mine(v) /\ (pc[v] = "close" => task[v] # NoJob)
        /\ task[v] \in Jobs \cup {NoJob} /\ pc \in [Workers -> Points]
    BY <1>5 DEF WorkerInv, Held, Placed, AtWork, TypeOK
  <2>2. task[v] # NoJob => task[v] \notin Expired /\ task[v] \in Jobs
    BY <2>1 DEF Mine, Expired
  <2>3. CASE v = w
    BY <1>2, <1>4, <2>1, <2>2, <2>3 DEF Mine
  <2>4. CASE v # w
    BY <1>2, <1>4, <2>1, <2>2, <2>4, MineStays
  <2> QED BY <2>3, <2>4
<1> QED BY <1>1, <1>3, <1>4, <1>5 DEF WorkerInv, Held

LEMMA ClaimKeeps ==
  ASSUME WorkerInv, NEW w \in Workers, NEW j \in Jobs, ClaimNext(w, j)
  PROVE  WorkerInv'
<1>1. TypeOK' /\ Placed'
  BY TakeTyped DEF WorkerInv
<1>2. /\ \A i \in Jobs : i # j => row'[i] = row[i]
      /\ row'[j].status = "RUNNING" /\ row'[j].owner = w /\ row'[j].live
  BY ClaimNextRow DEF WorkerInv
<1>3. Unowned'
  BY <1>2, UnownedStays DEF WorkerInv, Owned
<1>4. /\ pc' = [pc EXCEPT ![w] = "decide"] /\ task' = [task EXCEPT ![w] = j]
      /\ seen' = [seen EXCEPT ![w] = "RUNNING"] /\ budget' = budget
      /\ fresh' = [v \in Workers |-> v = w \/ (task[v] # j /\ fresh[v])]
  BY DEF ClaimNext, Goto
<1>5. \/ row[j].status \in {"QUEUED", "BLOCKED"}
      \/ row[j].status = "RUNNING" /\ ~ row[j].live
  BY DEF ClaimNext, Candidates
<1>6. ASSUME budget.stalls = 0, NEW v \in Workers PROVE Mine(v)'
  <2>1. /\ Mine(v) /\ (pc[v] = "close" => task[v] # NoJob)
        /\ task \in [Workers -> Jobs \cup {NoJob}] /\ pc \in [Workers -> Points]
        /\ seen \in [Workers -> Status] /\ fresh \in [Workers -> BOOLEAN]
    BY <1>6 DEF WorkerInv, Held, Placed, AtWork, TypeOK
  <2>2. CASE v = w
    BY <1>2, <1>4, <2>1, <2>2 DEF Mine, Owned
  <2>3. CASE v # w
    <3>1. task'[v] = task[v] /\ pc'[v] = pc[v] /\ seen'[v] = seen[v]
      BY <1>4, <2>1, <2>3
    <3>2. task[v] # j
      BY <1>5, <2>1, ConstantsAssumption DEF Mine, Owned
    <3>3. fresh'[v] = fresh[v]
      BY <1>4, <2>1, <2>3, <3>2
    <3>4. task[v] # NoJob => row'[task[v]] = row[task[v]]
      BY <1>2, <2>1, <3>2
    <3> QED BY <2>1, <3>1, <3>3, <3>4, MineStays
  <2> QED BY <2>2, <2>3
<1> QED BY <1>1, <1>3, <1>4, <1>6 DEF WorkerInv, Held

\* Every step of Next is of one of these kinds.
LEMMA Kinds ==
  ASSUME TypeOK, Placed, Next
  PROVE  \/ \E j \in Jobs : WorldStep(j)
         \/ \E w \in Workers : \/ QuietStep(w) \/ HandsBack(w) \/ Reap(w)
                               \/ \E j \in Jobs : ClaimNext(w, j)
BY BlockHandsBack, CloseHandsBack DEF Next, Turn, WorldStep, QuietStep

LEMMA WorkerIsInductive == WorkerInv /\ [Next]_vars => WorkerInv'
<1> SUFFICES ASSUME WorkerInv, [Next]_vars PROVE WorkerInv'
  OBVIOUS
<1>1. CASE UNCHANGED vars
  BY <1>1 DEF vars, WorkerInv, TypeOK, Placed, Unowned, Held, Mine
<1>2. CASE Next
  BY <1>2, Kinds, WorldKeeps, QuietKeeps, HandBackKeeps, ReapKeeps, ClaimKeeps DEF WorkerInv
<1> QED BY <1>1, <1>2

LEMMA WorkerInvariant == Spec => []WorkerInv
BY InitWorker, WorkerIsInductive, PTL DEF Spec

-----------------------------------------------------------------------------
(* Theorems *)

\* Every variable keeps its type.
THEOREM WorkerTypeCorrect == Spec => []TypeOK
<1>1. WorkerInv => TypeOK
  BY DEF WorkerInv
<1> QED BY <1>1, WorkerInvariant, PTL

\* Unless a worker stalled, a worker at a job holds its lease, and only a cancellation
\* can refuse it the end of the job.
THEOREM LeaseIsHeld == Spec => []BusyWorkerHoldsLease
<1>1. WorkerInv => BusyWorkerHoldsLease
  <2> SUFFICES ASSUME WorkerInv, budget.stalls = 0, NEW w \in Workers
               PROVE  /\ task[w] # NoJob => /\ row[task[w]].status \in Owned
                                            /\ row[task[w]].owner = w
                                            /\ row[task[w]].live
                      /\ pc[w] = "close" /\ ~ Accepted(w, Expects(seen[w])) =>
                           seen[w] = "RUNNING" /\ row[task[w]].status = "CANCEL_REQUESTED"
    BY DEF BusyWorkerHoldsLease
  <2>1. Mine(w) /\ (pc[w] = "close" => task[w] # NoJob)
    BY DEF WorkerInv, Held, Placed, AtWork
  <2>2. ASSUME pc[w] = "close", fresh[w], row[task[w]].status = seen[w]
        PROVE  Accepted(w, Expects(seen[w]))
    BY <2>1, <2>2 DEF Mine, Accepted, Expects, Owned
  <2> QED BY <2>1, <2>2 DEF Mine
<1> QED BY <1>1, WorkerInvariant, PTL

\* Whoever stalled, a worker that lost its claim writes nothing into the job's row.
THEOREM LostClaimsAreHarmless == Spec => LostClaimWritesNothing
<1> DEFINE Harmless ==
      \A w \in Workers :
        /\ task[w] # NoJob
        /\ row[task[w]].owner # w
        /\ pc'[w] # pc[w] /\ pc[w] \in {"decide", "handle", "polled", "close"}
        => row'[task[w]] = row[task[w]]
<1>1. ASSUME WorkerInv, [Next]_vars PROVE [Harmless]_vars
  <2> SUFFICES ASSUME Next, NEW w \in Workers, row[task[w]].owner # w, pc'[w] # pc[w],
                      pc[w] \in {"decide", "handle", "polled", "close"}
               PROVE  row'[task[w]] = row[task[w]]
    BY <1>1
  <2>1. TypeOK /\ Placed /\ pc \in [Workers -> Points]
    BY <1>1 DEF WorkerInv, TypeOK
  <2>2. ~ \E j \in Jobs : WorldStep(j)
    BY <2>1, WorldRow
  <2>3. ASSUME NEW v \in Workers, v # w PROVE ~ (QuietStep(v) \/ HandsBack(v))
    <3>1. ~ QuietStep(v)
      BY <2>1, <2>3, QuietPlaces
    <3>2. ~ HandsBack(v)
      BY <2>1, <2>3 DEF HandsBack, LetGo, Goto
    <3> QED BY <3>1, <3>2
  <2>4. ASSUME NEW v \in Workers PROVE ~ (Reap(v) \/ \E j \in Jobs : ClaimNext(v, j))
    BY <2>1 DEF Reap, ClaimNext, Goto
  <2>5. ~ HandsBack(w)
    BY DEF HandsBack
  <2>6. QuietStep(w)
    BY <2>1, <2>2, <2>3, <2>4, <2>5, Kinds
  <2> QED BY <2>1, <2>6, QuietRows
<1> QED BY <1>1, WorkerInvariant, PTL DEF Spec, LostClaimWritesNothing
-----------------------------------------------------------------------------
(* Refinement of JobLifecycle *)

\* A step that changes one row at most moves that job.
LEMMA RowMoves ==
  ASSUME NEW j \in Jobs, NEW p, NEW w, row \in [Jobs -> Row], row' \in [Jobs -> Row],
         \A i \in Jobs : i # j => row'[i] = row[i],
         PhaseOf(row'[j].status) = p, row'[j].owner = w
  PROVE  Lifecycle!Move(j, p, w)
<1>1. [i \in Jobs |-> PhaseOf(row'[i].status)]
        = [[i \in Jobs |-> PhaseOf(row[i].status)] EXCEPT ![j] = p]
  OBVIOUS
<1>2. [i \in Jobs |-> row'[i].owner] = [[i \in Jobs |-> row[i].owner] EXCEPT ![j] = w]
  OBVIOUS
<1> QED BY <1>1, <1>2 DEF Lifecycle!Move, PhaseOf

\* A step that changes no status and no owner moves nothing.
LEMMA RowsStay ==
  ASSUME row \in [Jobs -> Row], row' \in [Jobs -> Row],
         \A i \in Jobs : row'[i].status = row[i].status /\ row'[i].owner = row[i].owner
  PROVE  UNCHANGED Lifecycle!vars
<1>1. [i \in Jobs |-> PhaseOf(row'[i].status)] = [i \in Jobs |-> PhaseOf(row[i].status)]
  OBVIOUS
<1>2. [i \in Jobs |-> row'[i].owner] = [i \in Jobs |-> row[i].owner]
  OBVIOUS
<1> QED BY <1>1, <1>2 DEF Lifecycle!vars, PhaseOf

\* The queue, when it takes back the jobs of a set, recovers them.
LEMMA RowsRecover ==
  ASSUME NEW lost \in SUBSET Jobs, row \in [Jobs -> Row], row' \in [Jobs -> Row],
         \A i \in lost : /\ row[i].status \in Owned /\ row'[i].owner = NoWorker
                         /\ row'[i].status = IF row[i].status = "RUNNING" THEN "QUEUED" ELSE "CANCELLED",
         \A i \in Jobs \ lost : row'[i].status = row[i].status /\ row'[i].owner = row[i].owner
  PROVE  Lifecycle!Recover(lost)
<1> DEFINE phase  == [i \in Jobs |-> PhaseOf(row[i].status)]
           holder == [i \in Jobs |-> row[i].owner]
<1>1. \A i \in lost : phase[i] = IF row[i].status = "RUNNING" THEN "held" ELSE "stopping"
  BY DEF PhaseOf, Owned
<1>2. \A i \in Jobs : PhaseOf(row'[i].status)
                        = IF i \notin lost THEN phase[i]
                          ELSE IF phase[i] = "held" THEN "waiting" ELSE "cancelled"
  <2>1. ASSUME NEW i \in lost
        PROVE  PhaseOf(row'[i].status) = IF phase[i] = "held" THEN "waiting" ELSE "cancelled"
    <3>1. CASE row[i].status = "RUNNING"
      BY <1>1, <3>1 DEF PhaseOf
    <3>2. CASE row[i].status # "RUNNING"
      <4>1. PhaseOf("CANCELLED") = "cancelled"
        BY DEF PhaseOf
      <4> QED BY <1>1, <3>2, <4>1
    <3> QED BY <3>1, <3>2
  <2>2. ASSUME NEW i \in Jobs, i \notin lost PROVE PhaseOf(row'[i].status) = phase[i]
    BY <2>2
  <2> QED BY <2>1, <2>2
<1> HIDE DEF phase
<1>3. [i \in Jobs |-> PhaseOf(row'[i].status)]
        = [i \in Jobs |-> IF i \notin lost THEN phase[i]
                          ELSE IF phase[i] = "held" THEN "waiting" ELSE "cancelled"]
  BY <1>2
<1>4. [i \in Jobs |-> row'[i].owner] = [i \in Jobs |-> IF i \in lost THEN NoWorker ELSE holder[i]]
  OBVIOUS
<1>5. \A i \in lost : phase[i] \in {"held", "stopping"}
  BY <1>1
<1> QED BY <1>3, <1>4, <1>5 DEF Lifecycle!Recover, PhaseOf, phase
\* To hand one held job back is to recover the set of that one job.
LEMMA MoveIsRecover ==
  ASSUME NEW j \in Jobs, row[j].status = "RUNNING", Lifecycle!Move(j, "waiting", NoWorker)
  PROVE  Lifecycle!Recover({j})
<1> DEFINE phase  == [i \in Jobs |-> PhaseOf(row[i].status)]
           holder == [i \in Jobs |-> row[i].owner]
<1>1. phase[j] = "held"
  BY DEF PhaseOf
<1>2. /\ [i \in Jobs |-> PhaseOf(row'[i].status)] = [phase EXCEPT ![j] = "waiting"]
      /\ [i \in Jobs |-> row'[i].owner] = [holder EXCEPT ![j] = NoWorker]
  BY DEF Lifecycle!Move, PhaseOf
<1> HIDE DEF phase, holder
<1>3. phase = [i \in Jobs |-> phase[i]] /\ holder = [i \in Jobs |-> holder[i]]
  BY DEF phase, holder
<1>4. [phase EXCEPT ![j] = "waiting"]
        = [i \in Jobs |-> IF i \notin {j} THEN phase[i]
                         ELSE IF phase[i] = "held" THEN "waiting" ELSE "cancelled"]
  BY <1>1, <1>3
<1>5. [holder EXCEPT ![j] = NoWorker] = [i \in Jobs |-> IF i \in {j} THEN NoWorker ELSE holder[i]]
  BY <1>3
<1> QED BY <1>1, <1>2, <1>4, <1>5 DEF Lifecycle!Recover, phase, holder, PhaseOf

LEMMA WorldMoves ==
  ASSUME WorkerInv, NEW j \in Jobs, WorldStep(j)
  PROVE  [Lifecycle!Next]_(Lifecycle!vars)
<1>1. /\ row \in [Jobs -> Row] /\ row' \in [Jobs -> Row]
      /\ \A i \in Jobs : i # j => row'[i] = row[i]
      /\ row'[j].owner = row[j].owner
      /\ row[j].status \notin Owned => row[j].owner = NoWorker
  BY WorldRow, WorldEffect DEF WorkerInv, TypeOK, Unowned
<1>2. ASSUME NEW p, PhaseOf(row'[j].status) = p, NEW w, row[j].owner = w
      PROVE  Lifecycle!Move(j, p, w)
  BY <1>1, <1>2, RowMoves
<1>3. CASE row'[j].status = row[j].status
  BY <1>1, <1>3, RowsStay
<1>4. CASE row[j].status = "ABSENT" /\ row'[j].status = "QUEUED"
  <2>1. Lifecycle!Move(j, "waiting", NoWorker)
    BY <1>1, <1>2, <1>4 DEF PhaseOf, Owned
  <2>2. Lifecycle!Submit(j)
    BY <1>4, <2>1 DEF Lifecycle!Submit, PhaseOf
  <2> QED BY <2>2 DEF Lifecycle!Next
<1>5. CASE row[j].status = "QUEUED" /\ row'[j].status = "CANCELLED"
  <2>1. Lifecycle!Move(j, "cancelled", NoWorker)
    BY <1>1, <1>2, <1>5 DEF PhaseOf, Owned
  <2>2. Lifecycle!Withdraw(j)
    BY <1>5, <2>1 DEF Lifecycle!Withdraw, PhaseOf
  <2> QED BY <2>2 DEF Lifecycle!Next
<1>6. CASE row[j].status = "RUNNING" /\ row'[j].status = "CANCEL_REQUESTED"
  <2> PICK v : v = row[j].owner
    OBVIOUS
  <2>1. Lifecycle!Move(j, "stopping", v)
    BY <1>1, <1>2, <1>6 DEF PhaseOf
  <2>2. [i \in Jobs |-> row[i].owner][j] = v
    OBVIOUS
  <2>3. Lifecycle!Withdraw(j)
    BY <1>6, <2>1, <2>2 DEF Lifecycle!Withdraw, Lifecycle!Move, PhaseOf
  <2> QED BY <2>3 DEF Lifecycle!Next
<1>7. CASE row[j].status = "TECHNICAL_ERROR" /\ row'[j].status = "QUEUED"
  <2>1. Lifecycle!Move(j, "waiting", NoWorker)
    BY <1>1, <1>2, <1>7 DEF PhaseOf, Owned
  <2>2. Lifecycle!Reopen(j)
    BY <1>7, <2>1 DEF Lifecycle!Reopen, PhaseOf
  <2> QED BY <2>2 DEF Lifecycle!Next
<1> QED BY <1>3, <1>4, <1>5, <1>6, <1>7, WorldEffect

LEMMA HandBackMoves ==
  ASSUME WorkerInv, NEW w \in Workers, HandsBack(w), NEW j \in Jobs, j = task[w]
  PROVE  Lifecycle!Next
<1>1. PICK r \in Row : /\ ChangeRow(j, r, NoWorker)
                       /\ r.owner = NoWorker /\ r.status \in Ends(row[j].status)
  BY DEF HandsBack
<1>2. /\ row[j].status \in Owned
      /\ row \in [Jobs -> Row] /\ row' \in [Jobs -> Row]
      /\ row'[j] = r /\ \A i \in Jobs : i # j => row'[i] = row[i]
  BY <1>1, ChangeRowIs DEF WorkerInv, HandsBack, TypeOK
<1>3. ASSUME NEW p, PhaseOf(r.status) = p PROVE Lifecycle!Move(j, p, NoWorker)
  BY <1>1, <1>2, <1>3, RowMoves
<1>4. CASE r.status \in {"SUCCESS", "TIMEOUT", "TECHNICAL_ERROR"}
  <2>1. row[j].status = "RUNNING"
    BY <1>1, <1>4 DEF Ends
  <2>2. \/ PhaseOf(r.status) = "done" /\ Lifecycle!Move(j, "done", NoWorker)
        \/ PhaseOf(r.status) = "failed" /\ Lifecycle!Move(j, "failed", NoWorker)
    BY <1>3, <1>4 DEF PhaseOf
  <2>3. Lifecycle!Done(j) \/ Lifecycle!Fail(j)
    BY <2>1, <2>2 DEF Lifecycle!Done, Lifecycle!Fail, PhaseOf
  <2> QED BY <2>3 DEF Lifecycle!Next
<1>5. CASE r.status = "CANCELLED"
  <2>1. row[j].status = "CANCEL_REQUESTED"
    BY <1>1, <1>2, <1>5 DEF Ends, Owned
  <2>2. Lifecycle!Move(j, "cancelled", NoWorker)
    BY <1>3, <1>5 DEF PhaseOf
  <2>3. Lifecycle!Stopped(j)
    BY <2>1, <2>2 DEF Lifecycle!Stopped, PhaseOf
  <2> QED BY <2>3 DEF Lifecycle!Next
<1>6. CASE r.status \in {"QUEUED", "BLOCKED"}
  <2>1. row[j].status = "RUNNING"
    BY <1>1, <1>6 DEF Ends
  <2>2. Lifecycle!Move(j, "waiting", NoWorker)
    BY <1>3, <1>6 DEF PhaseOf
  <2>3. Lifecycle!Recover({j})
    BY <2>1, <2>2, MoveIsRecover
  <2>4. {j} \in SUBSET Jobs
    OBVIOUS
  <2>5. \E some \in SUBSET Jobs : Lifecycle!Recover(some)
    BY <2>3, <2>4 DEF Lifecycle!Recover
  <2> QED BY <2>5 DEF Lifecycle!Next
<1> QED BY <1>1, <1>4, <1>5, <1>6 DEF Ends

LEMMA ReapMoves ==
  ASSUME WorkerInv, NEW w \in Workers, Reap(w)
  PROVE  Lifecycle!Next
<1>1. PICK lost \in SUBSET Jobs : lost = Expired
  BY DEF Expired
<1>2. row \in [Jobs -> Row] /\ row' \in [Jobs -> Row]
  BY ReapRow DEF WorkerInv, TypeOK
<1>3. Lifecycle!Recover(lost)
  <2>1. \A i \in lost :
          /\ row[i].status \in Owned /\ row'[i].owner = NoWorker
          /\ row'[i].status = IF row[i].status = "RUNNING" THEN "QUEUED" ELSE "CANCELLED"
    BY <1>1, ReapRow DEF WorkerInv, Expired
  <2>2. \A i \in Jobs \ lost : row'[i] = row[i]
    BY <1>1, ReapRow DEF WorkerInv
  <2> QED BY <1>2, <2>1, <2>2, RowsRecover
<1>4. \E some \in SUBSET Jobs : Lifecycle!Recover(some)
  BY <1>3 DEF Lifecycle!Recover
<1> QED BY <1>4 DEF Lifecycle!Next

LEMMA ClaimMoves ==
  ASSUME WorkerInv, NEW w \in Workers, NEW j \in Jobs, ClaimNext(w, j)
  PROVE  Lifecycle!Next
<1>1. /\ row \in [Jobs -> Row] /\ row' \in [Jobs -> Row]
      /\ \A i \in Jobs : i # j => row'[i] = row[i]
      /\ row'[j].status = "RUNNING" /\ row'[j].owner = w
  BY ClaimNextRow DEF WorkerInv, TypeOK
<1>2. row[j].status \in {"QUEUED", "BLOCKED", "RUNNING"}
  BY DEF ClaimNext, Candidates
<1>3. Lifecycle!Move(j, "held", w)
  <2>1. PhaseOf(row'[j].status) = "held"
    BY <1>1 DEF PhaseOf
  <2> QED BY <1>1, <2>1, RowMoves
<1>4. Lifecycle!Take(w, j)
  BY <1>2, <1>3 DEF Lifecycle!Take, PhaseOf
<1> QED BY <1>4 DEF Lifecycle!Next

\* The rows, read as phases and holders, behave as JobLifecycle promises, whoever
\* crashes or stalls and however often.
THEOREM WorkersImplementLifecycle == Spec => ImplementsLifecycle
<1>1. Init => Lifecycle!Init
  BY DEF Init, PhaseOf, Lifecycle!Init
<1>2. ASSUME WorkerInv, [Next]_vars PROVE [Lifecycle!Next]_(Lifecycle!vars)
  <2>1. CASE UNCHANGED vars
    BY <2>1 DEF vars, Lifecycle!vars
  <2>2. ASSUME NEW w \in Workers, QuietStep(w) PROVE UNCHANGED Lifecycle!vars
    BY <1>2, <2>2, QuietRows DEF WorkerInv, Lifecycle!vars
  <2>3. ASSUME NEW w \in Workers, HandsBack(w) PROVE Lifecycle!Next
    BY <1>2, <2>3, HandBackMoves DEF HandsBack
  <2>4. CASE Next
    BY <1>2, <2>2, <2>3, <2>4, Kinds, WorldMoves, ReapMoves, ClaimMoves DEF WorkerInv
  <2> QED BY <1>2, <2>1, <2>4
<1> QED BY <1>1, <1>2, WorkerInvariant, PTL DEF Spec, ImplementsLifecycle, Lifecycle!Spec
=============================================================================
