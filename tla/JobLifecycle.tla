----------------------------- MODULE JobLifecycle -----------------------------
(***************************************************************************)
(* What the queue promises to those who submit, cancel and work on jobs,   *)
(* with no clock, version, retry policy or quota:                          *)
(*                                                                         *)
(*   - a submitted job waits until a worker takes it, and at any time at   *)
(*     most one worker holds it;                                           *)
(*   - the holder finishes it, gives it back, or loses it to the queue or  *)
(*     to another worker;                                                  *)
(*   - a job withdrawn while it waits is cancelled at once; one withdrawn  *)
(*     while it is held can only become cancelled, and no worker takes it; *)
(*   - a done, failed or cancelled job stays so, except that a failed one  *)
(*     may be reopened.                                                    *)
(*                                                                         *)
(* JobQueue and JobWorker are each shown to implement it.                  *)
(***************************************************************************)
CONSTANTS Jobs, Workers, NoWorker

VARIABLES
  phase,  \* "absent", "waiting", "held", "stopping", "done", "failed", "cancelled"
  holder  \* the worker that holds the job, or NoWorker

vars == <<phase, holder>>

Phases == {"absent", "waiting", "held", "stopping", "done", "failed", "cancelled"}

Init ==
  /\ phase = [j \in Jobs |-> "absent"]
  /\ holder = [j \in Jobs |-> NoWorker]

Move(j, p, w) ==
  /\ phase' = [phase EXCEPT ![j] = p]
  /\ holder' = [holder EXCEPT ![j] = w]

Submit(j)  == phase[j] = "absent" /\ Move(j, "waiting", NoWorker)
Take(w, j) == phase[j] \in {"waiting", "held"} /\ Move(j, "held", w)
Done(j)    == phase[j] = "held" /\ Move(j, "done", NoWorker)
Fail(j)    == phase[j] = "held" /\ Move(j, "failed", NoWorker)
Reopen(j)  == phase[j] = "failed" /\ Move(j, "waiting", NoWorker)

Withdraw(j) ==
  \/ phase[j] = "waiting" /\ Move(j, "cancelled", NoWorker)
  \/ phase[j] = "held"    /\ Move(j, "stopping", holder[j])

Stopped(j) == phase[j] = "stopping" /\ Move(j, "cancelled", NoWorker)

\* The queue takes back what some holders stopped renewing, all in one step.
Recover(lost) ==
  /\ \A j \in lost : phase[j] \in {"held", "stopping"}
  /\ phase' = [j \in Jobs |-> IF j \notin lost THEN phase[j]
                              ELSE IF phase[j] = "held" THEN "waiting" ELSE "cancelled"]
  /\ holder' = [j \in Jobs |-> IF j \in lost THEN NoWorker ELSE holder[j]]

Next ==
  \/ \E lost \in SUBSET Jobs : Recover(lost)
  \/ \E j \in Jobs : \/ Submit(j) \/ Done(j) \/ Fail(j) \/ Reopen(j)
                     \/ Withdraw(j) \/ Stopped(j)
                     \/ \E w \in Workers : Take(w, j)

Spec == Init /\ [][Next]_vars
=============================================================================
