---------------------------- MODULE WorkerRegistry ----------------------------
(***************************************************************************)
(* The workers row of one DQ_WORKER_ID, and the processes that run under   *)
(* that id one after the other or, while a container is being replaced,    *)
(* side by side: register_worker, heartbeat_worker, begin_drain and        *)
(* stop_worker, as run_forever and _drain call them.                       *)
(*                                                                         *)
(* Each process keeps the version its last successful call returned.  The  *)
(* SELECT and the UPDATE of register_worker are separate statements at     *)
(* READ COMMITTED, so another process may write between them.              *)
(***************************************************************************)
EXTENDS Naturals

CONSTANTS
  Processes, NoProcess,
  LostReplies,  \* whether a commit can succeed although the caller sees an error
  MaxVersion    \* bound of the model: the changes of the row

ASSUME RegistryAssumption ==
  NoProcess \notin Processes /\ LostReplies \in BOOLEAN /\ MaxVersion \in Nat

VARIABLES
  state,    \* the row's state, "NONE" before it is inserted
  version,  \* the row's version
  process,  \* each process: "off", "registering", "running", "draining", "ended"
  known,    \* the version each process presents
  foundRow, \* whether its SELECT in register_worker found a row
  current   \* the process that registered last

registryVars == <<state, version, process, known, foundRow, current>>

ProcessPoints == {"off", "registering", "running", "draining", "ended"}
States == {"NONE", "RUNNING", "DRAINING", "STOPPED"}

RegistryInit ==
  /\ state = "NONE" /\ version = 0
  /\ process = [p \in Processes |-> "off"]
  /\ known = [p \in Processes |-> 0]
  /\ foundRow = [p \in Processes |-> FALSE]
  /\ current = NoProcess

ProcessGoto(p, point) == process' = [process EXCEPT ![p] = point]

\* Mutant: an UPDATE that does not compare the version.
Update_AnyVersion(p, from, to) ==
  /\ state \in from /\ version < MaxVersion
  /\ state' = to
  /\ version' = version + 1
  /\ known' = [known EXCEPT ![p] = version + 1]

\* UPDATE ... WHERE version = known, which returns the new version
Update(p, from, to) ==
  /\ state \in from /\ version = known[p] /\ version < MaxVersion
  /\ state' = to
  /\ version' = version + 1
  /\ known' = [known EXCEPT ![p] = version + 1]

Unmatched(p, from) == ~ (state \in from /\ version = known[p])

\* Mutant: the caller keeps the version before the one it read.
RegisterRead_OneBehind(p) ==
  /\ process[p] = "off"
  /\ known' = [known EXCEPT ![p] = version - 1]
  /\ foundRow' = [foundRow EXCEPT ![p] = state # "NONE"]
  /\ ProcessGoto(p, "registering")
  /\ UNCHANGED <<state, version, current>>

RegisterRead(p) ==
  /\ process[p] = "off"
  /\ known' = [known EXCEPT ![p] = version]
  /\ foundRow' = [foundRow EXCEPT ![p] = state # "NONE"]
  /\ ProcessGoto(p, "registering")
  /\ UNCHANGED <<state, version, current>>

\* The INSERT fails on the primary key if another process inserted meanwhile.
RegisterWrite(p) ==
  /\ process[p] = "registering"
  /\ \/ /\ ~ foundRow[p] /\ state = "NONE"
        /\ state' = "RUNNING"
        /\ UNCHANGED <<version, known>>
     \/ foundRow[p] /\ Update(p, States, "RUNNING")
  /\ current' = p
  /\ ProcessGoto(p, "running")
  /\ UNCHANGED foundRow

\* The error leaves run_forever: the process ends.
RegisterFails(p) ==
  /\ process[p] = "registering"
  /\ IF foundRow[p] THEN version # known[p] ELSE state # "NONE"
  /\ ProcessGoto(p, "ended")
  /\ UNCHANGED <<state, version, known, foundRow, current>>

\* A heartbeat that fails is logged and tried again with the same version.
Heartbeat(p) ==
  /\ process[p] = "running"
  /\ Update(p, {"RUNNING"}, "RUNNING")
  /\ UNCHANGED <<process, foundRow, current>>

\* The database commits, but the connection breaks before the process learns it.
HeartbeatReplyLost(p) ==
  /\ LostReplies
  /\ process[p] = "running"
  /\ state = "RUNNING" /\ version = known[p] /\ version < MaxVersion
  /\ version' = version + 1
  /\ UNCHANGED <<state, process, known, foundRow, current>>

\* _drain ignores every error and ends.
BeginDrain(p) ==
  /\ process[p] = "running"
  /\ \/ Update(p, {"RUNNING"}, "DRAINING") /\ ProcessGoto(p, "draining")
     \/ Unmatched(p, {"RUNNING"}) /\ ProcessGoto(p, "ended") /\ UNCHANGED <<state, version, known>>
  /\ UNCHANGED <<foundRow, current>>

StopWorker(p) ==
  /\ process[p] = "draining"
  /\ \/ Update(p, {"RUNNING", "DRAINING"}, "STOPPED")
     \/ Unmatched(p, {"RUNNING", "DRAINING"}) /\ UNCHANGED <<state, version, known>>
  /\ ProcessGoto(p, "ended")
  /\ UNCHANGED <<foundRow, current>>

\* An error out of run_once, or the end of the process from outside.
ProcessCrashes(p) ==
  /\ process[p] \in {"registering", "running", "draining"}
  /\ ProcessGoto(p, "ended")
  /\ UNCHANGED <<state, version, known, foundRow, current>>

RegistryNext ==
  \E p \in Processes :
    \/ RegisterRead(p) \/ RegisterWrite(p) \/ RegisterFails(p)
    \/ Heartbeat(p) \/ HeartbeatReplyLost(p)
    \/ BeginDrain(p) \/ StopWorker(p) \/ ProcessCrashes(p)

RegistrySpec == RegistryInit /\ [][RegistryNext]_registryVars

-----------------------------------------------------------------------------
(* Properties *)

\* Every variable has its type.
RegistryTypeOK ==
  /\ state \in States
  /\ version \in 0..MaxVersion
  /\ process \in [Processes -> ProcessPoints]
  /\ known \in [Processes -> 0..MaxVersion]
  /\ foundRow \in [Processes -> BOOLEAN]
  /\ current \in Processes \cup {NoProcess}

\* The row says DRAINING or STOPPED only if the process that registered last is
\* itself on its way out: a process that is being replaced cannot take its
\* successor out of service with its own begin_drain and stop_worker.
SuccessorStaysInService ==
  state \in {"DRAINING", "STOPPED"} => process[current] \in {"draining", "ended"}
=============================================================================
