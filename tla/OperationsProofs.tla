-------------------------- MODULE OperationsProofs ---------------------------
(***************************************************************************)
(* Proofs about MCOperations, for any number of sources' requests,         *)
(* commands, tables, officers, issues and callers: the invariants and the  *)
(* step properties of activation, discovery, retention and tickets.        *)
(*                                                                         *)
(* Each part has an inductive invariant of its own.  Their common pattern: *)
(* what a command read in one transaction and carries to the next is       *)
(* either compared again there (by version, revision or status), or says   *)
(* something of the past that the steps of others cannot undo.             *)
(***************************************************************************)
EXTENDS MCOperations, TLAPS

-----------------------------------------------------------------------------
(* The registry of workers *)

\* Nobody but the process that registered last can take the row out of service.  The argument
\* is the version: every registration but the INSERT raises it above whatever the other
\* processes know, and before the INSERT there are no others that run.

InService == {"running", "draining"}

\* The row does not exist before somebody has registered.
FirstOne ==
  state = "NONE" =>
    version = 0 /\ \A p \in Processes : process[p] \notin InService /\ ~ foundRow[p]

\* Who registered last is on record, and past its registration.
CurrentOne == state # "NONE" => current \in Processes /\ process[current] \notin {"off", "registering"}

\* Nobody knows a version the row has not reached, and of those in service only the
\* process that registered last can know the row's own.
OnlyCurrentKnows ==
  \A p \in Processes : /\ known[p] <= version
                       /\ process[p] \in InService /\ p # current => known[p] < version

RegistryInv ==
  RegistryTypeOK /\ FirstOne /\ CurrentOne /\ OnlyCurrentKnows /\ SuccessorStaysInService

LEMMA RegistryInitInv == RegistryInit => RegistryInv
<1> SUFFICES ASSUME RegistryInit PROVE RegistryInv
  OBVIOUS
<1>1. RegistryTypeOK
  BY RegistryAssumption DEF RegistryInit, RegistryTypeOK, ProcessPoints, States
<1>2. FirstOne /\ CurrentOne /\ OnlyCurrentKnows /\ SuccessorStaysInService
  BY DEF RegistryInit, FirstOne, CurrentOne, OnlyCurrentKnows, SuccessorStaysInService, InService
<1> QED BY <1>1, <1>2 DEF RegistryInv

\* Versions and what is known of them are numbers.
LEMMA RegistryNumbers ==
  ASSUME RegistryInv
  PROVE  /\ version \in Nat /\ MaxVersion \in Nat /\ version <= MaxVersion
         /\ \A p \in Processes : known[p] \in Nat /\ known[p] <= version
<1>1. version \in 0..MaxVersion /\ known \in [Processes -> 0..MaxVersion] /\ MaxVersion \in Nat
  BY RegistryAssumption DEF RegistryInv, RegistryTypeOK
<1>2. version \in Nat /\ version <= MaxVersion /\ \A p \in Processes : known[p] \in Nat
  BY <1>1
<1> QED BY <1>1, <1>2 DEF RegistryInv, OnlyCurrentKnows

\* A step of p that leaves the row and the last registration alone: p does not
\* come into service, or stops being there.
LEMMA RowStays ==
  ASSUME RegistryInv, NEW p \in Processes, NEW q \in ProcessPoints,
         ProcessGoto(p, q), UNCHANGED <<state, version, known, foundRow, current>>,
         q = "ended", process[p] # "off"
  PROVE  RegistryInv'
<1>1. process' = [process EXCEPT ![p] = "ended"] /\ process \in [Processes -> ProcessPoints]
  BY DEF ProcessGoto, RegistryInv, RegistryTypeOK
<1>2. RegistryTypeOK'
  BY <1>1 DEF RegistryInv, RegistryTypeOK, ProcessPoints
<1>3. FirstOne' /\ CurrentOne'
  BY <1>1 DEF RegistryInv, FirstOne, CurrentOne, InService
<1>4. OnlyCurrentKnows'
  BY <1>1 DEF RegistryInv, OnlyCurrentKnows, InService
<1>5. SuccessorStaysInService'
  <2>1. state \in {"DRAINING", "STOPPED"} =>
          process[current] \in {"draining", "ended"} /\ current \in Processes
    BY DEF RegistryInv, SuccessorStaysInService, CurrentOne
  <2> QED BY <1>1, <2>1 DEF SuccessorStaysInService
<1> QED BY <1>2, <1>3, <1>4, <1>5 DEF RegistryInv

LEMMA RegisterReadInv ==
  ASSUME RegistryInv, NEW p \in Processes, RegisterRead(p)
  PROVE  RegistryInv'
<1>1. /\ process' = [process EXCEPT ![p] = "registering"] /\ process[p] = "off"
      /\ known' = [known EXCEPT ![p] = version]
      /\ foundRow' = [foundRow EXCEPT ![p] = state # "NONE"]
      /\ UNCHANGED <<state, version, current>>
  BY DEF RegisterRead, ProcessGoto
<1>2. /\ process \in [Processes -> ProcessPoints] /\ known \in [Processes -> 0..MaxVersion]
      /\ foundRow \in [Processes -> BOOLEAN]
  BY DEF RegistryInv, RegistryTypeOK
<1>3. RegistryTypeOK'
  BY <1>1 DEF RegistryInv, RegistryTypeOK, ProcessPoints
<1>4. FirstOne' /\ CurrentOne'
  <2>1. FirstOne'
    BY <1>1, <1>2 DEF RegistryInv, FirstOne, InService
  <2>2. CurrentOne'
    BY <1>1, <1>2 DEF RegistryInv, CurrentOne
  <2> QED BY <2>1, <2>2
<1>5. OnlyCurrentKnows'
  BY <1>1, <1>2, RegistryNumbers DEF RegistryInv, OnlyCurrentKnows, InService
<1>6. SuccessorStaysInService'
  BY <1>1, <1>2 DEF RegistryInv, SuccessorStaysInService, CurrentOne
<1> QED BY <1>3, <1>4, <1>5, <1>6 DEF RegistryInv

\* An UPDATE that matched makes what p knows the row's version, above what the others know.
LEMMA UpdateKnown ==
  ASSUME RegistryInv, NEW p \in Processes, NEW from, NEW to \in States \ {"NONE"}, Update(p, from, to)
  PROVE  /\ version' \in 0..MaxVersion /\ known' \in [Processes -> 0..MaxVersion]
         /\ state' = to /\ version = known[p] /\ version' = version + 1 /\ known'[p] = version'
         /\ \A q \in Processes : q # p => known'[q] = known[q] /\ known'[q] < version'
<1>1. /\ version < MaxVersion /\ version = known[p] /\ version' = version + 1 /\ state' = to
      /\ known' = [known EXCEPT ![p] = version + 1]
  BY DEF Update
<1>2. /\ version \in Nat /\ MaxVersion \in Nat
      /\ \A q \in Processes : known[q] \in Nat /\ known[q] <= version
  BY RegistryNumbers
<1>3. known \in [Processes -> 0..MaxVersion]
  BY DEF RegistryInv, RegistryTypeOK
<1>4. version + 1 \in 0..MaxVersion
  BY <1>1, <1>2
<1>5. known' \in [Processes -> 0..MaxVersion] /\ known'[p] = version + 1
  BY <1>1, <1>3, <1>4
<1>6. \A q \in Processes : q # p => known'[q] = known[q] /\ known'[q] < version'
  BY <1>1, <1>2, <1>3
<1> QED BY <1>1, <1>4, <1>5, <1>6

LEMMA RegisterWriteInv ==
  ASSUME RegistryInv, NEW p \in Processes, RegisterWrite(p)
  PROVE  RegistryInv'
<1>1. /\ process' = [process EXCEPT ![p] = "running"] /\ process[p] = "registering"
      /\ current' = p /\ foundRow' = foundRow
  BY DEF RegisterWrite, ProcessGoto
<1>2. /\ process \in [Processes -> ProcessPoints] /\ process' \in [Processes -> ProcessPoints]
      /\ process'[p] = "running" /\ \A q \in Processes : q # p => process'[q] = process[q]
  BY <1>1 DEF RegistryInv, RegistryTypeOK, ProcessPoints
<1>3. /\ state' = "RUNNING" /\ version' \in 0..MaxVersion /\ known' \in [Processes -> 0..MaxVersion]
      /\ OnlyCurrentKnows'
  <2>1. CASE ~ foundRow[p] /\ state = "NONE" /\ state' = "RUNNING" /\ UNCHANGED <<version, known>>
    <3>1. \A q \in Processes : process[q] \notin InService
      BY <2>1 DEF RegistryInv, FirstOne
    <3>2. OnlyCurrentKnows'
      BY <2>1, <3>1, <1>1, <1>2 DEF RegistryInv, OnlyCurrentKnows, InService
    <3> QED BY <2>1, <3>2 DEF RegistryInv, RegistryTypeOK
  <2>2. CASE foundRow[p] /\ Update(p, States, "RUNNING")
    <3>1. /\ version' \in 0..MaxVersion /\ known' \in [Processes -> 0..MaxVersion] /\ state' = "RUNNING"
          /\ known'[p] = version' /\ \A q \in Processes : q # p => known'[q] < version'
      BY <2>2, UpdateKnown DEF States
    <3>2. version' \in Nat
      BY <3>1, RegistryAssumption
    <3> QED BY <3>1, <3>2, <1>1 DEF OnlyCurrentKnows
  <2> QED BY <2>1, <2>2 DEF RegisterWrite
<1>4. RegistryTypeOK'
  BY <1>1, <1>2, <1>3 DEF RegistryInv, RegistryTypeOK, States
<1>5. FirstOne' /\ CurrentOne' /\ SuccessorStaysInService'
  BY <1>1, <1>2, <1>3 DEF FirstOne, CurrentOne, SuccessorStaysInService
<1> QED BY <1>3, <1>4, <1>5 DEF RegistryInv

LEMMA RegisterFailsInv ==
  ASSUME RegistryInv, NEW p \in Processes, RegisterFails(p) \/ ProcessCrashes(p)
  PROVE  RegistryInv'
<1>1. /\ process[p] # "off" /\ ProcessGoto(p, "ended")
      /\ UNCHANGED <<state, version, known, foundRow, current>>
  BY DEF RegisterFails, ProcessCrashes
<1> QED BY <1>1, RowStays DEF ProcessPoints

\* A process in service that knows the row's version is the one that registered last.
LEMMA WhoKnowsIsCurrent ==
  ASSUME RegistryInv, NEW p \in Processes, process[p] \in InService, version = known[p]
  PROVE  p = current /\ state # "NONE"
BY RegistryNumbers DEF RegistryInv, OnlyCurrentKnows, FirstOne

\* A heartbeat, whether its answer arrives or not.
LEMMA HeartbeatInv ==
  ASSUME RegistryInv, NEW p \in Processes, Heartbeat(p) \/ HeartbeatReplyLost(p)
  PROVE  RegistryInv'
<1>1. UNCHANGED <<process, foundRow, current>> /\ process[p] = "running"
  BY DEF Heartbeat, HeartbeatReplyLost
<1>2. /\ state' = "RUNNING" /\ version' \in 0..MaxVersion /\ known' \in [Processes -> 0..MaxVersion]
      /\ OnlyCurrentKnows'
  <2>1. CASE Heartbeat(p)
    <3>1. /\ version' \in 0..MaxVersion /\ known' \in [Processes -> 0..MaxVersion] /\ state' = "RUNNING"
          /\ version = known[p]
          /\ known'[p] = version' /\ \A q \in Processes : q # p => known'[q] < version'
      BY <2>1, UpdateKnown DEF Heartbeat, States
    <3>2. version' \in Nat /\ p = current
      BY <3>1, <1>1, WhoKnowsIsCurrent, RegistryAssumption DEF InService
    <3> QED BY <3>1, <3>2, <1>1 DEF OnlyCurrentKnows
  <2>2. CASE HeartbeatReplyLost(p)
    <3>1. /\ state = "RUNNING" /\ version < MaxVersion /\ version' = version + 1
          /\ UNCHANGED <<state, known>>
      BY <2>2 DEF HeartbeatReplyLost
    <3>2. /\ version \in Nat /\ MaxVersion \in Nat
          /\ \A q \in Processes : known[q] \in Nat /\ known[q] <= version
      BY RegistryNumbers
    <3>3. version' \in 0..MaxVersion /\ \A q \in Processes : known'[q] < version' /\ known'[q] <= version'
      BY <3>1, <3>2
    <3> QED BY <3>1, <3>3, <1>1 DEF RegistryInv, RegistryTypeOK, OnlyCurrentKnows
  <2> QED BY <2>1, <2>2
<1>3. RegistryTypeOK'
  BY <1>1, <1>2 DEF RegistryInv, RegistryTypeOK, States
<1>4. state # "NONE"
  BY <1>1 DEF RegistryInv, FirstOne, InService
<1>5. FirstOne' /\ CurrentOne' /\ SuccessorStaysInService'
  BY <1>1, <1>2, <1>4 DEF RegistryInv, FirstOne, CurrentOne, SuccessorStaysInService
<1> QED BY <1>2, <1>3, <1>5 DEF RegistryInv

\* begin_drain and stop_worker: the row follows only the process that registered last.
LEMMA LeaveInv ==
  ASSUME RegistryInv, NEW p \in Processes, BeginDrain(p) \/ StopWorker(p)
  PROVE  RegistryInv'
<1>1. UNCHANGED <<foundRow, current>> /\ process[p] \in InService
  BY DEF BeginDrain, StopWorker, InService
<1>2. CASE UNCHANGED <<state, version, known>> /\ ProcessGoto(p, "ended")
  BY <1>1, <1>2, RowStays DEF ProcessPoints, InService
<1>3. ASSUME NEW from, NEW to \in {"DRAINING", "STOPPED"}, NEW q \in {"draining", "ended"},
             Update(p, from, to), ProcessGoto(p, q)
      PROVE  RegistryInv'
  <2>1. /\ version' \in 0..MaxVersion /\ known' \in [Processes -> 0..MaxVersion] /\ state' = to
        /\ version = known[p]
        /\ known'[p] = version' /\ \A r \in Processes : r # p => known'[r] < version'
    BY <1>3, UpdateKnown DEF States
  <2>2. version' \in Nat /\ p = current
    BY <2>1, <1>1, WhoKnowsIsCurrent, RegistryAssumption
  <2>3. /\ process' \in [Processes -> ProcessPoints] /\ process'[p] = q
    BY <1>3 DEF ProcessGoto, RegistryInv, RegistryTypeOK, ProcessPoints
  <2>4. RegistryTypeOK'
    BY <2>1, <2>3, <1>1 DEF RegistryInv, RegistryTypeOK, States
  <2>5. FirstOne' /\ CurrentOne' /\ SuccessorStaysInService'
    BY <2>1, <2>2, <2>3, <1>1 DEF FirstOne, CurrentOne, SuccessorStaysInService
  <2>6. OnlyCurrentKnows'
    BY <2>1, <2>2, <1>1 DEF OnlyCurrentKnows
  <2> QED BY <2>4, <2>5, <2>6 DEF RegistryInv
<1>4. CASE Update(p, {"RUNNING"}, "DRAINING") /\ ProcessGoto(p, "draining")
  BY <1>3, <1>4
<1>5. CASE Update(p, {"RUNNING", "DRAINING"}, "STOPPED") /\ ProcessGoto(p, "ended")
  BY <1>3, <1>5
<1> QED BY <1>2, <1>4, <1>5 DEF BeginDrain, StopWorker

LEMMA RegistryIsInductive == RegistryInv /\ [RegistryNext]_registryVars => RegistryInv'
<1> SUFFICES ASSUME RegistryInv, [RegistryNext]_registryVars PROVE RegistryInv'
  OBVIOUS
<1>1. CASE UNCHANGED registryVars
  BY <1>1 DEF registryVars, RegistryInv, RegistryTypeOK, FirstOne, CurrentOne, OnlyCurrentKnows,
              SuccessorStaysInService
<1>2. CASE RegistryNext
  BY <1>2, RegisterReadInv, RegisterWriteInv, RegisterFailsInv, HeartbeatInv, LeaveInv
     DEF RegistryNext
<1> QED BY <1>1, <1>2

LEMMA RegistryInvariant == RegistrySpec => []RegistryInv
BY RegistryInitInv, RegistryIsInductive, PTL DEF RegistrySpec

\* Every variable keeps its type.
THEOREM RegistryTypeCorrect == RegistrySpec => []RegistryTypeOK
<1>1. RegistryInv => RegistryTypeOK
  BY DEF RegistryInv
<1> QED BY <1>1, RegistryInvariant, PTL

\* However many processes replace each other, none takes its successor out of service.
THEOREM SuccessorKeepsRow == RegistrySpec => []SuccessorStaysInService
<1>1. RegistryInv => SuccessorStaysInService
  BY DEF RegistryInv
<1> QED BY <1>1, RegistryInvariant, PTL

-----------------------------------------------------------------------------
(* Data sources *)

\* What a command carries from its read to its transaction.
SourceCarries(m) ==
  /\ m.step \in {"none", "tested", "record", "revision", "promote", "request", "decide",
                 "finish", "deactivate"}
  /\ m.step \in {"tested", "record"} => m.revision \in Revisions /\ m.ok \in BOOLEAN
  /\ m.step = "record" => /\ m.found \in SourceStatuses
                          /\ m.status = TestOutcome(m.ok, m.found)
  /\ m.step = "revision" => m.number \in Revisions /\ m.base \in Revisions
  /\ m.step = "promote" => m.number \in Revisions /\ m.ok \in BOOLEAN
  /\ m.step = "request" => /\ m.request \in SourceRequests /\ m.row \in SourceRequestRow
                           /\ m.row.status = "PENDING"
  /\ m.step = "decide" => /\ m.request \in SourceRequests /\ m.by \in SourceCheckers
                          /\ m.turns \in {"ACTIVE", "INACTIVE"} /\ m.to \in {"APPROVED", "REJECTED"}
  /\ m.step = "finish" => m.request \in SourceRequests /\ m.to \in {"WITHDRAWN", "EXPIRED"}

SourceTypes ==
  /\ source \in [status : SourceStatuses, revision : Revisions]
  /\ lastTest \in [revision : Revisions, ok : BOOLEAN]
  /\ tested \subseteq Revisions
  /\ revisions \in [Revisions -> [status : RevisionStatuses, base : Revisions]]
  /\ sourceRequest \in [SourceRequests -> SourceRequestRow \cup {NoSourceRequest}]
  /\ lapsed \subseteq SourceRequests
  /\ DOMAIN sourceCommand = SourceCommands
  /\ \A c \in SourceCommands : SourceCarries(sourceCommand[c])

\* Every connection but the first has been promoted by a test, and a source that has still
\* its first one has been tested for no other.
TestedInForce ==
  /\ revisions[1].status = "PROMOTED"
  /\ source.status \in {"ACTIVE", "TEST_SUCCEEDED", "INACTIVE"} \/ source.revision # 1 =>
       source.revision \in tested
  /\ \A c \in SourceCommands :
       sourceCommand[c].step \in {"tested", "record"} /\ source.revision = 1 =>
         sourceCommand[c].revision = 1

\* A request that is being made has no row, and nobody else makes it; one that is being decided
\* has a row of somebody else.
RequestsApart ==
  \A c \in SourceCommands :
    /\ sourceCommand[c].step = "request" =>
         /\ sourceRequest[sourceCommand[c].request] = NoSourceRequest
         /\ \A d \in SourceCommands \ {c} :
              sourceCommand[d].step = "request" => sourceCommand[d].request # sourceCommand[c].request
    /\ sourceCommand[c].step = "decide" =>
         /\ sourceRequest[sourceCommand[c].request] # NoSourceRequest
         /\ sourceRequest[sourceCommand[c].request].maker # sourceCommand[c].by

SourceInv == SourceTypes /\ TestedInForce /\ RequestsApart

LEMMA SourceInitInv == SourceInit => SourceInv
<1> SUFFICES ASSUME SourceInit PROVE SourceInv
  OBVIOUS
<1>1. 1 \in Revisions
  BY SourceAssumption DEF Revisions
<1>2. SourceTypes
  BY <1>1 DEF SourceInit, SourceTypes, SourceCarries, SourceStatuses, RevisionStatuses, NoRevision,
             IdleCommand
<1>3. TestedInForce /\ RequestsApart
  BY <1>1 DEF SourceInit, TestedInForce, RequestsApart, IdleCommand
<1> QED BY <1>2, <1>3 DEF SourceInv

\* A read changes nothing but what its command carries.
LEMMA OpensInv ==
  ASSUME SourceInv, NEW c \in SourceCommands, NEW m, Opens(c, m), SourceCarries(m),
         m.step \in {"tested", "record"} => m.revision = source.revision,
         m.step = "request" => UnusedSourceRequest(m.request),
         m.step = "decide" => MayDecide(m.request, m.by),
         m.step # "record"
  PROVE  SourceInv'
<1>1. /\ sourceCommand' = [sourceCommand EXCEPT ![c] = m] /\ sourceCommand[c].step = "none"
      /\ UNCHANGED <<source, lastTest, tested, revisions, sourceRequest, lapsed>>
  BY DEF Opens, IdleCommand
<1>2. sourceCommand'[c] = m /\ \A d \in SourceCommands \ {c} : sourceCommand'[d] = sourceCommand[d]
  BY <1>1 DEF SourceInv, SourceTypes
<1>3. SourceTypes'
  BY <1>1, <1>2 DEF SourceInv, SourceTypes, SourceCarries
<1>4. TestedInForce'
  BY <1>1, <1>2 DEF SourceInv, TestedInForce
<1>5. RequestsApart'
  BY <1>1, <1>2 DEF SourceInv, RequestsApart, UnusedSourceRequest, MayDecide, NoSourceRequest
<1> QED BY <1>3, <1>4, <1>5 DEF SourceInv

\* A command that ends carries nothing further.
LEMMA CommandEnds ==
  ASSUME SourceInv, NEW c \in SourceCommands, sourceCommand' = [sourceCommand EXCEPT ![c] = IdleCommand]
  PROVE  /\ sourceCommand'[c].step = "none" /\ DOMAIN sourceCommand' = SourceCommands
         /\ \A d \in SourceCommands : SourceCarries(sourceCommand'[d])
         /\ \A d \in SourceCommands : sourceCommand'[d].step # "none" =>
              d # c /\ sourceCommand'[d] = sourceCommand[d]
<1>1. SourceCarries(IdleCommand)
  BY DEF SourceCarries, IdleCommand
<1>2. \A d \in SourceCommands : SourceCarries(sourceCommand[d])
  BY DEF SourceInv, SourceTypes
<1>3. DOMAIN sourceCommand = SourceCommands
  BY DEF SourceInv, SourceTypes
<1>4. sourceCommand'[c] = IdleCommand /\ \A d \in SourceCommands \ {c} : sourceCommand'[d] = sourceCommand[d]
  BY <1>3
<1> HIDE DEF SourceCarries
<1> QED BY <1>1, <1>2, <1>3, <1>4 DEF IdleCommand

\* What a command that stands at a step carries.
LEMMA SourceCarried ==
  ASSUME SourceInv, NEW c \in SourceCommands
  PROVE  SourceCarries(sourceCommand[c])
BY DEF SourceInv, SourceTypes

\* A command that ends, and leaves rows and makers of requests as they are for the others.
LEMMA EndsApart ==
  ASSUME SourceInv, NEW c \in SourceCommands, sourceCommand' = [sourceCommand EXCEPT ![c] = IdleCommand],
         \A d \in SourceCommands : d # c /\ sourceCommand[d].step \in {"request", "decide"} =>
           LET r == sourceCommand[d].request
           IN /\ sourceRequest'[r] = NoSourceRequest <=> sourceRequest[r] = NoSourceRequest
              /\ sourceRequest'[r].maker = sourceRequest[r].maker
  PROVE  RequestsApart'
<1> SUFFICES ASSUME NEW d \in SourceCommands, sourceCommand'[d].step # "none"
             PROVE  /\ sourceCommand'[d].step = "request" =>
                         /\ sourceRequest'[sourceCommand'[d].request] = NoSourceRequest
                         /\ \A e \in SourceCommands \ {d} :
                              sourceCommand'[e].step = "request" =>
                                sourceCommand'[e].request # sourceCommand'[d].request
                    /\ sourceCommand'[d].step = "decide" =>
                         /\ sourceRequest'[sourceCommand'[d].request] # NoSourceRequest
                         /\ sourceRequest'[sourceCommand'[d].request].maker # sourceCommand'[d].by
  BY DEF RequestsApart
<1>1. d # c /\ sourceCommand'[d] = sourceCommand[d]
  BY CommandEnds, Zenon
<1>2. \A e \in SourceCommands \ {d} : sourceCommand'[e].step = "request" =>
        sourceCommand[e].step = "request" /\ sourceCommand'[e].request = sourceCommand[e].request
  BY CommandEnds, Zenon
<1> QED BY <1>1, <1>2 DEF SourceInv, RequestsApart

LEMMA RecordTestInv ==
  ASSUME SourceInv, NEW c \in SourceCommands, RecordTest(c)
  PROVE  SourceInv'
<1> DEFINE t == sourceCommand[c]
<1>1. /\ t.step = "record" /\ sourceCommand' = [sourceCommand EXCEPT ![c] = IdleCommand]
      /\ source' = [source EXCEPT !.status = t.status]
      /\ lastTest' = [revision |-> t.revision, ok |-> t.ok]
      /\ tested' = IF t.ok THEN tested \cup {t.revision} ELSE tested
      /\ UNCHANGED <<revisions, sourceRequest, lapsed>>
  BY DEF RecordTest, Commits
<1>2. /\ t.revision \in Revisions /\ t.ok \in BOOLEAN /\ t.found \in SourceStatuses
      /\ t.status = TestOutcome(t.ok, t.found)
  BY <1>1, SourceCarried DEF SourceCarries
<1>3. /\ t.status \in SourceStatuses
      /\ t.status \in {"ACTIVE", "TEST_SUCCEEDED", "INACTIVE"} => t.ok
  BY <1>2 DEF TestOutcome, SourceStatuses
<1>4. /\ source \in [status : SourceStatuses, revision : Revisions]
      /\ source' \in [status : SourceStatuses, revision : Revisions]
      /\ source'.revision = source.revision /\ source'.status = t.status
  BY <1>1, <1>3 DEF SourceInv, SourceTypes
<1>5. SourceTypes'
  BY <1>1, <1>2, <1>4, CommandEnds, Zenon DEF SourceInv, SourceTypes
<1>6. TestedInForce'
  <2>1. source.revision # 1 => source.revision \in tested
    BY DEF SourceInv, TestedInForce
  <2>2. source.revision = 1 => t.revision = 1
    BY <1>1 DEF SourceInv, TestedInForce
  <2> QED BY <1>1, <1>3, <1>4, <2>1, <2>2, CommandEnds, Zenon DEF SourceInv, TestedInForce
<1>7. RequestsApart'
  BY <1>1, EndsApart, Zenon
<1> QED BY <1>5, <1>6, <1>7 DEF SourceInv

LEMMA TestReadsStatusInv ==
  ASSUME SourceInv, NEW c \in SourceCommands, TestReadsStatus(c)
  PROVE  SourceInv'
<1> DEFINE t == sourceCommand[c]
           m == [step |-> "record", revision |-> t.revision, ok |-> t.ok, found |-> source.status,
                 status |-> TestOutcome(t.ok, source.status)]
<1>1. /\ t.step = "tested" /\ sourceCommand' = [sourceCommand EXCEPT ![c] = m]
      /\ UNCHANGED <<source, lastTest, tested, revisions, sourceRequest, lapsed>>
  BY DEF TestReadsStatus
<1>2. t.revision \in Revisions /\ t.ok \in BOOLEAN
  BY <1>1, SourceCarried DEF SourceCarries
<1>3. source.status \in SourceStatuses
  BY DEF SourceInv, SourceTypes
<1>4. SourceCarries(m)
  BY <1>2, <1>3 DEF SourceCarries
<1>5. sourceCommand'[c] = m /\ \A d \in SourceCommands \ {c} : sourceCommand'[d] = sourceCommand[d]
  BY <1>1 DEF SourceInv, SourceTypes
<1>6. SourceTypes'
  <2>1. \A d \in SourceCommands : SourceCarries(sourceCommand'[d])
    BY <1>4, <1>5, SourceCarried
  <2> QED BY <1>1, <2>1 DEF SourceInv, SourceTypes
<1>7. TestedInForce'
  BY <1>1, <1>5 DEF SourceInv, TestedInForce
<1>8. RequestsApart'
  BY <1>1, <1>5 DEF SourceInv, RequestsApart
<1> QED BY <1>6, <1>7, <1>8 DEF SourceInv

LEMMA AddRevisionInv ==
  ASSUME SourceInv, NEW c \in SourceCommands, AddRevision(c)
  PROVE  SourceInv'
<1> DEFINE n == sourceCommand[c].number
<1>1. /\ sourceCommand[c].step = "revision" /\ sourceCommand' = [sourceCommand EXCEPT ![c] = IdleCommand]
      /\ revisions' = IF revisions[n].status # "none" THEN revisions
                      ELSE [revisions EXCEPT ![n] = [status |-> "PENDING_TEST",
                                                     base |-> sourceCommand[c].base]]
      /\ UNCHANGED <<source, lastTest, tested, sourceRequest, lapsed>>
  BY DEF AddRevision, Commits
<1>2. n \in Revisions /\ sourceCommand[c].base \in Revisions
  BY <1>1, SourceCarried DEF SourceCarries
<1>3. /\ revisions' \in [Revisions -> [status : RevisionStatuses, base : Revisions]]
      /\ revisions'[1] = revisions[1]
  BY <1>1, <1>2 DEF SourceInv, SourceTypes, TestedInForce, RevisionStatuses
<1>4. SourceTypes'
  BY <1>1, <1>3, CommandEnds, Zenon DEF SourceInv, SourceTypes
<1>5. TestedInForce'
  BY <1>1, <1>3, CommandEnds, Zenon DEF SourceInv, TestedInForce
<1>6. RequestsApart'
  BY <1>1, EndsApart, Zenon
<1> QED BY <1>4, <1>5, <1>6 DEF SourceInv

\* Requests that are invalidated keep their maker, and no row comes or goes.
LEMMA InvalidatedRows ==
  ASSUME SourceInv, NEW n
  PROVE  /\ Invalidated(n) \in [SourceRequests -> SourceRequestRow \cup {NoSourceRequest}]
         /\ \A r \in SourceRequests :
              /\ Invalidated(n)[r] = NoSourceRequest <=> sourceRequest[r] = NoSourceRequest
              /\ Invalidated(n)[r].maker = sourceRequest[r].maker
              /\ Invalidated(n)[r] # sourceRequest[r] =>
                   sourceRequest[r].status = "PENDING" /\ Invalidated(n)[r].status = "INVALIDATED"
<1>1. ASSUME NEW r \in SourceRequests, sourceRequest[r].status = "PENDING"
      PROVE  LET row == [sourceRequest[r] EXCEPT !.status = "INVALIDATED"]
             IN /\ row \in SourceRequestRow /\ row # NoSourceRequest
                /\ row.maker = sourceRequest[r].maker /\ row.status = "INVALIDATED"
                /\ sourceRequest[r] # NoSourceRequest
  BY <1>1 DEF SourceInv, SourceTypes, NoSourceRequest, SourceRequestRow
<1>2. sourceRequest \in [SourceRequests -> SourceRequestRow \cup {NoSourceRequest}]
  BY DEF SourceInv, SourceTypes
<1> QED BY <1>1, <1>2, Zenon DEF Invalidated

LEMMA RecordRevisionTestInv ==
  ASSUME SourceInv, NEW c \in SourceCommands, RecordRevisionTest(c)
  PROVE  SourceInv'
<1> DEFINE n == sourceCommand[c].number
           ok == sourceCommand[c].ok
<1>1. /\ sourceCommand[c].step = "promote" /\ sourceCommand' = [sourceCommand EXCEPT ![c] = IdleCommand]
      /\ UNCHANGED lapsed
  BY DEF RecordRevisionTest, Commits
<1>2. n \in Revisions /\ ok \in BOOLEAN
  BY <1>1, SourceCarried DEF SourceCarries
<1>3. CASE Testable(n) /\ ok /\ source.revision = revisions[n].base
  <2>1. /\ revisions' = [revisions EXCEPT ![n].status = "PROMOTED"]
        /\ tested' = tested \cup {n}
        /\ source' = [status |-> "TEST_SUCCEEDED", revision |-> n]
        /\ lastTest' = [revision |-> n, ok |-> TRUE]
        /\ sourceRequest' = Invalidated(n)
    BY <1>3 DEF RecordRevisionTest
  <2>2. n # 1
    BY <1>3 DEF Testable, SourceInv, TestedInForce
  <2>3. SourceTypes'
    <3>1. /\ source' \in [status : SourceStatuses, revision : Revisions]
          /\ lastTest' \in [revision : Revisions, ok : BOOLEAN]
          /\ tested' \subseteq Revisions /\ lapsed' \subseteq SourceRequests
      BY <1>1, <1>2, <2>1 DEF SourceInv, SourceTypes, SourceStatuses
    <3>2. revisions' \in [Revisions -> [status : RevisionStatuses, base : Revisions]]
      BY <1>2, <2>1 DEF SourceInv, SourceTypes, RevisionStatuses
    <3>3. sourceRequest' \in [SourceRequests -> SourceRequestRow \cup {NoSourceRequest}]
      BY <2>1, InvalidatedRows
    <3> QED BY <1>1, <3>1, <3>2, <3>3, CommandEnds, Zenon DEF SourceTypes
  <2>4. TestedInForce'
    <3>1. revisions'[1] = revisions[1]
      BY <1>2, <2>1, <2>2, SourceAssumption DEF SourceInv, SourceTypes, Revisions
    <3> QED BY <2>1, <2>2, <3>1 DEF SourceInv, TestedInForce
  <2>5. RequestsApart'
    <3>1. ASSUME NEW d \in SourceCommands, sourceCommand[d].step \in {"request", "decide"}
          PROVE  sourceCommand[d].request \in SourceRequests
      BY <3>1, SourceCarried DEF SourceCarries
    <3>2. \A r \in SourceRequests :
            /\ sourceRequest'[r] = NoSourceRequest <=> sourceRequest[r] = NoSourceRequest
            /\ sourceRequest'[r].maker = sourceRequest[r].maker
      BY <2>1, InvalidatedRows
    <3> QED BY <1>1, <3>1, <3>2, EndsApart, Zenon
  <2> QED BY <2>3, <2>4, <2>5 DEF SourceInv
<1>4. CASE ~(Testable(n) /\ ok /\ source.revision = revisions[n].base)
  <2>1. /\ revisions' = [revisions EXCEPT ![n].status = "TEST_FAILED"] /\ Testable(n)
        \/ UNCHANGED revisions
    BY <1>2, <1>4 DEF RecordRevisionTest
  <2>2. UNCHANGED <<source, lastTest, tested, sourceRequest>>
    BY <1>2, <1>4 DEF RecordRevisionTest
  <2>3. /\ revisions' \in [Revisions -> [status : RevisionStatuses, base : Revisions]]
        /\ revisions'[1] = revisions[1]
    <3>1. /\ revisions \in [Revisions -> [status : RevisionStatuses, base : Revisions]]
          /\ revisions[1].status = "PROMOTED"
      BY DEF SourceInv, SourceTypes, TestedInForce
    <3>2. Testable(n) => n # 1
      BY <3>1 DEF Testable
    <3>3. 1 \in Revisions /\ "TEST_FAILED" \in RevisionStatuses
      BY SourceAssumption DEF Revisions, RevisionStatuses
    <3>4. CASE UNCHANGED revisions
      BY <3>1, <3>4
    <3>5. CASE revisions' = [revisions EXCEPT ![n].status = "TEST_FAILED"] /\ n # 1
      BY <1>2, <3>1, <3>3, <3>5
    <3> QED BY <2>1, <3>2, <3>4, <3>5
  <2>4. SourceTypes'
    BY <1>1, <2>2, <2>3, CommandEnds, Zenon DEF SourceInv, SourceTypes
  <2>5. TestedInForce'
    BY <1>1, <2>2, <2>3, CommandEnds, Zenon DEF SourceInv, TestedInForce
  <2>6. RequestsApart'
    BY <1>1, <2>2, EndsApart, Zenon
  <2> QED BY <2>4, <2>5, <2>6 DEF SourceInv
<1> QED BY <1>3, <1>4

LEMMA AddSourceRequestInv ==
  ASSUME SourceInv, NEW c \in SourceCommands, AddSourceRequest(c)
  PROVE  SourceInv'
<1> DEFINE q == sourceCommand[c].request
           row == sourceCommand[c].row
<1>1. /\ sourceCommand[c].step = "request" /\ sourceCommand' = [sourceCommand EXCEPT ![c] = IdleCommand]
      /\ sourceRequest' \in {sourceRequest, [sourceRequest EXCEPT ![q] = row]}
      /\ UNCHANGED <<source, lastTest, tested, revisions, lapsed>>
  BY DEF AddSourceRequest, Commits
<1>2. q \in SourceRequests /\ row \in SourceRequestRow
  BY <1>1, SourceCarried DEF SourceCarries
<1>3. SourceTypes'
  BY <1>1, <1>2, CommandEnds, Zenon DEF SourceInv, SourceTypes
<1>4. TestedInForce'
  BY <1>1, CommandEnds, Zenon DEF SourceInv, TestedInForce
<1>5. RequestsApart'
  <2>1. ASSUME NEW d \in SourceCommands, d # c, sourceCommand[d].step \in {"request", "decide"}
        PROVE  /\ sourceCommand[d].request \in SourceRequests
               /\ sourceRequest'[sourceCommand[d].request] = sourceRequest[sourceCommand[d].request]
    <3>1. sourceCommand[d].request # q
      <4>1. sourceRequest[q] = NoSourceRequest
        BY <1>1 DEF SourceInv, RequestsApart
      <4>2. sourceCommand[d].step = "request" => sourceCommand[d].request # q
        BY <1>1, <2>1 DEF SourceInv, RequestsApart
      <4>3. sourceCommand[d].step = "decide" => sourceRequest[sourceCommand[d].request] # NoSourceRequest
        BY DEF SourceInv, RequestsApart
      <4> QED BY <2>1, <4>1, <4>2, <4>3
    <3>2. sourceCommand[d].request \in SourceRequests
      BY <2>1, SourceCarried DEF SourceCarries
    <3>3. DOMAIN sourceRequest = SourceRequests
      BY DEF SourceInv, SourceTypes
    <3> QED BY <1>1, <3>1, <3>2, <3>3
  <2> QED BY <1>1, <2>1, EndsApart, Zenon
<1> QED BY <1>3, <1>4, <1>5 DEF SourceInv

\* A change of the source and of one request by a transaction that decides or finishes it.
LEMMA RequestMovesInv ==
  ASSUME SourceInv, NEW c \in SourceCommands, NEW r \in SourceRequests, NEW row \in SourceRequestRow,
         sourceCommand' = [sourceCommand EXCEPT ![c] = IdleCommand],
         sourceRequest[r].status = "PENDING", row.maker = sourceRequest[r].maker,
         sourceRequest' = [sourceRequest EXCEPT ![r] = row],
         \/ UNCHANGED source
         \/ \E s \in {"ACTIVE", "INACTIVE"} : /\ source' = [source EXCEPT !.status = s]
                                             /\ source.status \in TurnsFrom(s),
         UNCHANGED <<lastTest, tested, revisions, lapsed>>
  PROVE  SourceInv'
<1>1. /\ source \in [status : SourceStatuses, revision : Revisions]
      /\ sourceRequest \in [SourceRequests -> SourceRequestRow \cup {NoSourceRequest}]
  BY DEF SourceInv, SourceTypes
<1>2. /\ source' \in [status : SourceStatuses, revision : Revisions]
      /\ source'.revision = source.revision
      /\ source'.status \in {"ACTIVE", "TEST_SUCCEEDED", "INACTIVE"} =>
           source.status \in {"ACTIVE", "TEST_SUCCEEDED", "INACTIVE"}
  BY <1>1 DEF SourceStatuses, TurnsFrom
<1>3. SourceTypes'
  BY <1>1, <1>2, CommandEnds, Zenon DEF SourceInv, SourceTypes
<1>4. TestedInForce'
  BY <1>2, CommandEnds, Zenon DEF SourceInv, TestedInForce
<1>5. RequestsApart'
  <2>1. sourceRequest[r] # NoSourceRequest /\ row # NoSourceRequest
    BY DEF NoSourceRequest, SourceRequestRow
  <2>2. \A q \in SourceRequests :
          /\ sourceRequest'[q] = NoSourceRequest <=> sourceRequest[q] = NoSourceRequest
          /\ sourceRequest'[q].maker = sourceRequest[q].maker
    BY <1>1, <2>1
  <2>3. ASSUME NEW d \in SourceCommands, sourceCommand[d].step \in {"request", "decide"}
        PROVE  sourceCommand[d].request \in SourceRequests
    BY <2>3, SourceCarried DEF SourceCarries
  <2> QED BY <2>2, <2>3, EndsApart, Zenon
<1> QED BY <1>3, <1>4, <1>5 DEF SourceInv

\* A transaction that finds nothing to do.
LEMMA NothingDoneInv ==
  ASSUME SourceInv, NEW c \in SourceCommands, sourceCommand' = [sourceCommand EXCEPT ![c] = IdleCommand],
         UNCHANGED <<source, lastTest, tested, revisions, sourceRequest, lapsed>>
  PROVE  SourceInv'
<1>1. SourceTypes'
  BY CommandEnds, Zenon DEF SourceInv, SourceTypes
<1>2. TestedInForce'
  BY CommandEnds, Zenon DEF SourceInv, TestedInForce
<1>3. RequestsApart'
  BY EndsApart, Zenon
<1> QED BY <1>1, <1>2, <1>3 DEF SourceInv

\* What a decision changes: the request, and with an approval the source.
LEMMA CommitDecisionChanges ==
  ASSUME SourceInv, NEW c \in SourceCommands, CommitDecision(c)
  PROVE  LET d == sourceCommand[c]  r == d.request
             row == [sourceRequest[r] EXCEPT !.status = d.to, !.checker = d.by]
         IN /\ sourceCommand' = [sourceCommand EXCEPT ![c] = IdleCommand]
            /\ UNCHANGED <<lastTest, tested, revisions, lapsed>>
            /\ d.step = "decide" /\ r \in SourceRequests /\ d.turns \in {"ACTIVE", "INACTIVE"}
            /\ d.to \in {"APPROVED", "REJECTED"}
            /\ \/ UNCHANGED <<source, sourceRequest>>
               \/ /\ sourceRequest[r].status = "PENDING" /\ sourceRequest[r] \in SourceRequestRow
                  /\ sourceRequest' = [sourceRequest EXCEPT ![r] = row]
                  /\ row \in SourceRequestRow /\ row.status = d.to /\ row.checker = d.by
                  /\ row.maker = sourceRequest[r].maker /\ row.maker # d.by
                  /\ row.revision = sourceRequest[r].revision
                  /\ IF d.to = "APPROVED"
                     THEN /\ source' = [source EXCEPT !.status = d.turns]
                          /\ source.revision = sourceRequest[r].revision
                          /\ source.status \in TurnsFrom(d.turns)
                     ELSE UNCHANGED source
<1> DEFINE d == sourceCommand[c]
           r == d.request
           row == [sourceRequest[r] EXCEPT !.status = d.to, !.checker = d.by]
<1>1. /\ sourceCommand' = [sourceCommand EXCEPT ![c] = IdleCommand] /\ d.step = "decide"
      /\ UNCHANGED <<lastTest, tested, revisions, lapsed>>
  BY DEF CommitDecision, Commits
<1>2. /\ r \in SourceRequests /\ d.turns \in {"ACTIVE", "INACTIVE"}
      /\ d.to \in {"APPROVED", "REJECTED"} /\ d.by \in SourceCheckers
  BY <1>1, SourceCarried DEF SourceCarries
<1>3. CASE UNCHANGED <<source, sourceRequest>>
  BY <1>1, <1>2, <1>3
<1>4. CASE ~UNCHANGED <<source, sourceRequest>>
  <2>1. /\ sourceRequest[r].status = "PENDING"
        /\ d.to = "APPROVED" => /\ source.revision = sourceRequest[r].revision
                                /\ source.status \in TurnsFrom(d.turns)
        /\ sourceRequest' = [sourceRequest EXCEPT ![r].status = d.to, ![r].checker = d.by]
        /\ source' = IF d.to = "APPROVED" THEN [source EXCEPT !.status = d.turns] ELSE source
    BY <1>4 DEF CommitDecision
  <2>2. sourceRequest \in [SourceRequests -> SourceRequestRow \cup {NoSourceRequest}]
    BY DEF SourceInv, SourceTypes
  <2>3. sourceRequest[r] \in SourceRequestRow
    BY <1>2, <2>1, <2>2 DEF NoSourceRequest
  <2>4. /\ row \in SourceRequestRow /\ row.status = d.to /\ row.checker = d.by
        /\ row.maker = sourceRequest[r].maker /\ row.revision = sourceRequest[r].revision
    BY <1>2, <2>3, Zenon DEF SourceRequestRow
  <2>5. sourceRequest' = [sourceRequest EXCEPT ![r] = row]
    BY <1>2, <2>1, <2>2, Zenon
  <2>6. sourceRequest[r].maker # d.by
    BY <1>1 DEF SourceInv, RequestsApart
  <2> QED BY <1>1, <1>2, <2>1, <2>3, <2>4, <2>5, <2>6, Zenon
<1> QED BY <1>3, <1>4

\* What finishing a request changes.
LEMMA FinishRequestChanges ==
  ASSUME SourceInv, NEW c \in SourceCommands, FinishRequest(c)
  PROVE  LET m == sourceCommand[c]  r == m.request
             row == [sourceRequest[r] EXCEPT !.status = m.to]
         IN /\ sourceCommand' = [sourceCommand EXCEPT ![c] = IdleCommand]
            /\ UNCHANGED <<source, lastTest, tested, revisions, lapsed>>
            /\ r \in SourceRequests /\ m.to \in {"WITHDRAWN", "EXPIRED"}
            /\ \/ UNCHANGED sourceRequest
               \/ /\ sourceRequest[r].status = "PENDING" /\ sourceRequest[r] \in SourceRequestRow
                  /\ sourceRequest' = [sourceRequest EXCEPT ![r] = row]
                  /\ row \in SourceRequestRow /\ row.maker = sourceRequest[r].maker
                  /\ row.status = m.to
<1> DEFINE m == sourceCommand[c]
           r == m.request
           row == [sourceRequest[r] EXCEPT !.status = m.to]
<1>1. /\ sourceCommand' = [sourceCommand EXCEPT ![c] = IdleCommand] /\ m.step = "finish"
      /\ UNCHANGED <<source, lastTest, tested, revisions, lapsed>>
      /\ sourceRequest' = IF sourceRequest[r].status = "PENDING"
                          THEN [sourceRequest EXCEPT ![r].status = m.to] ELSE sourceRequest
  BY DEF FinishRequest, Commits
<1>2. r \in SourceRequests /\ m.to \in {"WITHDRAWN", "EXPIRED"}
  BY <1>1, SourceCarried DEF SourceCarries
<1>3. sourceRequest \in [SourceRequests -> SourceRequestRow \cup {NoSourceRequest}]
  BY DEF SourceInv, SourceTypes
<1>4. CASE sourceRequest[r].status # "PENDING"
  BY <1>1, <1>2, <1>4
<1>5. CASE sourceRequest[r].status = "PENDING"
  <2>1. sourceRequest[r] \in SourceRequestRow
    BY <1>2, <1>3, <1>5 DEF NoSourceRequest
  <2>2. row \in SourceRequestRow /\ row.maker = sourceRequest[r].maker /\ row.status = m.to
    BY <1>2, <2>1 DEF SourceRequestRow
  <2>3. sourceRequest' = [sourceRequest EXCEPT ![r] = row]
    BY <1>1, <1>2, <1>3, <1>5
  <2> QED BY <1>1, <1>2, <1>5, <2>1, <2>2, <2>3
<1> QED BY <1>4, <1>5

LEMMA SourceReadsInv ==
  ASSUME SourceInv, NEW c \in SourceCommands,
         \/ CreateRevisionRead(c) \/ DeactivateRead(c)
         \/ \E ok \in BOOLEAN : TestConnection(c, ok) \/ \E n \in Revisions : TestRevision(c, n, ok)
         \/ \E r \in SourceRequests :
              \/ \E u \in SourceMakers :
                   RequestActivation(c, r, u) \/ RequestDeactivation(c, r, u) \/ WithdrawSource(c, r, u)
              \/ \E u \in SourceCheckers, turns \in {"ACTIVE", "INACTIVE"},
                    verdict \in {"APPROVED", "REJECTED"} : DecideRequest(c, r, u, turns, verdict)
              \/ ExpireSource(c, r)
  PROVE  SourceInv'
<1>1. source.status \in SourceStatuses /\ source.revision \in Revisions
  BY DEF SourceInv, SourceTypes
<1>2. CASE CreateRevisionRead(c) \/ DeactivateRead(c)
  <2>1. PICK m : /\ Opens(c, m)
                 /\ \/ /\ NextRevision \in Revisions
                       /\ m = [step |-> "revision", number |-> NextRevision, base |-> source.revision]
                    \/ m = [step |-> "deactivate", revision |-> source.revision]
    BY <1>2 DEF CreateRevisionRead, DeactivateRead
  <2> HIDE DEF NextRevision
  <2>2. SourceCarries(m) /\ m.step \notin {"tested", "record", "request", "decide"}
    BY <1>1, <2>1 DEF SourceCarries
  <2> QED BY <2>1, <2>2, OpensInv
<1>3. ASSUME NEW ok \in BOOLEAN, TestConnection(c, ok) \/ \E n \in Revisions : TestRevision(c, n, ok)
      PROVE  SourceInv'
  <2>1. PICK m : /\ Opens(c, m)
                 /\ \/ m = [step |-> "tested", revision |-> source.revision, ok |-> ok]
                    \/ \E n \in Revisions : m = [step |-> "promote", number |-> n, ok |-> ok]
    BY <1>3, Zenon DEF TestConnection, TestRevision
  <2>2. /\ SourceCarries(m) /\ m.step \notin {"record", "request", "decide"}
        /\ m.step = "tested" => m.revision = source.revision
    BY <1>1, <2>1 DEF SourceCarries
  <2> QED BY <2>1, <2>2, OpensInv
<1>4. ASSUME NEW r \in SourceRequests, NEW u \in SourceMakers,
             RequestActivation(c, r, u) \/ RequestDeactivation(c, r, u)
      PROVE  SourceInv'
  <2>1. PICK kind \in {"ACTIVATION", "DEACTIVATION"} : RequestsFor(c, r, u, kind)
    BY <1>4 DEF RequestActivation, RequestDeactivation
  <2> DEFINE row == [kind |-> kind, revision |-> source.revision, maker |-> u,
                     checker |-> "none", status |-> "PENDING"]
             m == [step |-> "request", request |-> r, row |-> row]
  <2>2. Opens(c, m) /\ UnusedSourceRequest(r)
    BY <2>1 DEF RequestsFor
  <2>3. row \in SourceRequestRow
    BY <1>1 DEF SourceRequestRow
  <2>4. SourceCarries(m)
    BY <2>3 DEF SourceCarries
  <2> QED BY <2>2, <2>4, OpensInv
<1>5. ASSUME NEW r \in SourceRequests, NEW u \in SourceCheckers, NEW turns \in {"ACTIVE", "INACTIVE"},
             NEW verdict \in {"APPROVED", "REJECTED"}, DecideRequest(c, r, u, turns, verdict)
      PROVE  SourceInv'
  <2> DEFINE m == [step |-> "decide", request |-> r, by |-> u, turns |-> turns, to |-> verdict]
  <2>1. Opens(c, m) /\ MayDecide(r, u)
    BY <1>5 DEF DecideRequest
  <2>2. SourceCarries(m)
    BY DEF SourceCarries
  <2> QED BY <2>1, <2>2, OpensInv
<1>6. ASSUME NEW r \in SourceRequests, ExpireSource(c, r) \/ \E u \in SourceMakers : WithdrawSource(c, r, u)
      PROVE  SourceInv'
  <2>1. PICK to \in {"WITHDRAWN", "EXPIRED"} : Opens(c, [step |-> "finish", request |-> r, to |-> to])
    BY <1>6 DEF ExpireSource, WithdrawSource
  <2>2. SourceCarries([step |-> "finish", request |-> r, to |-> to])
    BY DEF SourceCarries
  <2> QED BY <2>1, <2>2, OpensInv
<1> QED BY <1>2, <1>3, <1>4, <1>5, <1>6

LEMMA SourceNextInv == SourceInv /\ [SourceNext]_sourceVars => SourceInv'
<1> SUFFICES ASSUME SourceInv, [SourceNext]_sourceVars PROVE SourceInv'
  OBVIOUS
<1>1. ASSUME NEW c \in SourceCommands, CommitDecision(c) PROVE SourceInv'
  <2> DEFINE d == sourceCommand[c]
             row == [sourceRequest[d.request] EXCEPT !.status = d.to, !.checker = d.by]
  <2>1. CASE UNCHANGED <<source, sourceRequest>>
    BY <1>1, <2>1, CommitDecisionChanges, NothingDoneInv
  <2>2. CASE ~UNCHANGED <<source, sourceRequest>>
    <3>1. /\ d.request \in SourceRequests /\ row \in SourceRequestRow
          /\ sourceCommand' = [sourceCommand EXCEPT ![c] = IdleCommand]
          /\ sourceRequest[d.request].status = "PENDING" /\ row.maker = sourceRequest[d.request].maker
          /\ sourceRequest' = [sourceRequest EXCEPT ![d.request] = row]
          /\ d.turns \in {"ACTIVE", "INACTIVE"}
          /\ \/ UNCHANGED source
             \/ source' = [source EXCEPT !.status = d.turns] /\ source.status \in TurnsFrom(d.turns)
          /\ UNCHANGED <<lastTest, tested, revisions, lapsed>>
      BY <1>1, <2>2, CommitDecisionChanges, Zenon
    <3> HIDE DEF row
    <3> QED BY <3>1, RequestMovesInv, Zenon
  <2> QED BY <2>1, <2>2
<1>6. ASSUME NEW c \in SourceCommands, FinishRequest(c) PROVE SourceInv'
  <2> DEFINE m == sourceCommand[c]
             row == [sourceRequest[m.request] EXCEPT !.status = m.to]
  <2>1. CASE UNCHANGED sourceRequest
    BY <1>6, <2>1, FinishRequestChanges, NothingDoneInv
  <2>2. CASE ~UNCHANGED sourceRequest
    <3>1. /\ m.request \in SourceRequests /\ row \in SourceRequestRow
          /\ sourceCommand' = [sourceCommand EXCEPT ![c] = IdleCommand]
          /\ sourceRequest[m.request].status = "PENDING" /\ row.maker = sourceRequest[m.request].maker
          /\ sourceRequest' = [sourceRequest EXCEPT ![m.request] = row]
          /\ UNCHANGED <<source, lastTest, tested, revisions, lapsed>>
      BY <1>6, <2>2, FinishRequestChanges
    <3> HIDE DEF row
    <3> QED BY <3>1, RequestMovesInv, Zenon
  <2> QED BY <2>1, <2>2
<1>2. ASSUME NEW c \in SourceCommands, LoseCommand(c) PROVE SourceInv'
  BY <1>2, NothingDoneInv, Zenon DEF LoseCommand
<1>3. ASSUME NEW c \in SourceCommands, DeactivateSource(c) PROVE SourceInv'
  <2>1. /\ sourceCommand' = [sourceCommand EXCEPT ![c] = IdleCommand]
        /\ \/ UNCHANGED source
           \/ source.status = "ACTIVE" /\ source' = [source EXCEPT !.status = "INACTIVE"]
        /\ UNCHANGED <<lastTest, tested, revisions, sourceRequest, lapsed>>
    BY <1>3 DEF DeactivateSource, Commits
  <2>2. /\ source' \in [status : SourceStatuses, revision : Revisions]
        /\ source'.revision = source.revision
        /\ source'.status \in {"ACTIVE", "TEST_SUCCEEDED", "INACTIVE"} =>
             source.status \in {"ACTIVE", "TEST_SUCCEEDED", "INACTIVE"}
    BY <2>1 DEF SourceInv, SourceTypes, SourceStatuses
  <2>3. SourceTypes'
    BY <2>1, <2>2, CommandEnds, Zenon DEF SourceInv, SourceTypes
  <2>4. TestedInForce'
    BY <2>1, <2>2, CommandEnds, Zenon DEF SourceInv, TestedInForce
  <2>5. RequestsApart'
    BY <2>1, EndsApart, Zenon
  <2> QED BY <2>3, <2>4, <2>5 DEF SourceInv
<1>4. ASSUME NEW r \in SourceRequests, Lapses(r) PROVE SourceInv'
  <2>1. SourceTypes'
    BY <1>4 DEF Lapses, SourceInv, SourceTypes
  <2>2. TestedInForce' /\ RequestsApart'
    BY <1>4 DEF Lapses, SourceInv, TestedInForce, RequestsApart
  <2> QED BY <2>1, <2>2 DEF SourceInv
<1>5. CASE UNCHANGED sourceVars
  BY <1>5 DEF sourceVars, SourceInv, SourceTypes, TestedInForce, RequestsApart
<1> QED
  BY <1>1, <1>2, <1>3, <1>4, <1>5, <1>6, SourceReadsInv, TestReadsStatusInv, RecordTestInv,
     AddRevisionInv, RecordRevisionTestInv, AddSourceRequestInv DEF SourceNext, SourceCommand

LEMMA SourceInvSafe == SourceInv => SourceTypeOK /\ ActiveConnectionPassed
<1> SUFFICES ASSUME SourceInv PROVE SourceTypeOK /\ ActiveConnectionPassed
  OBVIOUS
<1>1. SourceTypeOK
  BY DEF SourceInv, SourceTypes, SourceTypeOK, SourceCarries
<1>2. ActiveConnectionPassed
  BY DEF SourceInv, TestedInForce, ActiveConnectionPassed
<1> QED BY <1>1, <1>2

\* The transactions that write to the source or to requests.
LEMMA SourceWriters ==
  ASSUME [SourceNext]_sourceVars
  PROVE  \/ UNCHANGED <<source, sourceRequest>>
         \/ \E c \in SourceCommands :
              \/ RecordTest(c) \/ RecordRevisionTest(c) \/ AddSourceRequest(c) \/ CommitDecision(c)
              \/ FinishRequest(c) \/ DeactivateSource(c)
<1>1. ASSUME NEW c, NEW m, Opens(c, m) PROVE UNCHANGED <<source, sourceRequest>>
  BY <1>1 DEF Opens
<1>2. ASSUME NEW c, CreateRevisionRead(c) \/ DeactivateRead(c)
      PROVE  UNCHANGED <<source, sourceRequest>>
  BY <1>1, <1>2 DEF CreateRevisionRead, DeactivateRead
<1>3. ASSUME NEW c, NEW ok, TestConnection(c, ok) \/ \E n \in Revisions : TestRevision(c, n, ok)
      PROVE  UNCHANGED <<source, sourceRequest>>
  BY <1>1, <1>3, Zenon DEF TestConnection, TestRevision
<1>4. ASSUME NEW c, NEW r, NEW u,
             RequestActivation(c, r, u) \/ RequestDeactivation(c, r, u) \/ WithdrawSource(c, r, u)
      PROVE  UNCHANGED <<source, sourceRequest>>
  BY <1>1, <1>4 DEF RequestActivation, RequestDeactivation, RequestsFor, WithdrawSource
<1>5. ASSUME NEW c, NEW r,
             \/ ExpireSource(c, r)
             \/ \E u \in SourceCheckers, turns \in {"ACTIVE", "INACTIVE"},
                   verdict \in {"APPROVED", "REJECTED"} : DecideRequest(c, r, u, turns, verdict)
      PROVE  UNCHANGED <<source, sourceRequest>>
  BY <1>1, <1>5, Zenon DEF ExpireSource, DecideRequest
<1>6. ASSUME NEW c, TestReadsStatus(c) \/ AddRevision(c) \/ LoseCommand(c)
      PROVE  UNCHANGED <<source, sourceRequest>>
  BY <1>6 DEF TestReadsStatus, AddRevision, LoseCommand
<1>7. ASSUME NEW r, Lapses(r) PROVE UNCHANGED <<source, sourceRequest>>
  BY <1>7 DEF Lapses
<1>8. CASE UNCHANGED sourceVars
  BY <1>8 DEF sourceVars
<1> QED BY <1>2, <1>3, <1>4, <1>5, <1>6, <1>7, <1>8, Zenon DEF SourceNext, SourceCommand

\* Four transactions write to requests, and each changes pending ones only.
LEMMA SourceDecisionStep ==
  ASSUME SourceInv, [SourceNext]_sourceVars, NEW r \in SourceRequests,
         sourceRequest[r] # NoSourceRequest, sourceRequest'[r] # sourceRequest[r]
  PROVE  /\ sourceRequest[r].status = "PENDING"
         /\ sourceRequest'[r].status = "APPROVED" =>
              /\ source'.status # source.status /\ source'.revision = sourceRequest[r].revision
              /\ sourceRequest'[r].checker # sourceRequest[r].maker
<1> DEFINE Goal == /\ sourceRequest[r].status = "PENDING"
                   /\ sourceRequest'[r].status = "APPROVED" =>
                        /\ source'.status # source.status
                        /\ source'.revision = sourceRequest[r].revision
                        /\ sourceRequest'[r].checker # sourceRequest[r].maker
<1>1. PICK c \in SourceCommands :
        RecordRevisionTest(c) \/ AddSourceRequest(c) \/ CommitDecision(c) \/ FinishRequest(c)
  BY SourceWriters DEF RecordTest, DeactivateSource
<1>2. sourceRequest \in [SourceRequests -> SourceRequestRow \cup {NoSourceRequest}]
  BY DEF SourceInv, SourceTypes
<1>3. CASE RecordRevisionTest(c)
  <2>1. sourceRequest' = Invalidated(sourceCommand[c].number)
    BY <1>3 DEF RecordRevisionTest
  <2>2. sourceRequest[r].status = "PENDING" /\ sourceRequest'[r].status = "INVALIDATED"
    BY <2>1, InvalidatedRows
  <2> QED BY <2>2
<1>4. CASE AddSourceRequest(c)
  <2>1. /\ sourceCommand[c].step = "request"
        /\ sourceRequest' \in {sourceRequest, [sourceRequest EXCEPT
                                 ![sourceCommand[c].request] = sourceCommand[c].row]}
    BY <1>4 DEF AddSourceRequest, Commits
  <2>2. sourceRequest[sourceCommand[c].request] = NoSourceRequest
    BY <2>1 DEF SourceInv, RequestsApart
  <2>3. r # sourceCommand[c].request
    BY <2>2
  <2> QED BY <1>2, <2>1, <2>3
<1>5. CASE CommitDecision(c)
  <2> DEFINE d == sourceCommand[c]
             row == [sourceRequest[d.request] EXCEPT !.status = d.to, !.checker = d.by]
  <2>1. /\ sourceRequest[d.request].status = "PENDING" /\ d.request \in SourceRequests
        /\ sourceRequest' = [sourceRequest EXCEPT ![d.request] = row]
        /\ row.status = d.to /\ row.checker = d.by /\ sourceRequest[d.request].maker # d.by
        /\ d.turns \in {"ACTIVE", "INACTIVE"}
        /\ d.to = "APPROVED" => /\ source' = [source EXCEPT !.status = d.turns]
                                /\ source.revision = sourceRequest[d.request].revision
                                /\ source.status \in TurnsFrom(d.turns)
    BY <1>5, CommitDecisionChanges, Zenon
  <2> HIDE DEF row
  <2>2. r = d.request /\ sourceRequest'[r] = row
    BY <1>2, <2>1
  <2>3. source \in [status : SourceStatuses, revision : Revisions]
    BY DEF SourceInv, SourceTypes
  <2>4. d.to = "APPROVED" => source'.status # source.status /\ source'.revision = source.revision
    BY <2>1, <2>3 DEF TurnsFrom
  <2> QED BY <2>1, <2>2, <2>4
<1>6. CASE FinishRequest(c)
  <2> DEFINE m == sourceCommand[c]
             row == [sourceRequest[m.request] EXCEPT !.status = m.to]
  <2>1. /\ sourceRequest[m.request].status = "PENDING" /\ m.request \in SourceRequests
        /\ sourceRequest' = [sourceRequest EXCEPT ![m.request] = row]
        /\ row.status = m.to /\ m.to # "APPROVED"
    BY <1>6, FinishRequestChanges
  <2> HIDE DEF row
  <2>2. r = m.request /\ sourceRequest'[r] = row
    BY <1>2, <2>1
  <2> QED BY <2>1, <2>2
<1> QED BY <1>1, <1>3, <1>4, <1>5, <1>6

\* Of what makes a source active, a test writes back the status it has found.
LEMMA SourceActiveStep ==
  ASSUME SourceInv, [SourceNext]_sourceVars, source.status # "ACTIVE", source'.status = "ACTIVE"
  PROVE  \/ \E r \in SourceRequests : sourceRequest[r].status = "PENDING"
                                       /\ sourceRequest'[r].status = "APPROVED"
         \/ \E c \in SourceCommands : sourceCommand[c].step = "record"
                                       /\ sourceCommand[c].found = "ACTIVE"
<1>1. source \in [status : SourceStatuses, revision : Revisions]
  BY DEF SourceInv, SourceTypes
<1>2. PICK c \in SourceCommands :
        RecordTest(c) \/ RecordRevisionTest(c) \/ CommitDecision(c) \/ DeactivateSource(c)
  BY SourceWriters, Zenon DEF AddSourceRequest, FinishRequest
<1>3. CASE RecordTest(c)
  <2>1. /\ sourceCommand[c].step = "record"
        /\ source' = [source EXCEPT !.status = sourceCommand[c].status]
    BY <1>3 DEF RecordTest, Commits
  <2>2. /\ sourceCommand[c].ok \in BOOLEAN
        /\ sourceCommand[c].status = TestOutcome(sourceCommand[c].ok, sourceCommand[c].found)
    BY <2>1, SourceCarried DEF SourceCarries
  <2>3. sourceCommand[c].status = "ACTIVE"
    BY <1>1, <2>1
  <2>4. sourceCommand[c].found = "ACTIVE"
    BY <2>2, <2>3 DEF TestOutcome
  <2> QED BY <2>1, <2>4
<1>4. CASE RecordRevisionTest(c)
  BY <1>4 DEF RecordRevisionTest
<1>5. CASE DeactivateSource(c)
  BY <1>1, <1>5 DEF DeactivateSource
<1>6. CASE CommitDecision(c)
  <2> DEFINE d == sourceCommand[c]
             row == [sourceRequest[d.request] EXCEPT !.status = d.to, !.checker = d.by]
  <2>1. /\ sourceRequest[d.request].status = "PENDING" /\ d.request \in SourceRequests
        /\ sourceRequest' = [sourceRequest EXCEPT ![d.request] = row]
        /\ row.status = d.to /\ d.to = "APPROVED"
    BY <1>6, CommitDecisionChanges, Zenon
  <2> HIDE DEF row
  <2>2. sourceRequest \in [SourceRequests -> SourceRequestRow \cup {NoSourceRequest}]
    BY DEF SourceInv, SourceTypes
  <2>3. sourceRequest'[d.request] = row
    BY <2>1, <2>2
  <2> QED BY <2>1, <2>3
<1> QED BY <1>2, <1>3, <1>4, <1>5, <1>6

-----------------------------------------------------------------------------
(* Discoveries *)

DiffRow == [status : {"PENDING", "APPLIED"}, found : Contents, base : [Tables -> CatalogueRow],
            complete : BOOLEAN, entries : [Tables -> [Items -> Kinds]]]

\* The entries of a diff are those of what was found and what it was compared with.
Computed(r) == r.entries = Entries(r.base, r.found, r.complete)

DiscoveryRecord == [status : {"none", "QUEUED", "RUNNING"} \cup Settled, version : Nat]

\* The version tells the status: there is one way through the statuses.
DiscoveryRow(r) ==
  /\ r \in DiscoveryRecord
  /\ r.status = "QUEUED" <=> r.version = 1
  /\ r.status = "RUNNING" <=> r.version = 2
  /\ r.status \in Settled <=> r.version = 3

\* What a worker carries from one transaction to the next.
WorkerCarries(m) ==
  /\ m.step \in {"none", "start", "scan", "compare", "finish", "persist"}
  /\ m.step # "none" => m.of \in Discoveries
  /\ m.step = "start" => m.version = 1
  /\ m.step \in {"scan", "compare", "finish"} => m.version = 2
  /\ m.step = "compare" => m.complete \in BOOLEAN /\ m.found \in Contents
  /\ m.step \in {"finish", "persist"} => m.row \in DiffRow /\ m.row.status = "PENDING" /\ Computed(m.row)

Applying == [step : {"apply"}, of : Discoveries, selection : SUBSET (Tables \X Items),
             read : [Tables -> CatalogueRow]]

DiscoveryTypes ==
  /\ live \in SourceStates /\ changes \in Nat /\ changes <= MaxChanges
  /\ catalogue \in [Tables -> CatalogueRow]
  /\ discovery \in [Discoveries -> DiscoveryRecord] /\ \A d \in Discoveries : DiscoveryRow(discovery[d])
  /\ queued \subseteq Discoveries
  /\ DOMAIN discoverer = DiscoveryWorkers /\ \A w \in DiscoveryWorkers : WorkerCarries(discoverer[w])
  /\ diff \in [Discoveries -> DiffRow \cup {NoDiff}]
  /\ applier \in [DiffAppliers -> Applying \cup {Idle}]

\* A diff comes from the one worker that ended the discovery, and says what it compared.
OneDiffEach ==
  /\ \A w \in DiscoveryWorkers : discoverer[w].step = "persist" =>
       /\ discovery[discoverer[w].of].status \in {"SUCCESS", "PARTIAL"}
       /\ diff[discoverer[w].of] = NoDiff
       /\ \A v \in DiscoveryWorkers \ {w} :
            ~(discoverer[v].step = "persist" /\ discoverer[v].of = discoverer[w].of)
  /\ \A d \in Discoveries : diff[d] # NoDiff =>
       discovery[d].status \in {"SUCCESS", "PARTIAL"} /\ Computed(diff[d])

SelectionsListed ==
  \A a \in DiffAppliers : applier[a] # Idle =>
    diff[applier[a].of] # NoDiff /\ applier[a].selection \subseteq Listed(applier[a].of)

\* Rows do not vanish: what one catalogue has, a later one has.
Keeps(before, after) ==
  \A t \in Tables :
    /\ Known(before[t]) => Known(after[t])
    /\ \A f \in Columns : Known(before[t].fields[f]) => Known(after[t].fields[f])

ReadsKept == \A a \in DiffAppliers : applier[a] # Idle => Keeps(applier[a].read, catalogue)

DiscoveryInv == DiscoveryTypes /\ OneDiffEach /\ SelectionsListed /\ ReadsKept

LEMMA DiscoveryInitInv == DiscoveryInit => DiscoveryInv
<1> SUFFICES ASSUME DiscoveryInit PROVE DiscoveryInv
  OBVIOUS
<1>1. catalogue \in [Tables -> CatalogueRow] /\ live \in SourceStates
  BY DiscoveryAssumption DEF DiscoveryInit
<1>2. discovery \in [Discoveries -> DiscoveryRecord] /\ \A d \in Discoveries : DiscoveryRow(discovery[d])
  BY DEF DiscoveryInit, DiscoveryRow, DiscoveryRecord, Settled
<1>3. DOMAIN discoverer = DiscoveryWorkers /\ \A w \in DiscoveryWorkers : WorkerCarries(discoverer[w])
  BY DEF DiscoveryInit, WorkerCarries, Idle
<1>4. diff \in [Discoveries -> DiffRow \cup {NoDiff}] /\ applier \in [DiffAppliers -> Applying \cup {Idle}]
  BY DEF DiscoveryInit
<1>5. DiscoveryTypes
  BY <1>1, <1>2, <1>3, <1>4, DiscoveryAssumption DEF DiscoveryInit, DiscoveryTypes
<1>6. OneDiffEach /\ SelectionsListed /\ ReadsKept
  BY DEF DiscoveryInit, OneDiffEach, SelectionsListed, ReadsKept, Idle, NoDiff
<1> QED BY <1>5, <1>6 DEF DiscoveryInv

\* What appliers have read stays known while nobody writes the catalogue, or adds to it.
LEMMA ReadsStay ==
  ASSUME DiscoveryInv, Keeps(catalogue, catalogue'),
         \A a \in DiffAppliers : applier'[a] # Idle => applier'[a] = applier[a]
  PROVE  ReadsKept'
<1>1. SUFFICES ASSUME NEW a \in DiffAppliers, applier'[a] # Idle
               PROVE  Keeps(applier'[a].read, catalogue')
  BY DEF ReadsKept, Keeps
<1>2. Keeps(applier[a].read, catalogue) /\ applier'[a] = applier[a]
  BY <1>1 DEF DiscoveryInv, ReadsKept
<1> QED BY <1>2 DEF Keeps

LEMMA ReadsUnchanged ==
  ASSUME DiscoveryInv, UNCHANGED <<catalogue, applier>>
  PROVE  ReadsKept'
<1>1. Keeps(catalogue, catalogue')
  BY DEF Keeps
<1> QED BY <1>1, ReadsStay

\* A worker moves on and nothing else happens; it does not come by a diff to store.
LEMMA WorkerMovesInv ==
  ASSUME DiscoveryInv, NEW w \in DiscoveryWorkers, NEW m, WorkerCarries(m), m.step # "persist",
         discoverer' = [discoverer EXCEPT ![w] = m],
         UNCHANGED <<live, changes, catalogue, discovery, queued, diff, applier>>
  PROVE  DiscoveryInv'
<1>1. discoverer'[w] = m /\ \A v \in DiscoveryWorkers \ {w} : discoverer'[v] = discoverer[v]
  BY DEF DiscoveryInv, DiscoveryTypes
<1>2. \A v \in DiscoveryWorkers : WorkerCarries(discoverer'[v])
  BY <1>1 DEF DiscoveryInv, DiscoveryTypes
<1>3. \A v \in DiscoveryWorkers : WorkerCarries(discoverer[v])'
  BY <1>2 DEF WorkerCarries
<1>4. DiscoveryTypes'
  BY <1>3 DEF DiscoveryInv, DiscoveryTypes
<1>5. OneDiffEach'
  BY <1>1 DEF DiscoveryInv, OneDiffEach
<1>6. SelectionsListed'
  BY DEF DiscoveryInv, SelectionsListed, Listed
<1> QED BY <1>4, <1>5, <1>6, ReadsUnchanged DEF DiscoveryInv

LEMMA RequestDiscoveryInv ==
  ASSUME DiscoveryInv, NEW d \in Discoveries, RequestDiscovery(d)
  PROVE  DiscoveryInv'
<1>1. /\ discovery[d].status = "none"
      /\ discovery' = [discovery EXCEPT ![d] = [status |-> "QUEUED", version |-> 1]]
      /\ UNCHANGED <<live, changes, catalogue, queued, discoverer, diff, applier>>
  BY DEF RequestDiscovery
<1>2. DiscoveryRow([status |-> "QUEUED", version |-> 1])
  BY DEF DiscoveryRow, DiscoveryRecord, Settled
<1>3. /\ discovery'[d] = [status |-> "QUEUED", version |-> 1] /\ discovery' \in [Discoveries -> DiscoveryRecord]
      /\ \A e \in Discoveries \ {d} : discovery'[e] = discovery[e]
  BY <1>1, <1>2 DEF DiscoveryInv, DiscoveryTypes, DiscoveryRow
<1>4. \A e \in Discoveries : DiscoveryRow(discovery'[e])
  BY <1>2, <1>3 DEF DiscoveryInv, DiscoveryTypes
<1>5. \A e \in Discoveries : DiscoveryRow(discovery[e])'
  BY <1>4 DEF DiscoveryRow
<1>6. DiscoveryTypes'
  BY <1>1, <1>3, <1>5 DEF DiscoveryInv, DiscoveryTypes
<1>7. OneDiffEach'
  <2>1. \A w \in DiscoveryWorkers : discoverer[w].step = "persist" => discoverer[w].of \in Discoveries \ {d}
    BY <1>1 DEF DiscoveryInv, DiscoveryTypes, WorkerCarries, OneDiffEach
  <2> QED BY <1>1, <1>3, <2>1 DEF DiscoveryInv, OneDiffEach
<1>8. SelectionsListed'
  BY <1>1 DEF DiscoveryInv, SelectionsListed, Listed
<1> QED BY <1>1, <1>6, <1>7, <1>8, ReadsUnchanged DEF DiscoveryInv

LEMMA EnqueueDiscoveryInv ==
  ASSUME DiscoveryInv, NEW d \in Discoveries, EnqueueDiscovery(d)
  PROVE  DiscoveryInv'
<1>1. queued' = queued \cup {d} /\ UNCHANGED <<live, changes, catalogue, discovery, discoverer, diff, applier>>
  BY DEF EnqueueDiscovery
<1>2. DiscoveryTypes'
  BY <1>1 DEF DiscoveryInv, DiscoveryTypes, DiscoveryRow, WorkerCarries
<1>3. OneDiffEach' /\ SelectionsListed'
  BY <1>1 DEF DiscoveryInv, OneDiffEach, SelectionsListed, Listed
<1> QED BY <1>1, <1>2, <1>3, ReadsUnchanged DEF DiscoveryInv

\* A worker changes the status of its discovery, and may come by its diff to store.
LEMMA StatusMovesInv ==
  ASSUME DiscoveryInv, NEW w \in DiscoveryWorkers, NEW d \in Discoveries, discoverer[w].of = d,
         discovery[d].status \notin Settled, NEW r, DiscoveryRow(r),
         discovery' = [discovery EXCEPT ![d] = r], NEW m, WorkerCarries(m),
         discoverer' = [discoverer EXCEPT ![w] = m],
         m.step = "persist" => m.of = d /\ r.status \in {"SUCCESS", "PARTIAL"},
         UNCHANGED <<live, changes, catalogue, queued, diff, applier>>
  PROVE  DiscoveryInv'
<1>1. discoverer'[w] = m /\ \A v \in DiscoveryWorkers \ {w} : discoverer'[v] = discoverer[v]
  BY DEF DiscoveryInv, DiscoveryTypes
<1>2. discovery'[d] = r /\ \A e \in Discoveries \ {d} : discovery'[e] = discovery[e]
  BY DEF DiscoveryInv, DiscoveryTypes
<1>3. \A v \in DiscoveryWorkers : WorkerCarries(discoverer[v])'
  <2>1. \A v \in DiscoveryWorkers : WorkerCarries(discoverer'[v])
    BY <1>1 DEF DiscoveryInv, DiscoveryTypes
  <2> QED BY <2>1 DEF WorkerCarries
<1>4. \A e \in Discoveries : DiscoveryRow(discovery[e])'
  <2>1. \A e \in Discoveries : DiscoveryRow(discovery'[e])
    BY <1>2 DEF DiscoveryInv, DiscoveryTypes
  <2> QED BY <2>1 DEF DiscoveryRow
<1>5. DiscoveryTypes'
  <2>1. discovery' \in [Discoveries -> DiscoveryRecord]
    BY DEF DiscoveryRow, DiscoveryInv, DiscoveryTypes
  <2> QED BY <1>3, <1>4, <2>1 DEF DiscoveryInv, DiscoveryTypes
<1>6. diff[d] = NoDiff /\ \A v \in DiscoveryWorkers : ~(discoverer[v].step = "persist" /\ discoverer[v].of = d)
  BY DEF DiscoveryInv, OneDiffEach, Settled
<1>7. \A v \in DiscoveryWorkers : discoverer[v].step = "persist" => discoverer[v].of \in Discoveries
  BY DEF DiscoveryInv, DiscoveryTypes, WorkerCarries
<1>8. OneDiffEach'
  <2>1. ASSUME NEW v \in DiscoveryWorkers, discoverer'[v].step = "persist"
        PROVE  /\ discovery'[discoverer'[v].of].status \in {"SUCCESS", "PARTIAL"}
               /\ diff'[discoverer'[v].of] = NoDiff
               /\ \A u \in DiscoveryWorkers \ {v} :
                    ~(discoverer'[u].step = "persist" /\ discoverer'[u].of = discoverer'[v].of)
    <3>1. CASE v = w
      BY <1>1, <1>2, <1>6, <2>1, <3>1
    <3>2. CASE v # w
      BY <1>1, <1>2, <1>6, <1>7, <2>1, <3>2 DEF DiscoveryInv, OneDiffEach
    <3> QED BY <3>1, <3>2
  <2>2. ASSUME NEW e \in Discoveries, diff[e] # NoDiff
        PROVE  discovery'[e].status \in {"SUCCESS", "PARTIAL"} /\ Computed(diff[e])
    BY <1>2, <1>6, <2>2 DEF DiscoveryInv, OneDiffEach
  <2> QED BY <2>1, <2>2 DEF OneDiffEach, Computed
<1>9. SelectionsListed'
  BY DEF DiscoveryInv, SelectionsListed, Listed
<1> QED BY <1>5, <1>8, <1>9, ReadsUnchanged DEF DiscoveryInv

\* A worker at rest.
LEMMA IdleCarries == WorkerCarries(Idle) /\ Idle.step # "persist"
BY DEF WorkerCarries, Idle

LEMMA GetDiscoveryInv ==
  ASSUME DiscoveryInv, NEW w \in DiscoveryWorkers, NEW d \in Discoveries, GetDiscovery(w, d)
  PROVE  DiscoveryInv'
<1>1. discovery[d].version = 1
  BY DEF GetDiscovery, DiscoveryInv, DiscoveryTypes, DiscoveryRow
<1>2. WorkerCarries([step |-> "start", of |-> d, version |-> 1])
  BY DEF WorkerCarries
<1>3. discoverer' = [discoverer EXCEPT ![w] = [step |-> "start", of |-> d, version |-> 1]]
  BY <1>1 DEF GetDiscovery, Discovers
<1>4. UNCHANGED <<live, changes, catalogue, discovery, queued, diff, applier>>
  BY DEF GetDiscovery
<1> QED BY <1>2, <1>3, <1>4, WorkerMovesInv, Zenon

\* A status is updated by its version, or the worker gives up.
LEMMA UpdateStatusInv ==
  ASSUME DiscoveryInv, NEW w \in DiscoveryWorkers, NEW d \in Discoveries, discoverer[w].of = d,
         NEW revision \in {1, 2}, discoverer[w].version = revision, NEW status, NEW next,
         UpdateStatus(w, status, next), WorkerCarries(next),
         DiscoveryRow([status |-> status, version |-> revision + 1]),
         next.step = "persist" => next.of = d /\ status \in {"SUCCESS", "PARTIAL"},
         UNCHANGED <<live, changes, catalogue, queued, diff, applier>>
  PROVE  DiscoveryInv'
<1>1. CASE discovery[d].version = revision
  <2>1. /\ discovery' = [discovery EXCEPT ![d] = [status |-> status, version |-> revision + 1]]
        /\ discoverer' = [discoverer EXCEPT ![w] = next]
    BY <1>1 DEF UpdateStatus, Discovers
  <2>2. discovery[d].status \notin Settled
    BY <1>1 DEF DiscoveryInv, DiscoveryTypes, DiscoveryRow
  <2>4. PICK r : r = [status |-> status, version |-> revision + 1]
    OBVIOUS
  <2>3. /\ DiscoveryRow(r) /\ r.status = status /\ discovery' = [discovery EXCEPT ![d] = r]
        /\ next.step = "persist" => next.of = d /\ r.status \in {"SUCCESS", "PARTIAL"}
    BY <2>1, <2>4
  <2>5. \A m :
           WorkerCarries(m) /\ discoverer' = [discoverer EXCEPT ![w] = m]
             /\ (m.step = "persist" => m.of = d /\ r.status \in {"SUCCESS", "PARTIAL"}) => DiscoveryInv'
    BY <2>1, <2>2, <2>3, StatusMovesInv, Zenon
  <2> QED BY <2>1, <2>3, <2>5, Zenon
<1>2. CASE discovery[d].version # revision
  BY <1>2, IdleCarries, WorkerMovesInv DEF UpdateStatus, Discovers
<1> QED BY <1>1, <1>2

LEMMA StartDiscoveryInv ==
  ASSUME DiscoveryInv, NEW w \in DiscoveryWorkers, StartDiscovery(w)
  PROVE  DiscoveryInv'
<1>1. discoverer[w].step = "start" /\ discoverer[w].of \in Discoveries /\ discoverer[w].version = 1
  BY DEF StartDiscovery, DiscoveryInv, DiscoveryTypes, WorkerCarries
<1>2. PICK d \in Discoveries : d = discoverer[w].of
  BY <1>1
<1>3. PICK m : m = [step |-> "scan", of |-> d, version |-> 2]
  BY Zenon
<1>4. WorkerCarries(m) /\ m.step # "persist"
  BY <1>3 DEF WorkerCarries
<1>5. UpdateStatus(w, "RUNNING", m) /\ UNCHANGED <<live, changes, catalogue, queued, diff, applier>>
  BY <1>1, <1>2, <1>3 DEF StartDiscovery
<1>6. DiscoveryRow([status |-> "RUNNING", version |-> 1 + 1])
  BY DEF DiscoveryRow, DiscoveryRecord, Settled
<1> QED BY <1>1, <1>2, <1>4, <1>5, <1>6, UpdateStatusInv

LEMMA ScanFailsInv ==
  ASSUME DiscoveryInv, NEW w \in DiscoveryWorkers, ScanFails(w)
  PROVE  DiscoveryInv'
<1>1. discoverer[w].step = "scan" /\ discoverer[w].of \in Discoveries /\ discoverer[w].version = 2
  BY DEF ScanFails, DiscoveryInv, DiscoveryTypes, WorkerCarries
<1>2. DiscoveryRow([status |-> "TECHNICAL_ERROR", version |-> 2 + 1])
  BY DEF DiscoveryRow, DiscoveryRecord, Settled
<1>3. /\ UpdateStatus(w, "TECHNICAL_ERROR", Idle)
      /\ UNCHANGED <<live, changes, catalogue, queued, diff, applier>>
  BY DEF ScanFails
<1> QED BY <1>1, <1>2, <1>3, IdleCarries, UpdateStatusInv

\* What is found of a source, in whole or in part.
LEMMA FoundContents ==
  ASSUME NEW held \in Contents, NEW covered \in SUBSET Tables
  PROVE  [t \in covered \cap DOMAIN held |-> held[t]] \in Contents
<1>1. PICK S \in SUBSET Tables : held \in [S -> Layout]
  BY DEF Contents
<1>2. [t \in covered \cap DOMAIN held |-> held[t]] \in [covered \cap S -> Layout]
  BY <1>1
<1>3. covered \cap S \in SUBSET Tables
  OBVIOUS
<1> QED BY <1>2, <1>3 DEF Contents

LEMMA ScanInv ==
  ASSUME DiscoveryInv, NEW w \in DiscoveryWorkers, NEW covered \in SUBSET Tables, Scan(w, covered)
  PROVE  DiscoveryInv'
<1>1. /\ discoverer[w].of \in Discoveries /\ discoverer[w].version = 2 /\ live \in Contents
  BY DiscoveryAssumption DEF Scan, DiscoveryInv, DiscoveryTypes, WorkerCarries
<1>2. PICK found : found = [t \in covered \cap DOMAIN live |-> live[t]]
  BY Zenon
<1>3. found \in Contents
  BY <1>1, <1>2, FoundContents
<1>4. PICK m : m = [step |-> "compare", of |-> discoverer[w].of, version |-> discoverer[w].version,
                    complete |-> covered = Tables, found |-> found]
  BY Zenon
<1>5. WorkerCarries(m) /\ m.step # "persist"
  BY <1>1, <1>3, <1>4 DEF WorkerCarries
<1>6. /\ discoverer' = [discoverer EXCEPT ![w] = m]
      /\ UNCHANGED <<live, changes, catalogue, discovery, queued, diff, applier>>
  BY <1>2, <1>4 DEF Scan, Discovers
<1> QED BY <1>5, <1>6, WorkerMovesInv, Zenon

LEMMA StopDiscoveryInv ==
  ASSUME DiscoveryInv, NEW w \in DiscoveryWorkers, StopDiscovery(w)
  PROVE  DiscoveryInv'
BY IdleCarries, WorkerMovesInv, Zenon DEF StopDiscovery, Discovers

\* What the comparison with the catalogue gives.
LEMMA KindsOf ==
  ASSUME NEW base, NEW found, NEW t, NEW i
  PROVE  KindOf(base, found, t, i) \in Kinds
<1>1. \A row, isFound : DatasetKind(row, isFound) \in Kinds
  BY DEF DatasetKind, Kinds
<1>2. \A row, layout, f : FieldKind(row, layout, f) \in Kinds
  BY DEF FieldKind, Kinds
<1> QED BY <1>1, <1>2, Zenon DEF KindOf, Kinds

LEMMA EntriesAreKinds ==
  ASSUME NEW base, NEW found, NEW complete
  PROVE  Entries(base, found, complete) \in [Tables -> [Items -> Kinds]]
<1>1. \A t \in Tables, i \in Items :
        (IF KindOf(base, found, t, i) = "REMOVED" /\ ~ complete THEN "none"
         ELSE KindOf(base, found, t, i)) \in Kinds
  BY KindsOf DEF Kinds
<1> QED BY <1>1 DEF Entries

LEMMA CompareInv ==
  ASSUME DiscoveryInv, NEW w \in DiscoveryWorkers, Compare(w)
  PROVE  DiscoveryInv'
<1>1. /\ discoverer[w].of \in Discoveries /\ discoverer[w].version = 2
      /\ discoverer[w].complete \in BOOLEAN /\ discoverer[w].found \in Contents
      /\ catalogue \in [Tables -> CatalogueRow]
  BY DEF Compare, DiscoveryInv, DiscoveryTypes, WorkerCarries
<1>2. PICK entries : entries = Entries(catalogue, discoverer[w].found, discoverer[w].complete)
  BY Zenon
<1>3. PICK r : r = [status |-> "PENDING", found |-> discoverer[w].found, base |-> catalogue,
                    complete |-> discoverer[w].complete, entries |-> entries]
  BY Zenon
<1>4. entries \in [Tables -> [Items -> Kinds]]
  BY <1>2, EntriesAreKinds
<1>5. r \in DiffRow /\ Computed(r) /\ r.status = "PENDING"
  BY <1>1, <1>2, <1>3, <1>4 DEF DiffRow, Computed
<1>6. PICK m : m = [step |-> "finish", of |-> discoverer[w].of, version |-> discoverer[w].version,
                    row |-> r]
  BY Zenon
<1>7. WorkerCarries(m) /\ m.step # "persist"
  BY <1>1, <1>5, <1>6 DEF WorkerCarries
<1>8. /\ discoverer' = [discoverer EXCEPT ![w] = m]
      /\ UNCHANGED <<live, changes, catalogue, discovery, queued, diff, applier>>
  BY <1>2, <1>3, <1>6 DEF Compare, Discovers
<1> QED BY <1>7, <1>8, WorkerMovesInv, Zenon

LEMMA FinishDiscoveryInv ==
  ASSUME DiscoveryInv, NEW w \in DiscoveryWorkers, FinishDiscovery(w)
  PROVE  DiscoveryInv'
<1>1. /\ discoverer[w].of \in Discoveries /\ discoverer[w].version = 2 /\ discoverer[w].row \in DiffRow
      /\ discoverer[w].row.status = "PENDING" /\ Computed(discoverer[w].row)
  BY DEF FinishDiscovery, DiscoveryInv, DiscoveryTypes, WorkerCarries
<1>2. PICK m : m = [step |-> "persist", of |-> discoverer[w].of, row |-> discoverer[w].row]
  BY Zenon
<1>3. PICK status : status = IF discoverer[w].row.complete THEN "SUCCESS" ELSE "PARTIAL"
  OBVIOUS
<1>4. WorkerCarries(m) /\ m.of = discoverer[w].of
  BY <1>1, <1>2 DEF WorkerCarries, Computed
<1>5. DiscoveryRow([status |-> status, version |-> 2 + 1]) /\ status \in {"SUCCESS", "PARTIAL"}
  BY <1>3 DEF DiscoveryRow, DiscoveryRecord, Settled
<1>6. UpdateStatus(w, status, m) /\ UNCHANGED <<live, changes, catalogue, queued, diff, applier>>
  BY <1>2, <1>3 DEF FinishDiscovery
<1> QED BY <1>1, <1>4, <1>5, <1>6, UpdateStatusInv

\* What appliers chose stays listed: entries stay, and a diff that is there stays there.
LEMMA SelectionsStay ==
  ASSUME SelectionsListed, applier' = applier,
         \A d \in Discoveries : diff[d] # NoDiff => diff'[d] # NoDiff /\ diff'[d].entries = diff[d].entries,
         \A a \in DiffAppliers : applier[a] # Idle => applier[a].of \in Discoveries
  PROVE  SelectionsListed'
BY DEF SelectionsListed, Listed

LEMMA PersistDiffInv ==
  ASSUME DiscoveryInv, NEW w \in DiscoveryWorkers, PersistDiff(w)
  PROVE  DiscoveryInv'
<1>1. /\ discoverer[w].step = "persist" /\ discoverer[w].of \in Discoveries
      /\ discoverer[w].row \in DiffRow /\ Computed(discoverer[w].row)
  BY DEF PersistDiff, DiscoveryInv, DiscoveryTypes, WorkerCarries
<1>2. PICK d \in Discoveries : d = discoverer[w].of
  BY <1>1
<1>3. PICK row \in DiffRow : row = discoverer[w].row
  BY <1>1
<1>4. /\ diff' = [diff EXCEPT ![d] = row] /\ discoverer' = [discoverer EXCEPT ![w] = Idle]
      /\ UNCHANGED <<live, changes, catalogue, discovery, queued, applier>>
  BY <1>2, <1>3 DEF PersistDiff, Discovers
<1>5. /\ diff'[d] = row /\ diff' \in [Discoveries -> DiffRow \cup {NoDiff}]
      /\ \A e \in Discoveries \ {d} : diff'[e] = diff[e]
  BY <1>4 DEF DiscoveryInv, DiscoveryTypes
<1>6. discoverer'[w] = Idle /\ \A v \in DiscoveryWorkers \ {w} : discoverer'[v] = discoverer[v]
  BY <1>4 DEF DiscoveryInv, DiscoveryTypes
<1>7. \A v \in DiscoveryWorkers : WorkerCarries(discoverer[v])'
  <2>1. \A v \in DiscoveryWorkers : WorkerCarries(discoverer'[v])
    BY <1>6, IdleCarries DEF DiscoveryInv, DiscoveryTypes
  <2> QED BY <2>1 DEF WorkerCarries
<1>8. DiscoveryTypes'
  BY <1>4, <1>5, <1>7 DEF DiscoveryInv, DiscoveryTypes, DiscoveryRow
<1>9. /\ diff[d] = NoDiff /\ discovery[d].status \in {"SUCCESS", "PARTIAL"}
      /\ \A v \in DiscoveryWorkers \ {w} : ~(discoverer[v].step = "persist" /\ discoverer[v].of = d)
  BY <1>1, <1>2 DEF DiscoveryInv, OneDiffEach
<1>10. OneDiffEach'
  <2>1. ASSUME NEW v \in DiscoveryWorkers, discoverer'[v].step = "persist"
        PROVE  /\ discovery'[discoverer'[v].of].status \in {"SUCCESS", "PARTIAL"}
               /\ diff'[discoverer'[v].of] = NoDiff
               /\ \A u \in DiscoveryWorkers \ {v} :
                    ~(discoverer'[u].step = "persist" /\ discoverer'[u].of = discoverer'[v].of)
    <3>1. v # w /\ discoverer'[v] = discoverer[v]
      BY <1>6, <2>1, IdleCarries
    <3>2. discoverer[v].of \in Discoveries \ {d}
      BY <1>9, <2>1, <3>1 DEF DiscoveryInv, DiscoveryTypes, WorkerCarries
    <3> QED BY <1>4, <1>5, <1>6, <2>1, <3>1, <3>2, IdleCarries DEF DiscoveryInv, OneDiffEach
  <2>2. ASSUME NEW e \in Discoveries, diff'[e] # NoDiff
        PROVE  discovery'[e].status \in {"SUCCESS", "PARTIAL"} /\ Computed(diff'[e])
    BY <1>1, <1>3, <1>4, <1>5, <1>9, <2>2 DEF DiscoveryInv, OneDiffEach
  <2> QED BY <2>1, <2>2 DEF OneDiffEach, Computed
<1>11. SelectionsListed'
  <2>1. \A a \in DiffAppliers : applier[a] # Idle => applier[a].of \in Discoveries
    BY DEF DiscoveryInv, DiscoveryTypes, Applying
  <2>2. \A e \in Discoveries : diff[e] # NoDiff => diff'[e] # NoDiff /\ diff'[e].entries = diff[e].entries
    BY <1>5, <1>9
  <2> QED BY <1>4, <2>1, <2>2, SelectionsStay DEF DiscoveryInv
<1> QED BY <1>4, <1>8, <1>10, <1>11, ReadsUnchanged DEF DiscoveryInv

LEMMA ApplyReadDiffInv ==
  ASSUME DiscoveryInv, NEW a \in DiffAppliers, NEW d \in Discoveries,
         NEW chosen \in SUBSET (Tables \X Items), ApplyReadDiff(a, d, chosen)
  PROVE  DiscoveryInv'
<1>1. PICK m : m = [step |-> "apply", of |-> d, selection |-> chosen, read |-> catalogue]
  BY Zenon
<1>2. m \in Applying /\ m.of = d /\ m.selection = chosen /\ m.read = catalogue
  BY <1>1 DEF Applying, DiscoveryInv, DiscoveryTypes
<1>3. /\ applier' = [applier EXCEPT ![a] = m] /\ diff[d].status = "PENDING" /\ chosen \subseteq Listed(d)
      /\ UNCHANGED <<live, changes, catalogue, discovery, queued, discoverer, diff>>
  BY <1>1 DEF ApplyReadDiff
<1>4. diff[d] # NoDiff
  BY <1>3 DEF NoDiff
<1>5. applier' \in [DiffAppliers -> Applying \cup {Idle}]
  BY <1>2, <1>3 DEF DiscoveryInv, DiscoveryTypes
<1>6. DiscoveryTypes'
  BY <1>3, <1>5 DEF DiscoveryInv, DiscoveryTypes, DiscoveryRow, WorkerCarries
<1>7. OneDiffEach'
  BY <1>3 DEF DiscoveryInv, OneDiffEach
<1>8. applier'[a] = m /\ \A b \in DiffAppliers \ {a} : applier'[b] = applier[b]
  BY <1>3 DEF DiscoveryInv, DiscoveryTypes
<1>9. SelectionsListed'
  <2>1. \A e : Listed(e)' = Listed(e)
    BY <1>3 DEF Listed
  <2> QED BY <1>2, <1>3, <1>4, <1>8, <2>1 DEF DiscoveryInv, SelectionsListed
<1>10. ReadsKept'
  <2>1. \A b \in DiffAppliers : applier'[b] # Idle => Keeps(applier'[b].read, catalogue)
    BY <1>2, <1>8 DEF DiscoveryInv, ReadsKept, Keeps
  <2> QED BY <1>3, <2>1 DEF ReadsKept, Keeps
<1> QED BY <1>6, <1>7, <1>9, <1>10 DEF DiscoveryInv

\* What an entry that adds or changes a field is about was found.
LEMMA EntryFound ==
  ASSUME NEW r \in DiffRow, Computed(r), NEW t \in Tables, NEW f \in Columns,
         r.entries[t][f] \in {"ADDED", "CHANGED"}
  PROVE  t \in DOMAIN r.found /\ r.found[t][f].type \in Types
<1>1. f \in Items /\ f # Whole
  BY DiscoveryAssumption DEF Items
<1>2. KindOf(r.base, r.found, t, f) \in {"ADDED", "CHANGED"}
  BY <1>1 DEF Computed, Entries
<1>3. t \in DOMAIN r.found /\ FieldKind(r.base[t].fields[f], r.found[t], f) \in {"ADDED", "CHANGED"}
  BY <1>1, <1>2 DEF KindOf
<1>4. f \in DOMAIN r.found[t]
  BY <1>3 DEF FieldKind
<1>5. r.found[t] \in Layout
  BY <1>3 DEF DiffRow, Contents
<1>6. r.found[t][f] \in FoundField
  BY <1>4, <1>5 DEF Layout
<1> QED BY <1>3, <1>6 DEF FoundField

\* A row of the catalogue tells of each field that it is known or is not.
LEMMA FieldRows ==
  ASSUME NEW row \in CatalogueRow, NEW f \in Columns
  PROVE  row.fields[f] \in FieldRow /\ (Known(row.fields[f]) => Known(row))
BY DEF CatalogueRow, NotListed, FieldRow, NoField, Known

\* What applying entries leaves of a field, and of a dataset.
LEMMA FieldWritten ==
  ASSUME NEW row \in FieldRow, NEW read \in CatalogueRow, NEW chosen, NEW shown, NEW f \in Columns,
         Known(read.fields[f]) => Known(row), chosen[f] \in {"ADDED", "CHANGED"} => shown[f].type \in Types
  PROVE  /\ WrittenField(row, read, chosen, shown, f) \in FieldRow
         /\ Known(row) => Known(WrittenField(row, read, chosen, shown, f))
         /\ \/ WrittenField(row, read, chosen, shown, f) = row
            \/ Does("ADDED", read, chosen, f) \/ Does("CHANGED", read, chosen, f) \/ Known(read.fields[f])
<1>1. f # Whole /\ Unclassified \in Labels
  BY DiscoveryAssumption
<1>2. CASE Does("ADDED", read, chosen, f)
  <2>1. /\ chosen[f] = "ADDED"
        /\ ~ Does("CHANGED", read, chosen, f) /\ ~ Does("REMOVED", read, chosen, f)
    BY <1>2 DEF Does
  <2>2. WrittenField(row, read, chosen, shown, f)
          = [status |-> "ACTIVE", type |-> shown[f].type, label |-> Unclassified]
    BY <1>2, <2>1 DEF WrittenField
  <2> QED BY <1>1, <1>2, <2>1, <2>2 DEF FieldRow, Known
<1>3. CASE ~ Does("ADDED", read, chosen, f) /\ Does("CHANGED", read, chosen, f)
  <2>1. chosen[f] = "CHANGED" /\ Known(read.fields[f]) /\ ~ Does("REMOVED", read, chosen, f)
    BY <1>1, <1>3 DEF Does
  <2>2. read.fields[f].label \in Labels
    BY <2>1, FieldRows DEF FieldRow, NoField, Known
  <2>3. WrittenField(row, read, chosen, shown, f)
          = [status |-> "ACTIVE", type |-> shown[f].type, label |-> read.fields[f].label]
    BY <1>3, <2>1 DEF WrittenField
  <2> QED BY <1>3, <2>1, <2>2, <2>3 DEF FieldRow, Known
<1>4. CASE /\ ~ Does("ADDED", read, chosen, f) /\ ~ Does("CHANGED", read, chosen, f)
           /\ Does("REMOVED", read, chosen, f)
  <2>1. Known(read.fields[f])
    BY <1>1, <1>4 DEF Does
  <2>2. WrittenField(row, read, chosen, shown, f) = [row EXCEPT !.status = "INACTIVE"]
    BY <1>4 DEF WrittenField
  <2> QED BY <2>1, <2>2 DEF FieldRow, NoField, Known
<1>5. CASE /\ ~ Does("ADDED", read, chosen, f) /\ ~ Does("CHANGED", read, chosen, f)
           /\ ~ Does("REMOVED", read, chosen, f)
  BY <1>5 DEF WrittenField
<1> QED BY <1>2, <1>3, <1>4, <1>5

LEMMA RowWritten ==
  ASSUME NEW row \in CatalogueRow, NEW read \in CatalogueRow, NEW chosen, NEW shown,
         Known(read) => Known(row),
         \A f \in Columns : Known(read.fields[f]) => Known(row.fields[f]),
         \A f \in Columns : chosen[f] \in {"ADDED", "CHANGED"} => shown[f].type \in Types,
         NEW written, written = WrittenRow(row, read, chosen, shown)
  PROVE  /\ written \in CatalogueRow
         /\ Known(row) => Known(written)
         /\ \A f \in Columns : Known(row.fields[f]) => Known(written.fields[f])
<1> DEFINE touched == \E i \in Items : Does("ADDED", read, chosen, i) \/ Does("CHANGED", read, chosen, i)
<1>1. ASSUME NEW f \in Columns
      PROVE  /\ WrittenField(row.fields[f], read, chosen, shown, f) \in FieldRow
             /\ Known(row.fields[f]) => Known(WrittenField(row.fields[f], read, chosen, shown, f))
             /\ \/ WrittenField(row.fields[f], read, chosen, shown, f) = row.fields[f]
                \/ Does("ADDED", read, chosen, f) \/ Does("CHANGED", read, chosen, f)
                \/ Known(read.fields[f])
  BY FieldRows, FieldWritten
<1>2. PICK fields : fields = [f \in Columns |-> WrittenField(row.fields[f], read, chosen, shown, f)]
  BY Zenon
<1>3. PICK status : status = IF Does("REMOVED", read, chosen, Whole) THEN "INACTIVE"
                             ELSE IF touched THEN "ACTIVE" ELSE row.status
  BY Zenon
<1>4. written = [status |-> status, fields |-> fields]
  BY <1>2, <1>3 DEF WrittenRow
<1>5. fields \in [Columns -> FieldRow]
  BY <1>1, <1>2
<1>6. \A f \in Columns : Known(row.fields[f]) => Known(fields[f])
  BY <1>1, <1>2
<1>7. CASE status \in {"ACTIVE", "INACTIVE"}
  BY <1>4, <1>5, <1>6, <1>7 DEF CatalogueRow, Known
<1>8. CASE status \notin {"ACTIVE", "INACTIVE"}
  <2>1. ~ touched /\ status = row.status
    BY <1>3, <1>8
  <2>2. row = NotListed
    BY <1>8, <2>1 DEF CatalogueRow
  <2>3. \A f \in Columns : ~ Known(read.fields[f])
    BY <2>2 DEF NotListed, NoField, Known
  <2>4. \A f \in Columns : ~ Does("ADDED", read, chosen, f) /\ ~ Does("CHANGED", read, chosen, f)
    BY <2>1 DEF Items
  <2>5. \A f \in Columns : fields[f] = NoField
    BY <1>1, <1>2, <2>2, <2>3, <2>4 DEF NotListed
  <2>6. fields = [f \in Columns |-> NoField]
    BY <1>5, <2>5
  <2>7. written = NotListed
    BY <1>4, <2>1, <2>2, <2>6 DEF NotListed
  <2> QED BY <2>2, <2>7 DEF CatalogueRow
<1> QED BY <1>7, <1>8

\* What is chosen of a diff is in it.
LEMMA ChosenIsListed ==
  ASSUME DiscoveryInv, NEW a \in DiffAppliers, applier[a] # Idle, NEW d \in Discoveries,
         applier[a].of = d, NEW t \in Tables, NEW f \in Columns, ChosenOf(a, t)[f] \in {"ADDED", "CHANGED"}
  PROVE  t \in DOMAIN diff[d].found /\ diff[d].found[t][f].type \in Types
<1>1. diff[d] \in DiffRow /\ Computed(diff[d])
  BY DEF DiscoveryInv, DiscoveryTypes, SelectionsListed, OneDiffEach
<1>2. f \in Items
  BY DEF Items
<1>3. diff[d].entries[t][f] \in {"ADDED", "CHANGED"}
  BY <1>2 DEF ChosenOf
<1> QED BY <1>1, <1>3, EntryFound

\* Applying a diff keeps the type of the catalogue, and what is in it.
LEMMA ApplyWrites ==
  ASSUME DiscoveryInv, NEW a \in DiffAppliers, ApplyDiff(a)
  PROVE  catalogue' \in [Tables -> CatalogueRow] /\ Keeps(catalogue, catalogue')
<1>1. /\ applier[a] \in Applying /\ applier[a] # Idle /\ applier[a].of \in Discoveries
  BY DEF ApplyDiff, DiscoveryInv, DiscoveryTypes, Idle, Applying
<1>2. PICK d \in Discoveries : d = applier[a].of
  BY <1>1
<1>3. PICK read \in [Tables -> CatalogueRow] : read = applier[a].read
  BY <1>1 DEF Applying
<1>4. PICK shown : shown = [t \in Tables |-> IF t \in DOMAIN diff[d].found THEN diff[d].found[t] ELSE <<>>]
  BY Zenon
<1>5. \/ catalogue' = catalogue
      \/ catalogue' = [t \in Tables |-> WrittenRow(catalogue[t], read[t], ChosenOf(a, t), shown[t])]
  BY <1>2, <1>3, <1>4 DEF ApplyDiff
<1>6. CASE catalogue' = catalogue
  BY <1>6 DEF DiscoveryInv, DiscoveryTypes, Keeps
<1>7. CASE catalogue' = [t \in Tables |-> WrittenRow(catalogue[t], read[t], ChosenOf(a, t), shown[t])]
  <2>1. ASSUME NEW t \in Tables
        PROVE  /\ catalogue'[t] \in CatalogueRow
               /\ Known(catalogue[t]) => Known(catalogue'[t])
               /\ \A f \in Columns : Known(catalogue[t].fields[f]) => Known(catalogue'[t].fields[f])
    <3>1. catalogue[t] \in CatalogueRow /\ read[t] \in CatalogueRow
      BY DEF DiscoveryInv, DiscoveryTypes
    <3>2. /\ Known(read[t]) => Known(catalogue[t])
          /\ \A f \in Columns : Known(read[t].fields[f]) => Known(catalogue[t].fields[f])
      BY <1>1, <1>3 DEF DiscoveryInv, ReadsKept, Keeps
    <3>3. \A f \in Columns : ChosenOf(a, t)[f] \in {"ADDED", "CHANGED"} => shown[t][f].type \in Types
      BY <1>1, <1>2, <1>4, ChosenIsListed
    <3>4. catalogue'[t] = WrittenRow(catalogue[t], read[t], ChosenOf(a, t), shown[t])
      BY <1>7
    <3>5. PICK chosen, layout, row, was : /\ chosen = ChosenOf(a, t) /\ layout = shown[t]
                                          /\ row = catalogue[t] /\ was = read[t]
      BY Zenon
    <3> QED BY <3>1, <3>2, <3>3, <3>4, <3>5, RowWritten
  <2>2. catalogue' \in [Tables -> CatalogueRow]
    <3>1. catalogue' = [t \in Tables |-> catalogue'[t]]
      BY <1>7
    <3>2. \A t \in Tables : catalogue'[t] \in CatalogueRow
      BY <2>1
    <3> QED BY <3>1, <3>2
  <2> QED BY <2>1, <2>2 DEF Keeps
<1> QED BY <1>5, <1>6, <1>7

LEMMA ApplyDiffInv ==
  ASSUME DiscoveryInv, NEW a \in DiffAppliers, ApplyDiff(a)
  PROVE  DiscoveryInv'
<1>1. /\ applier[a] \in Applying /\ applier[a] # Idle
  BY DEF ApplyDiff, DiscoveryInv, DiscoveryTypes, Idle
<1>2. PICK d \in Discoveries : d = applier[a].of
  BY <1>1 DEF Applying
<1>3. diff[d] \in DiffRow
  BY <1>1, <1>2 DEF DiscoveryInv, DiscoveryTypes, SelectionsListed
<1>4. /\ applier' = [applier EXCEPT ![a] = Idle]
      /\ UNCHANGED <<live, changes, discovery, queued, discoverer>>
  BY DEF ApplyDiff
<1>5. /\ applier' \in [DiffAppliers -> Applying \cup {Idle}] /\ applier'[a] = Idle
      /\ \A b \in DiffAppliers \ {a} : applier'[b] = applier[b]
  BY <1>4 DEF DiscoveryInv, DiscoveryTypes
<1>6. catalogue' \in [Tables -> CatalogueRow] /\ Keeps(catalogue, catalogue')
  BY ApplyWrites
<1>7. diff' = diff \/ diff' = [diff EXCEPT ![d] = [diff[d] EXCEPT !.status = "APPLIED"]]
  BY <1>2 DEF ApplyDiff, DiscoveryInv, DiscoveryTypes
<1>8. PICK row : row = [diff[d] EXCEPT !.status = "APPLIED"]
  BY Zenon
<1>9. /\ row \in DiffRow /\ row.found = diff[d].found /\ row.base = diff[d].base
      /\ row.complete = diff[d].complete /\ row.entries = diff[d].entries /\ row # NoDiff
  BY <1>3, <1>8 DEF DiffRow, NoDiff
<1>10. /\ diff' \in [Discoveries -> DiffRow \cup {NoDiff}]
       /\ \A e \in Discoveries \ {d} : diff'[e] = diff[e]
       /\ diff'[d] = diff[d] \/ diff'[d] = row
  BY <1>7, <1>8, <1>9 DEF DiscoveryInv, DiscoveryTypes
<1>11. DiscoveryTypes'
  BY <1>4, <1>5, <1>6, <1>10 DEF DiscoveryInv, DiscoveryTypes, DiscoveryRow, WorkerCarries
<1>12. diff[d] # NoDiff
  BY <1>1, <1>2 DEF DiscoveryInv, SelectionsListed
<1>13. OneDiffEach'
  <2>1. \A w \in DiscoveryWorkers : discoverer[w].step = "persist" => discoverer[w].of \in Discoveries \ {d}
    BY <1>12 DEF DiscoveryInv, DiscoveryTypes, WorkerCarries, OneDiffEach
  <2>2. ASSUME NEW e \in Discoveries, diff'[e] # NoDiff
        PROVE  discovery'[e].status \in {"SUCCESS", "PARTIAL"} /\ Computed(diff'[e])
    <3>1. Computed(diff[d]) => Computed(row)
      BY <1>9 DEF Computed
    <3> QED BY <1>4, <1>10, <1>12, <2>2, <3>1 DEF DiscoveryInv, OneDiffEach
  <2> QED BY <1>4, <1>10, <2>1, <2>2 DEF DiscoveryInv, OneDiffEach, Computed
<1>14. SelectionsListed'
  <2>1. \A e \in Discoveries : diff[e] # NoDiff => diff'[e] # NoDiff /\ diff'[e].entries = diff[e].entries
    BY <1>9, <1>10
  <2>2. \A e \in Discoveries : diff[e] # NoDiff => Listed(e)' = Listed(e)
    BY <2>1 DEF Listed
  <2>3. \A b \in DiffAppliers : applier'[b] # Idle =>
          applier'[b] = applier[b] /\ applier[b].of \in Discoveries
    BY <1>5 DEF DiscoveryInv, DiscoveryTypes, Applying
  <2> HIDE DEF Listed
  <2> QED BY <2>1, <2>2, <2>3 DEF DiscoveryInv, SelectionsListed
<1>15. ReadsKept'
  BY <1>5, <1>6, ReadsStay
<1> QED BY <1>11, <1>13, <1>14, <1>15 DEF DiscoveryInv

LEMMA SourceChangesInv ==
  ASSUME DiscoveryInv, SourceChanges
  PROVE  DiscoveryInv'
<1>1. UNCHANGED <<catalogue, discovery, queued, discoverer, diff, applier>>
  BY DEF SourceChanges
<1>2. live' \in SourceStates /\ changes' \in Nat /\ changes' <= MaxChanges
  BY DiscoveryAssumption DEF SourceChanges, DiscoveryInv, DiscoveryTypes
<1>3. DiscoveryTypes'
  BY <1>1, <1>2 DEF DiscoveryInv, DiscoveryTypes, DiscoveryRow, WorkerCarries
<1>4. OneDiffEach' /\ SelectionsListed'
  BY <1>1 DEF DiscoveryInv, OneDiffEach, SelectionsListed, Listed
<1> QED BY <1>1, <1>3, <1>4, ReadsUnchanged DEF DiscoveryInv

LEMMA UpdateFieldInv ==
  ASSUME DiscoveryInv, NEW t \in Tables, NEW f \in Columns, NEW label \in Labels, UpdateField(t, f, label)
  PROVE  DiscoveryInv'
<1>1. UNCHANGED <<live, discovery, queued, discoverer, diff, applier>>
  BY DEF UpdateField
<1>2. changes' \in Nat /\ changes' <= MaxChanges
  BY DiscoveryAssumption DEF UpdateField, DiscoveryInv, DiscoveryTypes
<1>3. PICK row \in CatalogueRow : row = catalogue[t]
  BY DEF DiscoveryInv, DiscoveryTypes
<1>4. Known(row.fields[f]) /\ row \in [status : {"ACTIVE", "INACTIVE"}, fields : [Columns -> FieldRow]]
  BY <1>3 DEF UpdateField, CatalogueRow, NotListed, NoField, Known
<1>5. PICK field : field = [row.fields[f] EXCEPT !.label = label]
  BY Zenon
<1>6. field \in FieldRow /\ Known(field)
  BY <1>4, <1>5 DEF FieldRow, NoField, Known
<1>7. PICK fields : fields = [row.fields EXCEPT ![f] = field]
  BY Zenon
<1>8. fields \in [Columns -> FieldRow] /\ \A g \in Columns : Known(row.fields[g]) => Known(fields[g])
  BY <1>4, <1>6, <1>7
<1>9. PICK written : written = [row EXCEPT !.fields = fields]
  BY Zenon
<1>10. written \in CatalogueRow /\ written.status = row.status /\ written.fields = fields
  BY <1>4, <1>8, <1>9 DEF CatalogueRow
<1>11. catalogue' = [catalogue EXCEPT ![t] = written]
  BY <1>3, <1>5, <1>7, <1>9 DEF UpdateField
<1>12. /\ catalogue' \in [Tables -> CatalogueRow] /\ catalogue'[t] = written
       /\ \A s \in Tables \ {t} : catalogue'[s] = catalogue[s]
  BY <1>10, <1>11 DEF DiscoveryInv, DiscoveryTypes
<1>13. Keeps(catalogue, catalogue')
  BY <1>3, <1>8, <1>10, <1>12 DEF Keeps, Known
<1>14. DiscoveryTypes'
  BY <1>1, <1>2, <1>12 DEF DiscoveryInv, DiscoveryTypes, DiscoveryRow, WorkerCarries
<1>15. OneDiffEach' /\ SelectionsListed'
  BY <1>1 DEF DiscoveryInv, OneDiffEach, SelectionsListed, Listed
<1>16. ReadsKept'
  BY <1>1, <1>13, ReadsStay
<1> QED BY <1>14, <1>15, <1>16 DEF DiscoveryInv

LEMMA DiscoveryStutterInv == DiscoveryInv /\ UNCHANGED discoveryVars => DiscoveryInv'
<1> SUFFICES ASSUME DiscoveryInv, UNCHANGED discoveryVars PROVE DiscoveryInv'
  OBVIOUS
<1>1. DiscoveryTypes'
  BY DEF DiscoveryInv, DiscoveryTypes, DiscoveryRow, WorkerCarries, discoveryVars
<1>2. OneDiffEach' /\ SelectionsListed'
  BY DEF DiscoveryInv, OneDiffEach, SelectionsListed, Listed, discoveryVars
<1>3. ReadsKept'
  BY ReadsUnchanged DEF discoveryVars
<1> QED BY <1>1, <1>2, <1>3 DEF DiscoveryInv

LEMMA DiscoveryNextInv == DiscoveryInv /\ [DiscoveryNext]_discoveryVars => DiscoveryInv'
<1> SUFFICES ASSUME DiscoveryInv, [DiscoveryNext]_discoveryVars PROVE DiscoveryInv'
  OBVIOUS
<1>1. ASSUME NEW d \in Discoveries, RequestDiscovery(d) \/ EnqueueDiscovery(d) PROVE DiscoveryInv'
  BY <1>1, RequestDiscoveryInv, EnqueueDiscoveryInv
<1>2. ASSUME NEW w \in DiscoveryWorkers,
             \/ \E d \in Discoveries : GetDiscovery(w, d)
             \/ StartDiscovery(w) \/ ScanFails(w) \/ Compare(w) \/ FinishDiscovery(w)
             \/ PersistDiff(w) \/ StopDiscovery(w)
             \/ \E covered \in SUBSET Tables : Scan(w, covered)
      PROVE  DiscoveryInv'
  BY <1>2, GetDiscoveryInv, StartDiscoveryInv, ScanFailsInv, CompareInv, FinishDiscoveryInv,
     PersistDiffInv, StopDiscoveryInv, ScanInv
<1>3. ASSUME NEW a \in DiffAppliers,
             \/ ApplyDiff(a)
             \/ \E d \in Discoveries, chosen \in SUBSET (Tables \X Items) : ApplyReadDiff(a, d, chosen)
      PROVE  DiscoveryInv'
  BY <1>3, ApplyDiffInv, ApplyReadDiffInv
<1>4. ASSUME NEW t \in Tables, NEW f \in Columns, NEW label \in Labels, UpdateField(t, f, label)
      PROVE  DiscoveryInv'
  BY <1>4, UpdateFieldInv
<1>5. CASE UNCHANGED discoveryVars
  BY <1>5, DiscoveryStutterInv
<1> QED BY <1>1, <1>2, <1>3, <1>4, <1>5, SourceChangesInv DEF DiscoveryNext

LEMMA DiscoveryInvSafe == DiscoveryInv => DiscoveryTypeOK
<1> SUFFICES ASSUME DiscoveryInv PROVE DiscoveryTypeOK
  OBVIOUS
<1>1. changes \in 0..MaxChanges
  BY DiscoveryAssumption DEF DiscoveryInv, DiscoveryTypes
<1>2. discovery \in [Discoveries -> [status : {"none", "QUEUED", "RUNNING"} \cup Settled, version : Nat]]
  BY DEF DiscoveryInv, DiscoveryTypes, DiscoveryRecord
<1>3. \A d \in Discoveries : diff[d] # NoDiff =>
        diff[d].status \in {"PENDING", "APPLIED"} /\ diff[d].entries \in [Tables -> [Items -> Kinds]]
  BY DEF DiscoveryInv, DiscoveryTypes, DiffRow
<1>4. live \in Contents
  BY DiscoveryAssumption DEF DiscoveryInv, DiscoveryTypes
<1> QED BY <1>1, <1>2, <1>3, <1>4 DEF DiscoveryInv, DiscoveryTypes, SelectionsListed,
           DiscoveryTypeOK

\* Who writes discoveries: a request, and a worker that updates its discovery by version.
LEMMA DiscoveryWriters ==
  ASSUME DiscoveryInv, [DiscoveryNext]_discoveryVars, NEW d \in Discoveries, discovery[d].status \in Settled
  PROVE  discovery'[d] = discovery[d]
<1>1. discovery[d].version = 3
  BY DEF DiscoveryInv, DiscoveryTypes, DiscoveryRow
<1>2. ASSUME NEW w \in DiscoveryWorkers, NEW status, NEW next, UpdateStatus(w, status, next),
             discoverer[w].step \in {"start", "scan", "finish"}
      PROVE  discovery'[d] = discovery[d]
  <2>1. discoverer[w].version # 3
    BY <1>2 DEF DiscoveryInv, DiscoveryTypes, WorkerCarries
  <2>2. CASE discoverer[w].of = d
    BY <1>1, <1>2, <2>1, <2>2 DEF UpdateStatus
  <2>3. CASE discoverer[w].of # d
    BY <1>2, <2>3 DEF UpdateStatus, DiscoveryInv, DiscoveryTypes
  <2> QED BY <2>2, <2>3
<1>3. ASSUME NEW e \in Discoveries, RequestDiscovery(e) PROVE discovery'[d] = discovery[d]
  <2>1. e # d
    BY <1>3 DEF RequestDiscovery, Settled
  <2> QED BY <1>3, <2>1 DEF RequestDiscovery, DiscoveryInv, DiscoveryTypes
<1>4. ASSUME NEW w \in DiscoveryWorkers, StartDiscovery(w) \/ ScanFails(w) \/ FinishDiscovery(w)
      PROVE  discovery'[d] = discovery[d]
  BY <1>2, <1>4 DEF StartDiscovery, ScanFails, FinishDiscovery
<1>5. \/ UNCHANGED discovery
      \/ \E e \in Discoveries : RequestDiscovery(e)
      \/ \E w \in DiscoveryWorkers : StartDiscovery(w) \/ ScanFails(w) \/ FinishDiscovery(w)
  BY Zenon DEF DiscoveryNext, discoveryVars, EnqueueDiscovery, GetDiscovery, Compare, PersistDiff,
     StopDiscovery, Scan, ApplyDiff, ApplyReadDiff, SourceChanges, UpdateField
<1> QED BY <1>3, <1>4, <1>5

\* Who writes diffs, and what.
LEMMA DiffWriters ==
  ASSUME DiscoveryInv, [DiscoveryNext]_discoveryVars
  PROVE  \/ UNCHANGED diff
         \/ \E w \in DiscoveryWorkers, d \in Discoveries :
              /\ diff[d] = NoDiff /\ discovery[d].status \in {"SUCCESS", "PARTIAL"}
              /\ diff' = [diff EXCEPT ![d] = discoverer[w].row]
         \/ \E a \in DiffAppliers : ApplyDiff(a)
<1>1. ASSUME NEW w \in DiscoveryWorkers, PersistDiff(w)
      PROVE  \E d \in Discoveries : /\ diff[d] = NoDiff /\ discovery[d].status \in {"SUCCESS", "PARTIAL"}
                                     /\ diff' = [diff EXCEPT ![d] = discoverer[w].row]
  <2>1. discoverer[w].of \in Discoveries
    BY <1>1 DEF PersistDiff, DiscoveryInv, DiscoveryTypes, WorkerCarries
  <2> QED BY <1>1, <2>1, Zenon DEF PersistDiff, DiscoveryInv, OneDiffEach
<1>2. \/ UNCHANGED diff
      \/ \E w \in DiscoveryWorkers : PersistDiff(w)
      \/ \E a \in DiffAppliers : ApplyDiff(a)
  BY Zenon DEF DiscoveryNext, discoveryVars, RequestDiscovery, EnqueueDiscovery, GetDiscovery,
     StartDiscovery, ScanFails, Compare, FinishDiscovery, StopDiscovery, Scan, ApplyReadDiff,
     SourceChanges, UpdateField
<1> QED BY <1>1, <1>2

LEMMA DiffStep ==
  ASSUME DiscoveryInv, [DiscoveryNext]_discoveryVars, NEW d \in Discoveries, diff'[d] # diff[d]
  PROVE  \/ diff[d] = NoDiff /\ discovery[d].status \in {"SUCCESS", "PARTIAL"}
         \/ diff[d].status = "PENDING" /\ diff'[d].status = "APPLIED"
<1>1. diff \in [Discoveries -> DiffRow \cup {NoDiff}]
  BY DEF DiscoveryInv, DiscoveryTypes
<1>2. ASSUME NEW w \in DiscoveryWorkers, NEW e \in Discoveries, diff[e] = NoDiff,
             discovery[e].status \in {"SUCCESS", "PARTIAL"}, diff' = [diff EXCEPT ![e] = discoverer[w].row]
      PROVE  diff[d] = NoDiff /\ discovery[d].status \in {"SUCCESS", "PARTIAL"}
  <2>1. e = d
    BY <1>1, <1>2
  <2> QED BY <1>2, <2>1
<1>3. ASSUME NEW a \in DiffAppliers, ApplyDiff(a)
      PROVE  diff[d].status = "PENDING" /\ diff'[d].status = "APPLIED"
  <2>1. /\ diff[applier[a].of].status = "PENDING"
        /\ diff' = [diff EXCEPT ![applier[a].of].status = "APPLIED"]
    BY <1>3, Zenon DEF ApplyDiff
  <2>2. applier[a].of = d
    BY <1>1, <2>1
  <2>3. diff[d] \in DiffRow
    BY <1>1, <2>1, <2>2 DEF NoDiff
  <2> QED BY <1>1, <2>1, <2>2, <2>3 DEF DiffRow
<1> QED BY <1>2, <1>3, DiffWriters

\* What is left of a table when all entries about it are applied to the row they are about.
LEMMA FullRow ==
  ASSUME NEW base, NEW t \in Tables, NEW was \in CatalogueRow, base[t] = was, NEW found \in Contents,
         NEW chosen, \A i \in Items : chosen[i] = KindOf(base, found, t, i),
         NEW shown, t \in DOMAIN found => shown = found[t],
         NEW is, is = WrittenRow(was, was, chosen, shown)
  PROVE  Reconciled(was, is, found, t)
<1>1. Whole \notin Columns /\ Whole \in Items /\ Columns \subseteq Items
  BY DiscoveryAssumption DEF Items
<1>2. chosen[Whole] = DatasetKind(was, t \in DOMAIN found)
  BY <1>1 DEF KindOf
<1>3. /\ \A f \in Columns : is.fields[f] = WrittenField(was.fields[f], was, chosen, shown, f)
      /\ is.status = IF Does("REMOVED", was, chosen, Whole) THEN "INACTIVE"
                     ELSE IF \E i \in Items : Does("ADDED", was, chosen, i) \/ Does("CHANGED", was, chosen, i)
                     THEN "ACTIVE" ELSE was.status
  BY DEF WrittenRow
<1>4. \A f \in Columns : was.fields[f] \in FieldRow /\ (Known(was.fields[f]) => Known(was))
  BY FieldRows
<1>5. CASE t \notin DOMAIN found
  <2>1. \A f \in Columns : chosen[f] = "none"
    BY <1>1, <1>5 DEF KindOf
  <2>2. chosen[Whole] = IF Known(was) THEN "REMOVED" ELSE "none"
    BY <1>2, <1>5 DEF DatasetKind
  <2>3. \A i \in Items : ~ Does("ADDED", was, chosen, i) /\ ~ Does("CHANGED", was, chosen, i)
    BY <2>1, <2>2 DEF Does, Items
  <2>4. \A f \in Columns : ~ Does("REMOVED", was, chosen, f)
    BY <2>1 DEF Does
  <2>5. \A f \in Columns : is.fields[f] = was.fields[f]
    BY <1>1, <1>3, <2>3, <2>4 DEF WrittenField
  <2>6. is.status # "ACTIVE"
    <3>1. CASE Known(was)
      <4>1. Does("REMOVED", was, chosen, Whole)
        BY <2>2, <3>1 DEF Does
      <4> QED BY <1>3, <4>1
    <3>2. CASE ~ Known(was)
      <4>1. ~ Does("REMOVED", was, chosen, Whole)
        BY <2>2, <3>2 DEF Does
      <4> QED BY <1>3, <2>3, <3>2, <4>1 DEF Known
    <3> QED BY <3>1, <3>2
  <2> QED BY <1>5, <2>5, <2>6 DEF Reconciled
<1>6. CASE t \in DOMAIN found
  <2>1. shown = found[t] /\ DOMAIN found[t] \subseteq Columns
    BY <1>6 DEF Contents, Layout
  <2>2. \A f \in Columns : chosen[f] = FieldKind(was.fields[f], found[t], f)
    BY <1>1, <1>6 DEF KindOf
  <2>3. chosen[Whole] = IF Known(was) THEN "none" ELSE "ADDED"
    BY <1>2, <1>6 DEF DatasetKind
  <2>4. ~ Does("REMOVED", was, chosen, Whole)
    BY <2>3 DEF Does
  <2>5. ASSUME NEW f \in Columns
        PROVE  /\ Does("ADDED", was, chosen, f) <=> chosen[f] = "ADDED"
               /\ Does("CHANGED", was, chosen, f) <=> chosen[f] = "CHANGED"
               /\ Does("REMOVED", was, chosen, f) <=> chosen[f] = "REMOVED"
    <3>1. chosen[f] \in {"CHANGED", "REMOVED"} => Known(was.fields[f])
      BY <2>2 DEF FieldKind
    <3> QED BY <1>1, <2>3, <3>1 DEF Does
  <2>6. ASSUME NEW f \in Columns
        PROVE  /\ f \in DOMAIN found[t] =>
                    /\ is.fields[f].type = found[t][f].type
                    /\ \/ is.fields[f].status = "ACTIVE"
                       \/ is.fields[f] = was.fields[f] /\ SameSignature(found[t][f], was.fields[f])
               /\ f \notin DOMAIN found[t] => is.fields[f].status # "ACTIVE"
               /\ Known(was.fields[f]) => Known(is.fields[f]) /\ is.fields[f].label = was.fields[f].label
    <3>1. /\ is.fields[f] = WrittenField(was.fields[f], was, chosen, shown, f)
          /\ chosen[f] = FieldKind(was.fields[f], found[t], f)
      BY <1>3, <2>2
    <3>2. CASE f \in DOMAIN found[t] /\ ~ Known(was.fields[f])
      <4>1. chosen[f] = "ADDED"
        BY <3>1, <3>2 DEF FieldKind
      <4>2. is.fields[f] = [status |-> "ACTIVE", type |-> found[t][f].type, label |-> Unclassified]
        BY <2>1, <2>5, <3>1, <4>1 DEF WrittenField
      <4> QED BY <3>2, <4>2
    <3>3. CASE f \in DOMAIN found[t] /\ Known(was.fields[f]) /\ ~ SameSignature(found[t][f], was.fields[f])
      <4>1. chosen[f] = "CHANGED"
        BY <3>1, <3>3 DEF FieldKind
      <4>2. is.fields[f] = [status |-> "ACTIVE", type |-> found[t][f].type, label |-> was.fields[f].label]
        BY <2>1, <2>5, <3>1, <4>1 DEF WrittenField
      <4> QED BY <3>3, <4>2 DEF Known
    <3>4. CASE f \in DOMAIN found[t] /\ SameSignature(found[t][f], was.fields[f])
      <4>1. chosen[f] = "none"
        BY <3>1, <3>4 DEF FieldKind, SameSignature
      <4>2. is.fields[f] = was.fields[f]
        BY <2>5, <3>1, <4>1 DEF WrittenField
      <4> QED BY <3>4, <4>2 DEF SameSignature
    <3>5. CASE f \notin DOMAIN found[t] /\ Known(was.fields[f])
      <4>1. chosen[f] = "REMOVED"
        BY <3>1, <3>5 DEF FieldKind
      <4>2. is.fields[f] = [was.fields[f] EXCEPT !.status = "INACTIVE"]
        BY <2>5, <3>1, <4>1 DEF WrittenField
      <4> QED BY <1>4, <3>5, <4>2 DEF Known, FieldRow, NoField
    <3>6. CASE f \notin DOMAIN found[t] /\ ~ Known(was.fields[f])
      <4>1. chosen[f] = "none"
        BY <3>1, <3>6 DEF FieldKind
      <4>2. is.fields[f] = was.fields[f]
        BY <2>5, <3>1, <4>1 DEF WrittenField
      <4> QED BY <3>6, <4>2 DEF Known
    <3> QED BY <3>2, <3>3, <3>4, <3>5, <3>6 DEF SameSignature
  <2>7. \/ is.status = "ACTIVE"
        \/ was.status = "INACTIVE" /\ \A f \in DOMAIN found[t] : SameSignature(found[t][f], was.fields[f])
    <3>1. CASE \E i \in Items : Does("ADDED", was, chosen, i) \/ Does("CHANGED", was, chosen, i)
      BY <1>3, <2>4, <3>1
    <3>2. CASE ~ \E i \in Items : Does("ADDED", was, chosen, i) \/ Does("CHANGED", was, chosen, i)
      <4>1. is.status = was.status
        BY <1>3, <2>4, <3>2
      <4>2. Known(was)
        <5>1. ~ Does("ADDED", was, chosen, Whole)
          BY <1>1, <3>2
        <5> QED BY <2>3, <5>1 DEF Does
      <4>3. was.status \in {"ACTIVE", "INACTIVE"}
        BY <4>2 DEF CatalogueRow, NotListed, Known
      <4>4. ASSUME NEW f \in DOMAIN found[t] PROVE SameSignature(found[t][f], was.fields[f])
        <5>1. f \in Columns /\ f \in Items
          BY <1>1, <2>1
        <5>2. chosen[f] # "ADDED" /\ chosen[f] # "CHANGED"
          BY <2>5, <3>2, <5>1
        <5>3. chosen[f] = FieldKind(was.fields[f], found[t], f)
          BY <2>2, <5>1
        <5> QED BY <5>2, <5>3 DEF FieldKind
      <4> QED BY <4>1, <4>3, <4>4
    <3> QED BY <3>1, <3>2
  <2> QED BY <1>6, <2>1, <2>6, <2>7 DEF Reconciled
<1> QED BY <1>5, <1>6

\* A diff that is applied in full reconciles each table.
LEMMA AppliedStep ==
  ASSUME DiscoveryInv, [DiscoveryNext]_discoveryVars, NEW d \in Discoveries, AppliedInFull(d),
         NEW t \in Tables
  PROVE  Reconciled(catalogue[t], catalogue'[t], diff[d].found, t)
<1>1. /\ diff \in [Discoveries -> DiffRow \cup {NoDiff}] /\ diff[d] # NoDiff /\ diff[d] \in DiffRow
      /\ catalogue \in [Tables -> CatalogueRow] /\ diff[d].status = "PENDING" /\ diff'[d].status = "APPLIED"
  BY DEF DiscoveryInv, DiscoveryTypes, NoDiff, AppliedInFull
<1>2. PICK a \in DiffAppliers : ApplyDiff(a)
  <2>1. diff'[d] # diff[d]
    BY <1>1
  <2>2. ~(\E w \in DiscoveryWorkers, e \in Discoveries :
              /\ diff[e] = NoDiff /\ discovery[e].status \in {"SUCCESS", "PARTIAL"}
              /\ diff' = [diff EXCEPT ![e] = discoverer[w].row])
    BY <1>1, <2>1
  <2> QED BY <2>1, <2>2, DiffWriters
<1>3. /\ applier[a].of = d /\ applier[a].selection = Listed(d) /\ applier[a].read = catalogue
      /\ applier[a] # Idle
  <2>1. PICK b \in DiffAppliers : /\ applier[b] # Idle /\ applier'[b] = Idle /\ applier[b].of = d
                                  /\ applier[b].selection = Listed(d) /\ applier[b].read = catalogue
    BY DEF AppliedInFull
  <2>2. applier' = [applier EXCEPT ![a] = Idle]
    BY <1>2 DEF ApplyDiff
  <2>3. b = a
    BY <2>1, <2>2 DEF DiscoveryInv, DiscoveryTypes
  <2> QED BY <2>1, <2>3
<1>4. PICK found \in Contents : found = diff[d].found
  BY <1>1 DEF DiffRow
<1>5. PICK shown : shown = IF t \in DOMAIN found THEN found[t] ELSE <<>>
  BY Zenon
<1>6. catalogue'[t] = WrittenRow(catalogue[t], catalogue[t], ChosenOf(a, t), shown)
  <2>1. diff' # diff
    BY <1>1
  <2>2. catalogue' = [s \in Tables |-> WrittenRow(catalogue[s], applier[a].read[s], ChosenOf(a, s),
                                                  IF s \in DOMAIN found THEN found[s] ELSE <<>>)]
    BY <1>2, <1>3, <1>4, <2>1 DEF ApplyDiff
  <2> QED BY <1>3, <1>5, <2>2
<1>7. PICK chosen : chosen = ChosenOf(a, t)
  BY Zenon
<1>8. ASSUME NEW i \in Items PROVE chosen[i] = KindOf(catalogue, found, t, i)
  <2>1. diff[d].entries = Entries(catalogue, found, TRUE)
    BY <1>1, <1>4 DEF DiscoveryInv, OneDiffEach, Computed, AppliedInFull, DiffRow
  <2>2. diff[d].entries[t][i] = KindOf(catalogue, found, t, i)
    BY <2>1 DEF Entries
  <2>3. <<t, i>> \in Listed(d) <=> diff[d].entries[t][i] # "none"
    BY DEF Listed
  <2>4. chosen[i] = IF <<t, i>> \in Listed(d) THEN diff[d].entries[t][i] ELSE "none"
    BY <1>3, <1>7 DEF ChosenOf
  <2> QED BY <2>2, <2>3, <2>4
<1>9. PICK was \in CatalogueRow : was = catalogue[t]
  BY <1>1
<1>10. PICK is : is = catalogue'[t]
  BY Zenon
<1> QED BY <1>4, <1>5, <1>6, <1>7, <1>8, <1>9, <1>10, FullRow

-----------------------------------------------------------------------------
(* Retention *)

Preparing == [step : {"prepare", "create"}, of : Disposals, by : Officers, record : Records, at : Nat]
Recording == [step : {"record", "result"}, of : Disposals, by : Officers, record : Records, at : Nat,
              outcome : Terminal]

\* What a command carries from its read to its transaction, dated in the past.
OfficerCarries(m) ==
  /\ m.step \in {"none", "place", "release", "prepare", "record", "create", "result", "decide"}
  /\ m.step \in {"place", "release"} => m.of \in Holds /\ m.by \in Officers /\ m.at \in Nat /\ m.at <= clock
  /\ m.step = "place" => m.record \in Records
  /\ m.step \in {"prepare", "create"} => m \in Preparing /\ m.at <= clock
  /\ m.step \in {"record", "result"} => m \in Recording /\ m.at <= clock
  /\ m.step = "decide" => m.of \in Recalls /\ m.by \in Officers /\ m.verdict \in {"APPROVED", "REJECTED"}

HoldRow(g) ==
  g # Unwritten =>
    /\ g.state \in {"ACTIVE", "RELEASED"} /\ g.record \in Records
    /\ g.placedAt \in Nat /\ g.stored \in Nat /\ g.placedAt <= g.stored /\ g.stored <= clock
    /\ g.state = "RELEASED" => g.releasedAt \in Nat /\ g.releasedBy # g.placedBy

DisposalRow(d) ==
  d # Unwritten =>
    /\ d.state \in {"PREPARED"} \cup Terminal /\ d.record \in Records
    /\ d.preparedAt \in Nat /\ d.preparedAt <= clock
    /\ d.state \in Terminal => d.recordedAt \in Nat /\ d.recordedAt <= clock /\ d.recordedBy # d.preparedBy

RecallRow == [state : {"PENDING", "APPROVED", "REJECTED"}, requestedBy : Officers,
              decidedBy : Officers \cup {"none"}]

RetentionTypes ==
  /\ clock \in Nat /\ clock <= MaxClock
  /\ DOMAIN hold = Holds /\ \A h \in Holds : HoldRow(hold[h])
  /\ DOMAIN disposal = Disposals /\ \A j \in Disposals : DisposalRow(disposal[j])
  /\ recall \in [Recalls -> RecallRow \cup {Unwritten}]
  /\ \A q \in Recalls : recall[q] # Unwritten /\ recall[q].state # "PENDING" =>
       recall[q].decidedBy # recall[q].requestedBy
  /\ DOMAIN officer = RetentionCommands /\ \A c \in RetentionCommands : OfficerCarries(officer[c])

\* Who closes something is not who opened it, and has its row before him.
Judged(m) ==
  /\ m.step = "release" => hold[m.of] # Unwritten /\ hold[m.of].placedBy # m.by
  /\ m.step \in {"record", "result"} =>
       /\ disposal[m.of] # Unwritten /\ disposal[m.of].record = m.record
       /\ disposal[m.of].preparedBy # m.by
  /\ m.step = "decide" => recall[m.of] # Unwritten /\ recall[m.of].requestedBy # m.by

\* No hold was in the way at a time.
Free(r, time) == \A h \in Holds : ~Stands(h, r, time)

\* A command that was evaluated had no hold in its way, and neither has what it writes.
ClearedCommands ==
  \A c \in RetentionCommands :
    officer[c].step \in {"create", "result"} => Free(officer[c].record, officer[c].at)

RetentionInv ==
  /\ RetentionTypes /\ \A c \in RetentionCommands : Judged(officer[c])
  /\ ClearedCommands /\ HoldsAreRespected

LEMMA RetentionInitInv == RetentionInit => RetentionInv
<1> SUFFICES ASSUME RetentionInit PROVE RetentionInv
  OBVIOUS
<1>1. RetentionTypes
  BY RetentionAssumption DEF RetentionInit, RetentionTypes, HoldRow, DisposalRow, OfficerCarries,
     AtRest, Unwritten
<1>2. /\ \A c \in RetentionCommands : Judged(officer[c])
      /\ ClearedCommands /\ HoldsAreRespected
  BY DEF RetentionInit, Judged, ClearedCommands, HoldsAreRespected, AtRest
<1> QED BY <1>1, <1>2 DEF RetentionInv

\* What was not in the way of a past instant is never found to have been.
LEMMA FreeStays ==
  ASSUME RetentionInv, NEW r, NEW time \in Nat, time <= clock, Free(r, time),
         \/ UNCHANGED hold
         \/ \E h \in Holds : \E g :
              /\ hold' = [hold EXCEPT ![h] = g]
              /\ \/ g.stored = clock
                 \/ /\ hold[h] # Unwritten /\ hold[h].state = "ACTIVE"
                    /\ g.record = hold[h].record /\ g.stored = hold[h].stored
  PROVE  Free(r, time)'
<1> SUFFICES ASSUME NEW k \in Holds, Stands(k, r, time)' PROVE FALSE
  BY DEF Free
<1>1. ~Stands(k, r, time)
  BY DEF Free
<1>2. clock \in Nat /\ DOMAIN hold = Holds
  BY DEF RetentionInv, RetentionTypes
<1>3. CASE UNCHANGED hold
  BY <1>1, <1>3 DEF Stands
<1>4. ASSUME NEW h \in Holds, NEW g, hold' = [hold EXCEPT ![h] = g],
             \/ g.stored = clock
             \/ /\ hold[h] # Unwritten /\ hold[h].state = "ACTIVE"
                /\ g.record = hold[h].record /\ g.stored = hold[h].stored
      PROVE  FALSE
  <2>1. CASE k # h
    BY <1>1, <1>2, <1>4, <2>1 DEF Stands
  <2>2. CASE k = h
    <3>1. hold'[k] = g
      BY <1>2, <1>4, <2>2
    <3>2. CASE g.stored = clock
      BY <1>2, <3>1, <3>2 DEF Stands
    <3>3. CASE /\ hold[h] # Unwritten /\ hold[h].state = "ACTIVE"
               /\ g.record = hold[h].record /\ g.stored = hold[h].stored
      BY <1>1, <2>2, <3>1, <3>3 DEF Stands
    <3> QED BY <1>4, <3>2, <3>3
  <2> QED BY <2>1, <2>2
<1> QED BY <1>3, <1>4

\* An evaluation that finds no active hold finds none in the way.
LEMMA EvaluationFrees ==
  ASSUME RetentionInv, NEW m, m.at \in Nat, Evaluated(m)
  PROVE  Free(m.record, m.at)
<1>1. ActiveHolds(m.record, m.at) = {}
  BY DEF Evaluated, Disposition
<1> SUFFICES ASSUME NEW h \in Holds, Stands(h, m.record, m.at) PROVE FALSE
  BY DEF Free
<1>2. /\ hold[h] # Unwritten /\ hold[h].record = m.record /\ hold[h].stored < m.at
      /\ hold[h].state = "RELEASED" => hold[h].releasedAt > m.at
  BY DEF Stands
<1>3. /\ hold[h].placedAt \in Nat /\ hold[h].stored \in Nat /\ hold[h].placedAt <= hold[h].stored
      /\ hold[h].state = "RELEASED" => hold[h].releasedAt \in Nat
  BY <1>2 DEF RetentionInv, RetentionTypes, HoldRow
<1>4. h \in ActiveHolds(m.record, m.at)
  BY <1>2, <1>3 DEF ActiveHolds
<1> QED BY <1>1, <1>4

LEMMA OfficersCarry ==
  ASSUME RetentionInv, NEW c \in RetentionCommands, NEW m, OfficerCarries(m), UNCHANGED clock,
         officer' = [officer EXCEPT ![c] = m]
  PROVE  /\ DOMAIN officer' = RetentionCommands
         /\ \A d \in RetentionCommands : OfficerCarries(officer[d])' 
         /\ officer'[c] = m /\ \A d \in RetentionCommands \ {c} : officer'[d] = officer[d]
<1>1. DOMAIN officer = RetentionCommands /\ \A d \in RetentionCommands : OfficerCarries(officer[d])
  BY DEF RetentionInv, RetentionTypes
<1>2. officer'[c] = m /\ \A d \in RetentionCommands \ {c} : officer'[d] = officer[d]
  BY <1>1
<1>3. ASSUME NEW d \in RetentionCommands PROVE OfficerCarries(officer[d])'
  <2>1. CASE d = c
    BY <1>2, <2>1 DEF OfficerCarries
  <2>2. CASE d # c
    <3>1. officer'[d] = officer[d] /\ OfficerCarries(officer[d])
      BY <1>1, <1>2, <2>2
    <3> QED BY <3>1 DEF OfficerCarries
  <2> QED BY <2>1, <2>2
<1> QED BY <1>1, <1>2, <1>3

\* What a command that stands at a step carries, and what it has judged.
LEMMA OfficerCarried ==
  ASSUME RetentionInv, NEW c \in RetentionCommands
  PROVE  OfficerCarries(officer[c]) /\ Judged(officer[c])
BY DEF RetentionInv, RetentionTypes

\* A command that begins or is evaluated changes no row.
LEMMA OfficerMovesInv ==
  ASSUME RetentionInv, NEW c \in RetentionCommands, NEW m, OfficerCarries(m), Judged(m),
         officer' = [officer EXCEPT ![c] = m],
         m.step \in {"create", "result"} => Free(m.record, m.at),
         UNCHANGED <<clock, hold, disposal, recall>>
  PROVE  RetentionInv'
<1>1. RetentionTypes'
  BY OfficersCarry, Zenon DEF RetentionInv, RetentionTypes, HoldRow, DisposalRow
<1>2. \A d \in RetentionCommands : Judged(officer[d])'
  BY OfficersCarry DEF RetentionInv, Judged
<1>3. ClearedCommands'
  BY OfficersCarry DEF RetentionInv, ClearedCommands, Free, Stands
<1>4. HoldsAreRespected'
  BY DEF RetentionInv, HoldsAreRespected, Stands
<1> QED BY <1>1, <1>2, <1>3, <1>4 DEF RetentionInv

LEMMA CommandsBeginInv ==
  ASSUME RetentionInv, NEW c \in RetentionCommands, NEW u \in Officers,
         \/ \E h \in Holds : ReleaseHold(c, h, u) \/ \E r \in Records : PlaceHold(c, h, u, r)
         \/ \E j \in Disposals :
              \/ \E r \in Records : PrepareDisposal(c, j, u, r)
              \/ \E outcome \in {"SUCCEEDED", "FAILED_TECHNICAL"} : RecordDisposal(c, j, u, outcome)
         \/ \E q \in Recalls, verdict \in {"APPROVED", "REJECTED"} : DecideRecall(c, q, u, verdict)
  PROVE  RetentionInv'
<1>1. clock \in Nat /\ clock <= clock
  BY DEF RetentionInv, RetentionTypes
<1>2. ASSUME NEW m, Takes(c, m), OfficerCarries(m), Judged(m), m.step \notin {"create", "result"}
      PROVE  RetentionInv'
  BY <1>2, OfficerMovesInv, Zenon DEF Takes
<1>3. ASSUME NEW h \in Holds, ReleaseHold(c, h, u) PROVE RetentionInv'
  <2> DEFINE m == [step |-> "release", of |-> h, by |-> u, at |-> clock]
  <2>1. Takes(c, m) /\ hold[h].state = "ACTIVE" /\ hold[h].placedBy # u
    BY <1>3 DEF ReleaseHold
  <2>2. OfficerCarries(m) /\ Judged(m)
    BY <1>1, <2>1 DEF OfficerCarries, Judged, Unwritten
  <2> QED BY <1>2, <2>1, <2>2
<1>4. ASSUME NEW h \in Holds, NEW r \in Records, PlaceHold(c, h, u, r) PROVE RetentionInv'
  <2> DEFINE m == [step |-> "place", of |-> h, by |-> u, record |-> r, at |-> clock]
  <2>1. Takes(c, m)
    BY <1>4 DEF PlaceHold
  <2>2. OfficerCarries(m) /\ Judged(m)
    BY <1>1 DEF OfficerCarries, Judged
  <2> QED BY <1>2, <2>1, <2>2
<1>5. ASSUME NEW j \in Disposals, NEW r \in Records, PrepareDisposal(c, j, u, r) PROVE RetentionInv'
  <2> DEFINE m == [step |-> "prepare", of |-> j, by |-> u, record |-> r, at |-> clock]
  <2>1. Takes(c, m)
    BY <1>5 DEF PrepareDisposal
  <2>2. OfficerCarries(m) /\ Judged(m)
    BY <1>1 DEF OfficerCarries, Judged, Preparing
  <2> QED BY <1>2, <2>1, <2>2
<1>6. ASSUME NEW j \in Disposals, NEW outcome \in {"SUCCEEDED", "FAILED_TECHNICAL"},
             RecordDisposal(c, j, u, outcome)
      PROVE  RetentionInv'
  <2> DEFINE m == [step |-> "record", of |-> j, by |-> u, record |-> disposal[j].record,
                   at |-> clock, outcome |-> outcome]
  <2>1. Takes(c, m) /\ disposal[j].state = "PREPARED" /\ disposal[j].preparedBy # u
    BY <1>6 DEF RecordDisposal
  <2>2. disposal[j] # Unwritten /\ disposal[j].record \in Records
    BY <2>1 DEF Unwritten, RetentionInv, RetentionTypes, DisposalRow
  <2>3. m \in Recording
    BY <1>1, <2>2 DEF Recording, Terminal
  <2>4. OfficerCarries(m)
    BY <1>1, <2>3 DEF OfficerCarries
  <2>5. Judged(m)
    BY <2>1, <2>2 DEF Judged
  <2> QED BY <1>2, <2>1, <2>4, <2>5
<1>7. ASSUME NEW q \in Recalls, NEW verdict \in {"APPROVED", "REJECTED"}, DecideRecall(c, q, u, verdict)
      PROVE  RetentionInv'
  <2> DEFINE m == [step |-> "decide", of |-> q, by |-> u, verdict |-> verdict]
  <2>1. Takes(c, m) /\ recall[q].state = "PENDING" /\ recall[q].requestedBy # u
    BY <1>7 DEF DecideRecall
  <2>2. OfficerCarries(m) /\ Judged(m)
    BY <2>1 DEF OfficerCarries, Judged, Unwritten
  <2> QED BY <1>2, <2>1, <2>2
<1> QED BY <1>3, <1>4, <1>5, <1>6, <1>7

LEMMA EvaluateDisposalInv ==
  ASSUME RetentionInv, NEW c \in RetentionCommands, EvaluateDisposal(c)
  PROVE  RetentionInv'
<1> DEFINE m == officer[c]
<1>1. /\ m.step \in {"prepare", "record"} /\ UNCHANGED <<clock, hold, disposal, recall>>
      /\ officer' = [officer EXCEPT ![c] = IF Evaluated(m) THEN Cleared(m) ELSE AtRest]
  BY DEF EvaluateDisposal
<1>2. OfficerCarries(m) /\ Judged(m)
  BY OfficerCarried
<1>3. CASE ~Evaluated(m)
  <2>1. OfficerCarries(AtRest) /\ Judged(AtRest) /\ AtRest.step = "none"
    BY DEF OfficerCarries, Judged, AtRest
  <2> QED BY <1>1, <1>3, <2>1, OfficerMovesInv, Zenon
<1>4. CASE Evaluated(m)
  <2>1. m.at \in Nat
    BY <1>1, <1>2 DEF OfficerCarries, Preparing, Recording
  <2>2. Free(m.record, m.at)
    BY <1>4, <2>1, EvaluationFrees
  <2>3. /\ Cleared(m).record = m.record /\ Cleared(m).at = m.at
        /\ OfficerCarries(Cleared(m)) /\ Judged(Cleared(m))
    <3>1. CASE m.step = "prepare"
      <4>1. m \in Preparing /\ m.at <= clock
        BY <1>2, <3>1 DEF OfficerCarries
      <4>2. /\ Cleared(m) \in Preparing /\ Cleared(m).at = m.at /\ Cleared(m).step = "create"
            /\ Cleared(m).record = m.record
        BY <3>1, <4>1 DEF Cleared, Preparing
      <4> QED BY <4>1, <4>2 DEF OfficerCarries, Judged
    <3>2. CASE m.step = "record"
      <4>1. m \in Recording /\ m.at <= clock
        BY <1>2, <3>2 DEF OfficerCarries
      <4>2. /\ Cleared(m) \in Recording /\ Cleared(m).at = m.at /\ Cleared(m).step = "result"
            /\ Cleared(m).record = m.record /\ Cleared(m).of = m.of /\ Cleared(m).by = m.by
        BY <3>2, <4>1 DEF Cleared, Recording
      <4> QED BY <1>2, <3>2, <4>1, <4>2 DEF OfficerCarries, Judged
    <3> QED BY <1>1, <3>1, <3>2
  <2> HIDE DEF m
  <2> QED BY <1>1, <1>4, <2>2, <2>3, OfficerMovesInv, Zenon
<1> QED BY <1>3, <1>4

\* A transaction that ends its command: what it writes to one table.
LEMMA ReturnsInv ==
  ASSUME RetentionInv, NEW c \in RetentionCommands, officer' = [officer EXCEPT ![c] = AtRest],
         UNCHANGED clock, RetentionTypes', HoldsAreRespected',
         \/ UNCHANGED hold
         \/ \E h \in Holds : \E g :
              /\ hold' = [hold EXCEPT ![h] = g] /\ g # Unwritten
              /\ \/ hold[h] = Unwritten /\ g.stored = clock
                 \/ /\ hold[h] # Unwritten /\ hold[h].state = "ACTIVE" /\ g.placedBy = hold[h].placedBy
                    /\ g.record = hold[h].record /\ g.stored = hold[h].stored,
         \A j \in Disposals : disposal[j] # Unwritten =>
           /\ disposal'[j] # Unwritten /\ disposal'[j].record = disposal[j].record
           /\ disposal'[j].preparedBy = disposal[j].preparedBy,
         \A q \in Recalls : recall[q] # Unwritten =>
           recall'[q] # Unwritten /\ recall'[q].requestedBy = recall[q].requestedBy
  PROVE  RetentionInv'
<1>1. AtRest.step = "none" /\ OfficerCarries(AtRest)
  BY DEF AtRest, OfficerCarries
<1>2. ASSUME NEW d \in RetentionCommands, officer'[d].step # "none"
      PROVE  d # c /\ officer'[d] = officer[d]
  BY <1>1, <1>2, OfficersCarry, Zenon
<1>3. \A h \in Holds : hold[h] # Unwritten =>
        hold'[h] # Unwritten /\ hold'[h].placedBy = hold[h].placedBy
  BY DEF RetentionInv, RetentionTypes
<1>4. ASSUME NEW d \in RetentionCommands PROVE Judged(officer[d])'
  <2>1. CASE officer'[d].step = "none"
    BY <2>1 DEF Judged
  <2>2. CASE officer'[d].step # "none"
    <3>1. officer'[d] = officer[d]
      BY <1>2, <2>2
    <3>2. OfficerCarries(officer[d]) /\ Judged(officer[d])
      BY OfficerCarried
    <3>3. officer[d].step = "release" => officer[d].of \in Holds
      BY <3>2 DEF OfficerCarries
    <3>4. officer[d].step \in {"record", "result"} => officer[d].of \in Disposals
      BY <3>2 DEF OfficerCarries, Recording
    <3>5. officer[d].step = "decide" => officer[d].of \in Recalls
      BY <3>2 DEF OfficerCarries
    <3> QED BY <1>3, <3>1, <3>2, <3>3, <3>4, <3>5 DEF Judged
  <2> QED BY <2>1, <2>2
<1>5. ClearedCommands'
  <2> SUFFICES ASSUME NEW d \in RetentionCommands, officer'[d].step \in {"create", "result"}
               PROVE  Free(officer[d].record, officer[d].at)'
    BY DEF ClearedCommands
  <2>1. officer'[d] = officer[d]
    BY <1>2
  <2>2. officer[d].at \in Nat /\ officer[d].at <= clock
    BY <2>1, OfficerCarried DEF OfficerCarries, Preparing, Recording
  <2>3. Free(officer[d].record, officer[d].at)
    BY <2>1 DEF RetentionInv, ClearedCommands
  <2>4. PICK r, time : r = officer[d].record /\ time = officer[d].at
    OBVIOUS
  <2>5. Free(r, time)'
    BY <2>2, <2>3, <2>4, FreeStays
  <2> QED BY <2>1, <2>4, <2>5 DEF Free, Stands
<1> QED BY <1>4, <1>5 DEF RetentionInv

\* A hold may be stored or released, in the way of what is cleared already or not, and past
\* disposals stay free.
LEMMA HoldsStayRespected ==
  ASSUME RetentionInv, UNCHANGED <<clock, disposal>>,
         \/ UNCHANGED hold
         \/ \E h \in Holds : \E g :
              /\ hold' = [hold EXCEPT ![h] = g]
              /\ \/ g.stored = clock
                 \/ /\ hold[h] # Unwritten /\ hold[h].state = "ACTIVE"
                    /\ g.record = hold[h].record /\ g.stored = hold[h].stored
  PROVE  HoldsAreRespected'
<1> SUFFICES ASSUME NEW j \in Disposals, NEW h \in Holds, disposal[j] # Unwritten
             PROVE  /\ ~Stands(h, disposal[j].record, disposal[j].preparedAt)'
                    /\ disposal[j].state \in Terminal =>
                         ~Stands(h, disposal[j].record, disposal[j].recordedAt)'
  BY DEF HoldsAreRespected
<1>1. DisposalRow(disposal[j])
  BY DEF RetentionInv, RetentionTypes
<1>2. PICK r, t, s : r = disposal[j].record /\ t = disposal[j].preparedAt /\ s = disposal[j].recordedAt
  BY Zenon
<1>3. t \in Nat /\ t <= clock /\ (disposal[j].state \in Terminal => s \in Nat /\ s <= clock)
  BY <1>1, <1>2 DEF DisposalRow
<1>4. Free(r, t) /\ (disposal[j].state \in Terminal => Free(r, s))
  BY <1>2 DEF RetentionInv, HoldsAreRespected, Free
<1>5. Free(r, t)' /\ (disposal[j].state \in Terminal => Free(r, s)')
  BY <1>3, <1>4, FreeStays
<1> QED BY <1>2, <1>5 DEF Free, Stands

LEMMA InsertPlacedInv ==
  ASSUME RetentionInv, NEW c \in RetentionCommands, InsertPlaced(c)
  PROVE  RetentionInv'
<1> DEFINE p == officer[c]
           g == [state |-> "ACTIVE", record |-> p.record, placedBy |-> p.by, placedAt |-> p.at,
                 stored |-> clock]
<1>1. /\ p.step = "place" /\ officer' = [officer EXCEPT ![c] = AtRest]
      /\ UNCHANGED <<clock, disposal, recall>>
      /\ hold' = IF hold[p.of] # Unwritten THEN hold ELSE [hold EXCEPT ![p.of] = g]
  BY DEF InsertPlaced, Returns
<1>2. p.of \in Holds /\ p.by \in Officers /\ p.record \in Records /\ p.at \in Nat /\ p.at <= clock
  BY <1>1, OfficerCarried DEF OfficerCarries
<1>3. clock \in Nat /\ g # Unwritten /\ g.stored = clock /\ HoldRow(g)
  <2>1. clock \in Nat
    BY DEF RetentionInv, RetentionTypes
  <2> QED BY <1>2, <2>1 DEF HoldRow, Unwritten
<1> HIDE DEF g
<1>4. OfficerCarries(AtRest)
  BY DEF OfficerCarries, AtRest
<1>5. RetentionTypes'
  <2>1. DOMAIN hold' = Holds /\ \A h \in Holds : HoldRow(hold'[h])
    BY <1>1, <1>2, <1>3 DEF RetentionInv, RetentionTypes
  <2> QED BY <1>1, <1>4, <2>1, OfficersCarry, Zenon DEF RetentionInv, RetentionTypes, HoldRow,
             DisposalRow
<1>6. HoldsAreRespected'
  BY <1>1, <1>2, <1>3, HoldsStayRespected, Zenon
<1> QED BY <1>1, <1>2, <1>3, <1>5, <1>6, ReturnsInv, Zenon

LEMMA InsertReleasedInv ==
  ASSUME RetentionInv, NEW c \in RetentionCommands, InsertReleased(c)
  PROVE  RetentionInv'
<1> DEFINE p == officer[c]
           h == hold[p.of]
           g == [state |-> "RELEASED", record |-> h.record, placedBy |-> h.placedBy,
                 placedAt |-> h.placedAt, stored |-> h.stored, releasedBy |-> p.by, releasedAt |-> p.at]
<1>1. /\ p.step = "release" /\ officer' = [officer EXCEPT ![c] = AtRest]
      /\ UNCHANGED <<clock, disposal, recall>>
      /\ hold' = IF h.state # "ACTIVE" THEN hold ELSE [hold EXCEPT ![p.of] = g]
  BY DEF InsertReleased, Returns, MayRelease
<1>2. /\ p.of \in Holds /\ p.by \in Officers /\ p.at \in Nat /\ p.at <= clock
      /\ h # Unwritten /\ h.placedBy # p.by
  BY <1>1, OfficerCarried DEF OfficerCarries, Judged
<1>3. HoldRow(h)
  BY <1>2 DEF RetentionInv, RetentionTypes
<1>4. HoldRow(g) /\ g # Unwritten /\ g.record = h.record /\ g.placedBy = h.placedBy /\ g.stored = h.stored
  BY <1>2, <1>3 DEF HoldRow, Unwritten
<1> HIDE DEF g
<1>5. OfficerCarries(AtRest)
  BY DEF OfficerCarries, AtRest
<1>6. RetentionTypes'
  <2>1. DOMAIN hold' = Holds /\ \A k \in Holds : HoldRow(hold'[k])
    BY <1>1, <1>2, <1>4 DEF RetentionInv, RetentionTypes
  <2> QED BY <1>1, <1>5, <2>1, OfficersCarry, Zenon DEF RetentionInv, RetentionTypes, HoldRow,
             DisposalRow
<1>7. HoldsAreRespected'
  BY <1>1, <1>2, <1>4, HoldsStayRespected, Zenon
<1>8. \/ UNCHANGED hold
      \/ \E k \in Holds : \E f :
           /\ hold' = [hold EXCEPT ![k] = f] /\ f # Unwritten
           /\ /\ hold[k] # Unwritten /\ hold[k].state = "ACTIVE" /\ f.placedBy = hold[k].placedBy
              /\ f.record = hold[k].record /\ f.stored = hold[k].stored
  BY <1>1, <1>2, <1>4, Zenon
<1> QED BY <1>1, <1>6, <1>7, <1>8, ReturnsInv, Zenon

\* A disposal that was cleared is written.
LEMMA DisposalWrittenInv ==
  ASSUME RetentionInv, NEW c \in RetentionCommands, officer' = [officer EXCEPT ![c] = AtRest],
         UNCHANGED <<clock, hold, recall>>, NEW j \in Disposals, NEW d,
         disposal' = [disposal EXCEPT ![j] = d], d # Unwritten, DisposalRow(d),
         disposal[j] # Unwritten => d.record = disposal[j].record /\ d.preparedBy = disposal[j].preparedBy,
         Free(d.record, d.preparedAt), d.state \in Terminal => Free(d.record, d.recordedAt)
  PROVE  RetentionInv'
<1>1. /\ DOMAIN disposal = Disposals /\ disposal'[j] = d
      /\ \A k \in Disposals \ {j} : disposal'[k] = disposal[k]
  BY DEF RetentionInv, RetentionTypes
<1>2. OfficerCarries(AtRest)
  BY DEF OfficerCarries, AtRest
<1>3. RetentionTypes'
  <2>1. DOMAIN disposal' = Disposals /\ \A k \in Disposals : DisposalRow(disposal'[k])
    BY <1>1 DEF RetentionInv, RetentionTypes
  <2> QED BY <1>2, <2>1, OfficersCarry, Zenon DEF RetentionInv, RetentionTypes, HoldRow, DisposalRow
<1>4. HoldsAreRespected'
  BY <1>1 DEF RetentionInv, HoldsAreRespected, Free, Stands
<1> QED BY <1>1, <1>3, <1>4, ReturnsInv, Zenon

\* A transaction that finds nothing to write.
LEMMA NothingWrittenInv ==
  ASSUME RetentionInv, NEW c \in RetentionCommands, officer' = [officer EXCEPT ![c] = AtRest],
         UNCHANGED <<clock, hold, disposal, recall>>
  PROVE  RetentionInv'
<1>1. OfficerCarries(AtRest) /\ Judged(AtRest) /\ AtRest.step = "none"
  BY DEF OfficerCarries, Judged, AtRest
<1> QED BY <1>1, OfficerMovesInv, Zenon

LEMMA CreateDisposalInv ==
  ASSUME RetentionInv, NEW c \in RetentionCommands, CreateDisposal(c)
  PROVE  RetentionInv'
<1> DEFINE p == officer[c]
           d == [state |-> "PREPARED", record |-> p.record, preparedBy |-> p.by, preparedAt |-> p.at]
<1>1. /\ p.step = "create" /\ officer' = [officer EXCEPT ![c] = AtRest]
      /\ UNCHANGED <<clock, hold, recall>>
      /\ disposal' = IF disposal[p.of] # Unwritten THEN disposal ELSE [disposal EXCEPT ![p.of] = d]
  BY DEF CreateDisposal, Returns
<1>2. p \in Preparing /\ p.at <= clock /\ Free(p.record, p.at)
  BY <1>1, OfficerCarried DEF OfficerCarries, RetentionInv, ClearedCommands
<1>3. /\ p.of \in Disposals /\ d # Unwritten /\ DisposalRow(d) /\ d.state \notin Terminal
      /\ d.record = p.record /\ d.preparedAt = p.at
  BY <1>2 DEF Preparing, DisposalRow, Unwritten, Terminal
<1> HIDE DEF d
<1> QED BY <1>1, <1>2, <1>3, DisposalWrittenInv, NothingWrittenInv, Zenon

LEMMA InsertResultInv ==
  ASSUME RetentionInv, NEW c \in RetentionCommands, InsertResult(c)
  PROVE  RetentionInv'
<1> DEFINE p == officer[c]
           e == disposal[p.of]
           d == [state |-> p.outcome, record |-> e.record, preparedBy |-> e.preparedBy,
                 preparedAt |-> e.preparedAt, recordedBy |-> p.by, recordedAt |-> p.at]
<1>1. /\ p.step = "result" /\ officer' = [officer EXCEPT ![c] = AtRest]
      /\ UNCHANGED <<clock, hold, recall>>
      /\ disposal' = IF e.state # "PREPARED" THEN disposal ELSE [disposal EXCEPT ![p.of] = d]
  BY DEF InsertResult, Returns, Recordable
<1>2. /\ p \in Recording /\ p.at <= clock /\ Free(p.record, p.at)
      /\ e # Unwritten /\ e.record = p.record /\ e.preparedBy # p.by
  BY <1>1, OfficerCarried DEF OfficerCarries, Judged, RetentionInv, ClearedCommands
<1>3. p.of \in Disposals /\ p.outcome \in Terminal /\ p.at \in Nat
  BY <1>2 DEF Recording
<1>4. DisposalRow(e) /\ Free(e.record, e.preparedAt)
  BY <1>2, <1>3 DEF RetentionInv, RetentionTypes, HoldsAreRespected, Free
<1>5. /\ d # Unwritten /\ DisposalRow(d) /\ d.record = e.record /\ d.preparedAt = e.preparedAt
      /\ d.recordedAt = p.at /\ d.preparedBy = e.preparedBy
  BY <1>2, <1>3, <1>4 DEF DisposalRow, Unwritten, Terminal
<1> HIDE DEF d
<1> QED BY <1>1, <1>2, <1>3, <1>4, <1>5, DisposalWrittenInv, NothingWrittenInv, Zenon

LEMMA InsertDecisionInv ==
  ASSUME RetentionInv, NEW c \in RetentionCommands, InsertDecision(c)
  PROVE  RetentionInv'
<1> DEFINE p == officer[c]
           row == [recall[p.of] EXCEPT !.state = p.verdict, !.decidedBy = p.by]
<1>1. /\ p.step = "decide" /\ officer' = [officer EXCEPT ![c] = AtRest]
      /\ UNCHANGED <<clock, hold, disposal>>
      /\ recall' = IF recall[p.of].state # "PENDING" THEN recall
                   ELSE [recall EXCEPT ![p.of].state = p.verdict, ![p.of].decidedBy = p.by]
  BY DEF InsertDecision, Returns
<1>2. /\ p.of \in Recalls /\ p.by \in Officers /\ p.verdict \in {"APPROVED", "REJECTED"}
      /\ recall[p.of] # Unwritten /\ recall[p.of].requestedBy # p.by
  BY <1>1, OfficerCarried DEF OfficerCarries, Judged
<1>3. CASE recall[p.of].state # "PENDING"
  BY <1>1, <1>3, NothingWrittenInv, Zenon
<1>4. CASE recall[p.of].state = "PENDING"
  <2>1. recall \in [Recalls -> RecallRow \cup {Unwritten}] /\ recall[p.of] \in RecallRow
    BY <1>2 DEF RetentionInv, RetentionTypes
  <2>2. /\ row \in RecallRow /\ row # Unwritten /\ row.decidedBy = p.by
        /\ row.requestedBy = recall[p.of].requestedBy
    BY <1>2, <2>1, Zenon DEF RecallRow, Unwritten
  <2>3. recall' = [recall EXCEPT ![p.of] = row]
    BY <1>1, <1>2, <1>4, <2>1, Zenon
  <2> HIDE DEF row
  <2>4. OfficerCarries(AtRest)
    BY DEF OfficerCarries, AtRest
  <2>5. recall' \in [Recalls -> RecallRow \cup {Unwritten}]
    BY <1>2, <2>1, <2>2, <2>3
  <2>6. \A q \in Recalls : recall'[q] # Unwritten /\ recall'[q].state # "PENDING" =>
          recall'[q].decidedBy # recall'[q].requestedBy
    BY <1>2, <2>1, <2>2, <2>3 DEF RetentionInv, RetentionTypes
  <2>7. RetentionTypes'
    BY <1>1, <2>4, <2>5, <2>6, OfficersCarry, Zenon DEF RetentionInv, RetentionTypes, HoldRow,
       DisposalRow
  <2>8. HoldsAreRespected'
    BY <1>1, HoldsStayRespected
  <2>9. \A q \in Recalls : recall[q] # Unwritten =>
          recall'[q] # Unwritten /\ recall'[q].requestedBy = recall[q].requestedBy
    BY <1>2, <2>1, <2>2, <2>3
  <2> QED BY <1>1, <2>7, <2>8, <2>9, ReturnsInv, Zenon
<1> QED BY <1>3, <1>4

\* A recall is requested, or the clock goes on: what is past stays past.
LEMMA RequestRecallInv ==
  ASSUME RetentionInv, NEW q \in Recalls, NEW u \in Officers, RequestRecall(q, u)
  PROVE  RetentionInv'
<1> DEFINE row == [state |-> "PENDING", requestedBy |-> u, decidedBy |-> "none"]
<1>1. /\ recall[q] = Unwritten /\ recall' = [recall EXCEPT ![q] = row]
      /\ UNCHANGED <<clock, hold, disposal, officer>>
  BY DEF RequestRecall
<1>2. row \in RecallRow /\ row.state = "PENDING"
  BY DEF RecallRow
<1> HIDE DEF row
<1>3. RetentionTypes'
  BY <1>1, <1>2 DEF RetentionInv, RetentionTypes, HoldRow, DisposalRow, OfficerCarries
<1>4. ASSUME NEW c \in RetentionCommands PROVE Judged(officer[c])'
  <2>1. Judged(officer[c]) /\ OfficerCarries(officer[c])
    BY OfficerCarried
  <2>2. officer[c].step = "decide" => officer[c].of \in Recalls /\ officer[c].of # q
    BY <1>1, <2>1 DEF OfficerCarries, Judged
  <2>3. DOMAIN recall = Recalls
    BY DEF RetentionInv, RetentionTypes
  <2> QED BY <1>1, <2>1, <2>2, <2>3 DEF Judged
<1>5. ClearedCommands' /\ HoldsAreRespected'
  BY <1>1 DEF RetentionInv, ClearedCommands, HoldsAreRespected, Free, Stands
<1> QED BY <1>3, <1>4, <1>5 DEF RetentionInv

LEMMA PassesInv ==
  ASSUME RetentionInv, Passes
  PROVE  RetentionInv'
<1>1. /\ clock \in Nat /\ clock < MaxClock /\ MaxClock \in Nat /\ clock' = clock + 1
      /\ UNCHANGED <<hold, disposal, recall, officer>>
  BY RetentionAssumption DEF Passes, RetentionInv, RetentionTypes
<1>2. \A h \in Holds : HoldRow(hold[h])'
  BY <1>1 DEF RetentionInv, RetentionTypes, HoldRow
<1>3. \A j \in Disposals : DisposalRow(disposal[j])'
  BY <1>1 DEF RetentionInv, RetentionTypes, DisposalRow
<1>4. ASSUME NEW c \in RetentionCommands PROVE OfficerCarries(officer[c])'
  <2>1. OfficerCarries(officer[c])
    BY OfficerCarried
  <2>2. officer[c].step \in {"prepare", "create", "record", "result"} => officer[c].at \in Nat
    BY <2>1 DEF OfficerCarries, Preparing, Recording
  <2> QED BY <1>1, <2>1, <2>2 DEF OfficerCarries
<1>5. RetentionTypes'
  BY <1>1, <1>2, <1>3, <1>4 DEF RetentionInv, RetentionTypes
<1>6. \A c \in RetentionCommands : Judged(officer[c])'
  BY <1>1 DEF RetentionInv, Judged
<1>7. ClearedCommands' /\ HoldsAreRespected'
  BY <1>1 DEF RetentionInv, ClearedCommands, HoldsAreRespected, Free, Stands
<1> QED BY <1>5, <1>6, <1>7 DEF RetentionInv

LEMMA RetentionNextInv == RetentionInv /\ [RetentionNext]_retentionVars => RetentionInv'
<1> SUFFICES ASSUME RetentionInv, [RetentionNext]_retentionVars PROVE RetentionInv'
  OBVIOUS
<1>1. CASE UNCHANGED retentionVars
  <2>1. RetentionTypes'
    BY <1>1 DEF retentionVars, RetentionInv, RetentionTypes, HoldRow, DisposalRow, OfficerCarries
  <2>2. /\ \A c \in RetentionCommands : Judged(officer[c])'
        /\ ClearedCommands' /\ HoldsAreRespected'
    BY <1>1 DEF retentionVars, RetentionInv, Judged, ClearedCommands, HoldsAreRespected, Free,
       Stands
  <2> QED BY <2>1, <2>2 DEF RetentionInv
<1> QED
  BY <1>1, PassesInv, RequestRecallInv, InsertPlacedInv, InsertReleasedInv, EvaluateDisposalInv,
     CreateDisposalInv, InsertResultInv, InsertDecisionInv, CommandsBeginInv DEF RetentionNext

LEMMA RetentionInvSafe == RetentionInv => RetentionTypeOK /\ HoldsAreRespected /\ TwoOfficers
<1> SUFFICES ASSUME RetentionInv PROVE RetentionTypeOK /\ HoldsAreRespected /\ TwoOfficers
  OBVIOUS
<1>1. RetentionTypeOK
  BY DEF RetentionInv, RetentionTypes, HoldRow, DisposalRow, OfficerCarries, RetentionTypeOK,
     RecallRow
<1>2. TwoOfficers
  BY DEF RetentionInv, RetentionTypes, HoldRow, DisposalRow, TwoOfficers, Unwritten, Terminal
<1> QED BY <1>1, <1>2 DEF RetentionInv

\* The transactions that write to the tables.
LEMMA RetentionWriters ==
  ASSUME [RetentionNext]_retentionVars
  PROVE  \/ UNCHANGED <<hold, disposal, recall>>
         \/ \E q \in Recalls, u \in Officers : RequestRecall(q, u)
         \/ \E c \in RetentionCommands :
              \/ InsertPlaced(c) \/ InsertReleased(c) \/ CreateDisposal(c) \/ InsertResult(c)
              \/ InsertDecision(c)
<1>1. CASE UNCHANGED retentionVars \/ Passes
  BY <1>1 DEF retentionVars, Passes
<1>2. ASSUME NEW c, NEW u,
             \/ \E h \in Holds : ReleaseHold(c, h, u) \/ \E r \in Records : PlaceHold(c, h, u, r)
             \/ \E j \in Disposals :
                  \/ \E r \in Records : PrepareDisposal(c, j, u, r)
                  \/ \E outcome \in {"SUCCEEDED", "FAILED_TECHNICAL"} : RecordDisposal(c, j, u, outcome)
             \/ \E q \in Recalls, verdict \in {"APPROVED", "REJECTED"} : DecideRecall(c, q, u, verdict)
      PROVE  UNCHANGED <<hold, disposal, recall>>
  BY <1>2 DEF ReleaseHold, PlaceHold, PrepareDisposal, RecordDisposal, DecideRecall, Takes
<1>3. ASSUME NEW c, EvaluateDisposal(c) PROVE UNCHANGED <<hold, disposal, recall>>
  BY <1>3 DEF EvaluateDisposal
<1> QED BY <1>1, <1>2, <1>3 DEF RetentionNext

\* A transaction asks for the open state of the row it writes over.
LEMMA RetentionFinalStep == RetentionInv /\ [RetentionNext]_retentionVars => [RetentionIsFinal]_retentionVars
<1> SUFFICES ASSUME RetentionInv, [RetentionNext]_retentionVars PROVE RetentionIsFinal
  OBVIOUS
<1>1. /\ DOMAIN hold = Holds /\ DOMAIN disposal = Disposals
      /\ recall \in [Recalls -> RecallRow \cup {Unwritten}]
  BY DEF RetentionInv, RetentionTypes
<1>2. ASSUME NEW h \in Holds, hold[h].state = "RELEASED", hold'[h] # hold[h] PROVE FALSE
  <2>1. PICK c \in RetentionCommands : InsertPlaced(c) \/ InsertReleased(c)
    BY <1>2, RetentionWriters, Zenon DEF RequestRecall, CreateDisposal, InsertResult, InsertDecision
  <2>2. hold[h] # Unwritten
    BY <1>2 DEF Unwritten
  <2> QED BY <1>1, <1>2, <2>1, <2>2 DEF InsertPlaced, InsertReleased, MayRelease
<1>3. ASSUME NEW j \in Disposals, disposal[j].state \in Terminal, disposal'[j] # disposal[j] PROVE FALSE
  <2>1. PICK c \in RetentionCommands : CreateDisposal(c) \/ InsertResult(c)
    BY <1>3, RetentionWriters, Zenon DEF RequestRecall, InsertPlaced, InsertReleased, InsertDecision
  <2>2. disposal[j] # Unwritten /\ disposal[j].state # "PREPARED"
    BY <1>3 DEF Unwritten, Terminal
  <2> QED BY <1>1, <1>3, <2>1, <2>2 DEF CreateDisposal, InsertResult, Recordable
<1>4. ASSUME NEW q \in Recalls, recall[q].state \in {"APPROVED", "REJECTED"}, recall'[q] # recall[q]
      PROVE  FALSE
  <2>1. recall[q] # Unwritten /\ recall[q].state # "PENDING"
    BY <1>4 DEF Unwritten
  <2>2. \/ \E p \in Recalls, u \in Officers : RequestRecall(p, u)
        \/ \E c \in RetentionCommands : InsertDecision(c)
    BY <1>4, RetentionWriters, Zenon DEF InsertPlaced, InsertReleased, CreateDisposal, InsertResult
  <2>3. CASE \E p \in Recalls, u \in Officers : RequestRecall(p, u)
    BY <1>1, <1>4, <2>1, <2>3 DEF RequestRecall
  <2>4. CASE \E c \in RetentionCommands : InsertDecision(c)
    <3>1. PICK c \in RetentionCommands : InsertDecision(c)
      BY <2>4
    <3> DEFINE p == officer[c]
    <3>2. recall' = IF recall[p.of].state # "PENDING" THEN recall
                    ELSE [recall EXCEPT ![p.of].state = p.verdict, ![p.of].decidedBy = p.by]
      BY <3>1 DEF InsertDecision
    <3>3. CASE p.of = q
      BY <1>4, <2>1, <3>2, <3>3
    <3>4. CASE p.of # q
      BY <1>1, <1>4, <3>2, <3>4
    <3> QED BY <3>3, <3>4
  <2> QED BY <2>2, <2>3, <2>4
<1> QED BY <1>2, <1>3, <1>4 DEF RetentionIsFinal

-----------------------------------------------------------------------------
(* Tickets *)

CallSteps == {"acquire", "call", "enqueue", "release", "store", "postpone", "bury"} \cup Answers

CallRow == [step : CallSteps, mode : {"create", "retry"}, issue : Issues, key : TicketKeys,
            attempt : Nat, probe : BOOLEAN]

RetryRow == [status : {"PENDING", "PROCESSING", "COMPLETED", "DEAD_LETTER"}, key : TicketKeys,
             attempts : Nat, due : Nat]

CircuitRow == [state : {"CLOSED", "OPEN", "HALF_OPEN"}, failures : 0..Threshold, openedAt : Nat]

ServiceNowTypes ==
  /\ ticks \in Nat /\ ticks <= MaxTicks
  /\ ticket \in [Issues -> SUBSET TicketKeys]
  /\ link \in [Issues -> TicketKeys \cup {"none"}]
  /\ retry \in [Issues -> RetryRow \cup {NoRetry}]
  /\ circuit \in CircuitRow
  /\ caller \in [Callers -> CallRow \cup {NoCall}]
  /\ lostProbe \in BOOLEAN /\ lostClaims \subseteq Issues

\* Where a call may be as what: only a request is deferred, only a retry is given back or
\* failed; a probe has not been answered on record yet; and what is to be stored exists.
CallOK(m) ==
  m # NoCall =>
    /\ m.step = "enqueue" => m.mode = "create"
    /\ m.step \in {"release", "postpone", "bury"} => m.mode = "retry"
    /\ m.step = "postpone" => m.attempt < MaxTries
    /\ m.probe => m.step \in {"call"} \cup Answers
    /\ m.step \in {"ok", "store"} => m.key \in ticket[m.issue]

CallsOK == \A c \in Callers : CallOK(caller[c])

LinksExist == \A i \in Issues : link[i] # "none" => link[i] \in ticket[i]

\* Who has claimed a retry is the only one, and carries its key and its attempt; a claim that
\* was lost is nobody's.
ClaimsApart ==
  \A c \in Callers, i \in Issues : HasClaim(c, i) =>
    /\ retry[i].status = "PROCESSING" /\ retry[i].attempts = caller[c].attempt
    /\ retry[i].key = caller[c].key /\ i \notin lostClaims
    /\ \A d \in Callers \ {c} : ~HasClaim(d, i)

\* A retry in process counts its attempt, and stays there once its claim was lost.
Attempted ==
  \A i \in Issues : /\ retry[i].status = "PROCESSING" => retry[i].attempts > 0
                    /\ i \in lostClaims => retry[i].status = "PROCESSING"

ServiceNowInv ==
  /\ ServiceNowTypes /\ CallsOK /\ LinksExist /\ ClaimsApart /\ Attempted
  /\ HeldUntilRecorded /\ DeferredDeliveries

LEMMA ServiceNowInitInv == ServiceNowInit => ServiceNowInv
<1> SUFFICES ASSUME ServiceNowInit PROVE ServiceNowInv
  OBVIOUS
<1>1. Threshold \in Nat /\ MaxTicks \in Nat
  BY ServiceNowAssumption
<1>2. ServiceNowTypes
  <2>1. Closed \in CircuitRow
    BY <1>1 DEF CircuitRow, Closed
  <2>2. retry \in [Issues -> RetryRow \cup {NoRetry}] /\ caller \in [Callers -> CallRow \cup {NoCall}]
    BY DEF ServiceNowInit
  <2>3. ticket \in [Issues -> SUBSET TicketKeys] /\ link \in [Issues -> TicketKeys \cup {"none"}]
    BY DEF ServiceNowInit
  <2>4. ticks \in Nat /\ ticks <= MaxTicks /\ lostClaims \subseteq Issues
    BY <1>1 DEF ServiceNowInit
  <2>5. lostProbe \in BOOLEAN
    BY Zenon DEF ServiceNowInit
  <2> QED BY <2>1, <2>2, <2>3, <2>4, <2>5 DEF ServiceNowInit, ServiceNowTypes
<1>3. /\ CallsOK /\ LinksExist /\ ClaimsApart /\ Attempted
      /\ HeldUntilRecorded /\ DeferredDeliveries
  BY DEF ServiceNowInit, CallsOK, CallOK, LinksExist, ClaimsApart, Attempted, HeldUntilRecorded,
         DeferredDeliveries, HasClaim, NoCall, NoRetry, Closed
<1> QED BY <1>2, <1>3 DEF ServiceNowInv

\* A call that is under way has its row.
LEMMA CallUnderWay ==
  ASSUME ServiceNowInv, NEW c \in Callers, caller[c].step # "none"
  PROVE  caller[c] \in CallRow /\ caller[c] # NoCall /\ CallOK(caller[c])
BY DEF ServiceNowInv, ServiceNowTypes, CallsOK, NoCall

\* The claims of a call that moves: as before, gone, or new.
LEMMA ClaimsAfter ==
  ASSUME ServiceNowInv, NEW c \in Callers, NEW m, caller' = [caller EXCEPT ![c] = m]
  PROVE  /\ caller'[c] = m /\ \A d \in Callers \ {c} : caller'[d] = caller[d]
         /\ \A i : HasClaim(c, i)' <=> m.step # "none" /\ m.mode = "retry" /\ m.issue = i
         /\ \A d \in Callers \ {c} : \A i : HasClaim(d, i)' <=> HasClaim(d, i)
<1>1. caller'[c] = m /\ \A d \in Callers \ {c} : caller'[d] = caller[d]
  BY DEF ServiceNowInv, ServiceNowTypes
<1> QED BY <1>1 DEF HasClaim

\* Links stay, and what becomes one is a ticket; tickets stay.
LinksGrow ==
  \A i \in Issues : /\ ticket[i] \subseteq ticket'[i]
                    /\ IF link[i] # "none" THEN link'[i] = link[i]
                       ELSE link'[i] # "none" => link'[i] \in ticket'[i]

\* What links and tickets that grow leave as it is.
LEMMA LinksGrowKeeps ==
  ASSUME ServiceNowInv, LinksGrow
  PROVE  /\ LinksExist'
         /\ \A m : CallOK(m) /\ m \in CallRow => CallOK(m)'
         /\ \A i \in Issues : retry[i] # NoRetry /\ retry[i].status = "COMPLETED" =>
              link'[i] \in ticket'[i] /\ Payload[link'[i]] = Payload[retry[i].key]
<1>1. link \in [Issues -> TicketKeys \cup {"none"}]
  BY DEF ServiceNowInv, ServiceNowTypes
<1>2. LinksExist'
  BY DEF ServiceNowInv, LinksExist, LinksGrow
<1>3. ASSUME NEW m, CallOK(m), m \in CallRow PROVE CallOK(m)'
  BY <1>3 DEF CallOK, LinksGrow, CallRow
<1>4. ASSUME NEW i \in Issues, retry[i] # NoRetry, retry[i].status = "COMPLETED"
      PROVE  link'[i] \in ticket'[i] /\ Payload[link'[i]] = Payload[retry[i].key]
  <2>1. /\ link[i] \in ticket[i] /\ Payload[link[i]] = Payload[retry[i].key]
        /\ ticket[i] \subseteq TicketKeys
    BY <1>4 DEF ServiceNowInv, DeferredDeliveries, ServiceNowTypes
  <2>2. link[i] # "none"
    BY <2>1, ServiceNowAssumption
  <2> QED BY <2>1, <2>2 DEF LinksGrow
<1> QED BY <1>2, <1>3, <1>4

\* A call moves on, or begins or ends, with the claims it had.
LEMMA CallMovesInv ==
  ASSUME ServiceNowInv, NEW c \in Callers, NEW m \in CallRow \cup {NoCall}, CallOK(m)',
         caller' = [caller EXCEPT ![c] = m], ServiceNowTypes', LinksGrow, UNCHANGED <<retry, lostClaims>>,
         \A i : m.step # "none" /\ m.mode = "retry" /\ m.issue = i <=> HasClaim(c, i),
         \A i : HasClaim(c, i) => m.attempt = caller[c].attempt /\ m.key = caller[c].key,
         circuit'.state = "HALF_OPEN" => lostProbe' \/ \E d \in Callers : caller'[d].probe
  PROVE  ServiceNowInv'
<1>1. CallsOK'
  <2> SUFFICES ASSUME NEW d \in Callers PROVE CallOK(caller[d])'
    BY DEF CallsOK
  <2>1. CASE d = c
    BY <2>1, ClaimsAfter, Zenon DEF CallOK
  <2>2. CASE d # c
    <3>1. caller'[d] = caller[d] /\ CallOK(caller[d]) /\ caller[d] \in CallRow \cup {NoCall}
      BY <2>2, ClaimsAfter DEF ServiceNowInv, ServiceNowTypes, CallsOK
    <3>2. PICK n : n = caller[d]
      OBVIOUS
    <3>3. CASE n = NoCall
      BY <3>1, <3>2, <3>3 DEF CallOK
    <3>4. CASE n \in CallRow
      <4>1. CallOK(n)
        BY <3>1, <3>2 DEF CallOK
      <4>2. CallOK(n)'
        BY <3>4, <4>1, LinksGrowKeeps
      <4> QED BY <3>1, <3>2, <4>2 DEF CallOK
    <3> QED BY <3>1, <3>2, <3>3, <3>4
  <2> QED BY <2>1, <2>2
<1>2. ASSUME NEW d \in Callers, NEW i PROVE HasClaim(d, i)' <=> HasClaim(d, i)
  <2>1. CASE d = c
    <3>1. HasClaim(c, i)' <=> m.step # "none" /\ m.mode = "retry" /\ m.issue = i
      BY ClaimsAfter, Zenon
    <3> QED BY <2>1, <3>1 DEF HasClaim
  <2>2. CASE d # c
    BY <2>2, ClaimsAfter, Zenon
  <2> QED BY <2>1, <2>2
<1>3. ClaimsApart'
  <2>1. \A d \in Callers : \A i : HasClaim(d, i) => /\ caller'[d].attempt = caller[d].attempt
                                                  /\ caller'[d].key = caller[d].key
    BY ClaimsAfter
  <2> QED BY <1>2, <2>1 DEF ServiceNowInv, ClaimsApart
<1>4. Attempted'
  BY DEF ServiceNowInv, Attempted
<1>5. HeldUntilRecorded'
  BY <1>2 DEF ServiceNowInv, HeldUntilRecorded
<1>6. DeferredDeliveries'
  BY LinksGrowKeeps DEF ServiceNowInv, DeferredDeliveries
<1> QED BY <1>1, <1>3, <1>4, <1>5, <1>6, LinksGrowKeeps DEF ServiceNowInv

\* The others than a caller that ends, and the circuit: nobody who ends then has its probe.
LEMMA OthersGoOn ==
  ASSUME ServiceNowInv, NEW c \in Callers, caller' = [caller EXCEPT ![c] = NoCall], LinksGrow
  PROVE  /\ CallsOK' /\ \A i : ~HasClaim(c, i)'
         /\ \A d \in Callers \ {c} : /\ caller'[d] = caller[d]
                                      /\ \A i : HasClaim(d, i)' <=> HasClaim(d, i)
         /\ (circuit.state = "HALF_OPEN" /\ ~caller[c].probe =>
               lostProbe \/ \E d \in Callers : caller'[d].probe)
<1>1. caller'[c] = NoCall /\ \A d \in Callers \ {c} : caller'[d] = caller[d]
  BY ClaimsAfter, Zenon
<1>2. CallsOK'
  <2> SUFFICES ASSUME NEW d \in Callers, caller'[d] # NoCall PROVE CallOK(caller[d])'
    BY DEF CallsOK, CallOK
  <2>1. caller'[d] = caller[d] /\ CallOK(caller[d]) /\ caller[d] \in CallRow
    BY <1>1 DEF ServiceNowInv, ServiceNowTypes, CallsOK
  <2>2. PICK n : n = caller[d]
    OBVIOUS
  <2>3. CallOK(n)
    BY <2>1, <2>2 DEF CallOK
  <2>4. CallOK(n)'
    BY <2>1, <2>2, <2>3, LinksGrowKeeps
  <2> QED BY <2>1, <2>2, <2>4 DEF CallOK
<1>3. \A i : ~HasClaim(c, i)'
  BY <1>1 DEF HasClaim, NoCall
<1>4. circuit.state = "HALF_OPEN" /\ ~caller[c].probe =>
        lostProbe \/ \E d \in Callers : caller'[d].probe
  BY <1>1 DEF ServiceNowInv, HeldUntilRecorded
<1> QED BY <1>1, <1>2, <1>3, <1>4, ClaimsAfter, Zenon

\* Who had claimed a retry writes what becomes of it.
LEMMA ClaimEndsInv ==
  ASSUME ServiceNowInv, NEW c \in Callers, NEW i \in Issues, HasClaim(c, i), ~caller[c].probe,
         caller' = [caller EXCEPT ![c] = NoCall], LinksGrow, ServiceNowTypes',
         NEW row \in RetryRow, retry' = [retry EXCEPT ![i] = row], row.status # "PROCESSING",
         row.attempts <= MaxTries, row.status = "PENDING" => row.attempts < MaxTries,
         row.status = "COMPLETED" => link'[i] \in ticket'[i] /\ Payload[link'[i]] = Payload[row.key],
         UNCHANGED <<circuit, lostProbe, lostClaims>>
  PROVE  ServiceNowInv'
<1>1. retry'[i] = row /\ \A j \in Issues \ {i} : retry'[j] = retry[j]
  BY DEF ServiceNowInv, ServiceNowTypes
<1>2. \A d \in Callers : ~HasClaim(d, i)'
  BY OthersGoOn, Zenon DEF ServiceNowInv, ClaimsApart
<1>3. ClaimsApart'
  <2> SUFFICES ASSUME NEW d \in Callers, NEW j \in Issues, HasClaim(d, j)'
               PROVE  /\ retry'[j].status = "PROCESSING" /\ retry'[j].attempts = caller'[d].attempt
                      /\ retry'[j].key = caller'[d].key /\ j \notin lostClaims'
                      /\ \A e \in Callers \ {d} : ~HasClaim(e, j)'
    BY DEF ClaimsApart
  <2>1. j # i
    BY <1>2
  <2>2. d # c
    BY OthersGoOn, Zenon
  <2>3. HasClaim(d, j) /\ caller'[d] = caller[d]
    BY <2>2, OthersGoOn, Zenon
  <2>4. \A e \in Callers \ {d} : ~HasClaim(e, j)'
    BY <2>3, OthersGoOn, Zenon DEF ServiceNowInv, ClaimsApart
  <2> QED BY <1>1, <2>1, <2>3, <2>4 DEF ServiceNowInv, ClaimsApart
<1>4. Attempted'
  BY <1>1 DEF ServiceNowInv, Attempted, ClaimsApart
<1>5. HeldUntilRecorded'
  <2>1. circuit'.state = "HALF_OPEN" => lostProbe' \/ \E d \in Callers : caller'[d].probe
    BY OthersGoOn, Zenon
  <2>2. ASSUME NEW j \in Issues, retry'[j].status = "PROCESSING"
        PROVE  \/ j \in lostClaims'
               \/ \E d \in Callers : HasClaim(d, j)' /\ \A other \in Callers \ {d} : ~HasClaim(other, j)'
    <3>1. j # i /\ retry[j].status = "PROCESSING"
      BY <1>1, <2>2
    <3>2. ~HasClaim(c, j)
      BY <3>1 DEF HasClaim
    <3> QED BY <3>1, <3>2, OthersGoOn, Zenon DEF ServiceNowInv, HeldUntilRecorded
  <2> QED BY <2>1, <2>2 DEF HeldUntilRecorded
<1>6. DeferredDeliveries'
  BY <1>1, LinksGrowKeeps DEF ServiceNowInv, DeferredDeliveries
<1> QED BY <1>3, <1>4, <1>5, <1>6, OthersGoOn, LinksGrowKeeps, Zenon DEF ServiceNowInv

\* Who had claimed a retry is gone without writing to it.
LEMMA ClaimLostInv ==
  ASSUME ServiceNowInv, NEW c \in Callers, NEW i \in Issues, HasClaim(c, i),
         caller' = [caller EXCEPT ![c] = NoCall], lostClaims' = lostClaims \cup {i},
         lostProbe' = (lostProbe \/ caller[c].probe), UNCHANGED <<ticks, ticket, link, retry, circuit>>
  PROVE  ServiceNowInv'
<1>1. LinksGrow
  BY DEF LinksGrow, ServiceNowInv, LinksExist
<1>2. \A d \in Callers : ~HasClaim(d, i)'
  BY <1>1, OthersGoOn, Zenon DEF ServiceNowInv, ClaimsApart
<1>3. ServiceNowTypes'
  BY DEF ServiceNowInv, ServiceNowTypes
<1>4. ClaimsApart'
  <2> SUFFICES ASSUME NEW d \in Callers, NEW j \in Issues, HasClaim(d, j)'
               PROVE  /\ retry'[j].status = "PROCESSING" /\ retry'[j].attempts = caller'[d].attempt
                      /\ retry'[j].key = caller'[d].key /\ j \notin lostClaims'
                      /\ \A e \in Callers \ {d} : ~HasClaim(e, j)'
    BY DEF ClaimsApart
  <2>1. j # i
    BY <1>2
  <2>2. d # c
    BY <1>1, OthersGoOn, Zenon
  <2>3. HasClaim(d, j) /\ caller'[d] = caller[d]
    BY <1>1, <2>2, OthersGoOn, Zenon
  <2>4. \A e \in Callers \ {d} : ~HasClaim(e, j)'
    BY <1>1, <2>3, OthersGoOn, Zenon DEF ServiceNowInv, ClaimsApart
  <2> QED BY <2>1, <2>3, <2>4 DEF ServiceNowInv, ClaimsApart
<1>7. Attempted'
  BY DEF ServiceNowInv, Attempted, ClaimsApart
<1>5. HeldUntilRecorded'
  <2>1. circuit'.state = "HALF_OPEN" => lostProbe' \/ \E d \in Callers : caller'[d].probe
    BY <1>1, OthersGoOn, Zenon
  <2>2. ASSUME NEW j \in Issues, retry'[j].status = "PROCESSING", j \notin lostClaims'
        PROVE  \E d \in Callers : HasClaim(d, j)' /\ \A other \in Callers \ {d} : ~HasClaim(other, j)'
    <3>1. j # i /\ ~HasClaim(c, j)
      BY <2>2 DEF HasClaim
    <3> QED BY <1>1, <2>2, <3>1, OthersGoOn, Zenon DEF ServiceNowInv, HeldUntilRecorded
  <2> QED BY <2>1, <2>2 DEF HeldUntilRecorded
<1>6. DeferredDeliveries'
  BY DEF ServiceNowInv, DeferredDeliveries
<1> QED BY <1>1, <1>3, <1>4, <1>5, <1>6, <1>7, OthersGoOn, LinksGrowKeeps, Zenon DEF ServiceNowInv

\* The types after a call has moved.
LEMMA TypesAfterMove ==
  ASSUME ServiceNowTypes, NEW c \in Callers, NEW m \in CallRow \cup {NoCall},
         caller' = [caller EXCEPT ![c] = m], ticks' = ticks,
         ticket' \in [Issues -> SUBSET TicketKeys], link' \in [Issues -> TicketKeys \cup {"none"}],
         retry' \in [Issues -> RetryRow \cup {NoRetry}], circuit' \in CircuitRow,
         lostProbe' \in BOOLEAN, lostClaims' \subseteq Issues
  PROVE  ServiceNowTypes'
<1>1. caller' \in [Callers -> CallRow \cup {NoCall}]
  BY DEF ServiceNowTypes
<1> QED BY <1>1 DEF ServiceNowTypes

LEMMA TicksInv == ServiceNowInv /\ Ticks => ServiceNowInv'
<1> SUFFICES ASSUME ServiceNowInv, Ticks PROVE ServiceNowInv'
  OBVIOUS
<1>1. ServiceNowTypes'
  BY ServiceNowAssumption DEF ServiceNowInv, ServiceNowTypes, Ticks, lost
<1>2. CallsOK' /\ LinksExist' /\ Attempted'
  BY DEF ServiceNowInv, CallsOK, CallOK, LinksExist, Attempted, Ticks, lost
<1>3. ClaimsApart'
  BY DEF ServiceNowInv, ClaimsApart, HasClaim, Ticks, lost
<1>4. HeldUntilRecorded'
  BY DEF ServiceNowInv, HeldUntilRecorded, HasClaim, Ticks, lost
<1>5. DeferredDeliveries'
  BY DEF ServiceNowInv, DeferredDeliveries, Ticks, lost
<1> QED BY <1>1, <1>2, <1>3, <1>4, <1>5 DEF ServiceNowInv

\* A retry that nobody has claimed is written, and stays unclaimed.
LEMMA UnclaimedWriteInv ==
  ASSUME ServiceNowInv, NEW i \in Issues, \A c \in Callers : ~HasClaim(c, i)',
         NEW row \in RetryRow, retry' = [retry EXCEPT ![i] = row], row.status = "PENDING",
         row.attempts < MaxTries, UNCHANGED <<ticks, ticket, link, circuit, lost>>, i \notin lostClaims,
         CallsOK', ServiceNowTypes', \A c \in Callers : caller'[c].probe <=> caller[c].probe,
         \A c \in Callers, j \in Issues : HasClaim(c, j)' => HasClaim(c, j) /\ caller'[c] = caller[c],
         \A c \in Callers, j \in Issues : HasClaim(c, j) => HasClaim(c, j)'
  PROVE  ServiceNowInv'
<1>1. retry'[i] = row /\ \A j \in Issues \ {i} : retry'[j] = retry[j]
  BY DEF ServiceNowInv, ServiceNowTypes
<1>2. LinksExist' /\ Attempted'
  BY <1>1 DEF ServiceNowInv, LinksExist, Attempted, lost
<1>3. ClaimsApart'
  <2> SUFFICES ASSUME NEW d \in Callers, NEW j \in Issues, HasClaim(d, j)'
               PROVE  /\ retry'[j].status = "PROCESSING" /\ retry'[j].attempts = caller'[d].attempt
                      /\ retry'[j].key = caller'[d].key /\ j \notin lostClaims'
                      /\ \A e \in Callers \ {d} : ~HasClaim(e, j)'
    BY DEF ClaimsApart
  <2>1. j # i /\ HasClaim(d, j) /\ caller'[d] = caller[d]
    OBVIOUS
  <2>2. \A e \in Callers \ {d} : ~HasClaim(e, j)'
    BY <2>1 DEF ServiceNowInv, ClaimsApart
  <2> QED BY <1>1, <2>1, <2>2 DEF ServiceNowInv, ClaimsApart, lost
<1>4. HeldUntilRecorded'
  <2>1. ASSUME NEW j \in Issues, retry'[j].status = "PROCESSING", j \notin lostClaims'
        PROVE  \E d \in Callers : HasClaim(d, j)' /\ \A other \in Callers \ {d} : ~HasClaim(other, j)'
    <3>1. j # i /\ retry[j].status = "PROCESSING" /\ j \notin lostClaims
      BY <1>1, <2>1 DEF lost
    <3>2. PICK d \in Callers : HasClaim(d, j) /\ \A other \in Callers \ {d} : ~HasClaim(other, j)
      BY <3>1 DEF ServiceNowInv, HeldUntilRecorded
    <3> QED BY <3>2
  <2>2. circuit'.state = "HALF_OPEN" => lostProbe' \/ \E d \in Callers : caller'[d].probe
    BY DEF ServiceNowInv, HeldUntilRecorded, lost
  <2> QED BY <2>1, <2>2 DEF HeldUntilRecorded
<1>5. DeferredDeliveries'
  <2> SUFFICES ASSUME NEW j \in Issues, retry'[j] # NoRetry
               PROVE  /\ retry'[j].attempts <= MaxTries
                      /\ retry'[j].status = "PENDING" => retry'[j].attempts < MaxTries
                      /\ retry'[j].status = "COMPLETED" =>
                           link'[j] \in ticket'[j] /\ Payload[link'[j]] = Payload[retry'[j].key]
    BY DEF DeferredDeliveries
  <2>1. row.attempts \in Nat /\ MaxTries \in Nat
    BY ServiceNowAssumption DEF RetryRow
  <2>2. CASE j = i
    BY <1>1, <2>1, <2>2
  <2>3. CASE j # i
    BY <1>1, <2>3 DEF ServiceNowInv, DeferredDeliveries
  <2> QED BY <2>2, <2>3
<1> QED BY <1>2, <1>3, <1>4, <1>5 DEF ServiceNowInv

LEMMA RequeueInv ==
  ASSUME ServiceNowInv, NEW i \in Issues, RequeueDeadLetter(i)
  PROVE  ServiceNowInv'
<1> DEFINE row == [retry[i] EXCEPT !.status = "PENDING", !.attempts = 0, !.due = ticks]
<1>1. /\ retry[i] \in RetryRow /\ ticks \in Nat /\ MaxTries \in Nat \ {0}
      /\ retry[i].status = "DEAD_LETTER" /\ i \notin lostClaims
  BY ServiceNowAssumption DEF ServiceNowInv, ServiceNowTypes, Attempted, RequeueDeadLetter, NoRetry
<1>2. row \in RetryRow
  BY <1>1, Zenon DEF RetryRow
<1>10. row.status = "PENDING" /\ row.attempts < MaxTries
  BY <1>1 DEF RetryRow
<1>3. retry' = [retry EXCEPT ![i] = row]
  BY Zenon DEF RequeueDeadLetter, ServiceNowInv, ServiceNowTypes
<1>4. \A c \in Callers : ~HasClaim(c, i)
  BY DEF ServiceNowInv, ClaimsApart, RequeueDeadLetter
<1>5. \A c \in Callers : ~HasClaim(c, i)'
  BY <1>4 DEF HasClaim, RequeueDeadLetter
<1>6. ServiceNowTypes'
  BY <1>2, <1>3 DEF ServiceNowInv, ServiceNowTypes, RequeueDeadLetter, lost
<1>7. CallsOK'
  BY DEF ServiceNowInv, CallsOK, CallOK, RequeueDeadLetter
<1>8. \A c \in Callers : \A j : HasClaim(c, j)' <=> HasClaim(c, j)
  BY DEF HasClaim, RequeueDeadLetter
<1>9. UNCHANGED <<ticks, ticket, link, circuit, caller, lost>>
  BY DEF RequeueDeadLetter
<1> HIDE DEF row
<1> QED BY <1>1, <1>2, <1>3, <1>5, <1>6, <1>7, <1>8, <1>9, <1>10, UnclaimedWriteInv, Zenon

LEMMA ClaimRetryInv ==
  ASSUME ServiceNowInv, NEW c \in Callers, NEW i \in Issues, ClaimRetry(c, i)
  PROVE  ServiceNowInv'
<1> DEFINE row == [retry[i] EXCEPT !.status = "PROCESSING", !.attempts = @ + 1]
           m == [step |-> "acquire", mode |-> "retry", issue |-> i, key |-> retry[i].key,
                 attempt |-> retry[i].attempts + 1, probe |-> FALSE]
<1>1. /\ retry[i] \in RetryRow /\ retry[i].status = "PENDING" /\ retry[i].attempts < MaxTries
      /\ MaxTries \in Nat
  BY ServiceNowAssumption
     DEF ServiceNowInv, ServiceNowTypes, DeferredDeliveries, ClaimRetry, IsDueRetry, NoRetry
<1>17. retry[i].attempts + 1 \in Nat
  BY <1>1 DEF RetryRow
<1>18. row \in RetryRow
  BY <1>1, <1>17, Zenon DEF RetryRow
<1>19. row.attempts = retry[i].attempts + 1
  BY <1>1 DEF RetryRow
<1>2. row \in RetryRow /\ row.attempts = retry[i].attempts + 1
  BY <1>18, <1>19
<1>10. row.status = "PROCESSING" /\ row.key = retry[i].key
  BY <1>1 DEF RetryRow
<1>11. /\ m \in CallRow /\ m.step = "acquire" /\ m.mode = "retry" /\ m.issue = i /\ ~m.probe
       /\ m.key = retry[i].key /\ m.attempt = retry[i].attempts + 1
  BY <1>1 DEF RetryRow, CallRow, CallSteps
<1>3. /\ retry' = [retry EXCEPT ![i] = row] /\ caller' = [caller EXCEPT ![c] = m]
      /\ caller[c] = NoCall /\ UNCHANGED <<ticks, ticket, link, circuit, lost>>
  BY Zenon DEF ClaimRetry, ServiceNowInv, ServiceNowTypes
<1> HIDE DEF row, m
<1>4. retry'[i] = row /\ \A j \in Issues \ {i} : retry'[j] = retry[j]
  BY <1>3 DEF ServiceNowInv, ServiceNowTypes
<1>5. /\ caller'[c] = m /\ \A d \in Callers \ {c} : caller'[d] = caller[d]
      /\ \A j : HasClaim(c, j)' <=> m.step # "none" /\ m.mode = "retry" /\ m.issue = j
      /\ \A d \in Callers \ {c} : \A j : HasClaim(d, j)' <=> HasClaim(d, j)
  BY <1>3, ClaimsAfter, Zenon
<1>6. \A j : HasClaim(c, j)' <=> j = i
  BY <1>5, <1>11
<1>7. \A d \in Callers : ~HasClaim(d, i)
  BY <1>1 DEF ServiceNowInv, ClaimsApart
<1>8. i \notin lostClaims
  BY <1>1 DEF ServiceNowInv, Attempted
<1>9. ServiceNowTypes'
  BY <1>2, <1>3, <1>11, TypesAfterMove DEF ServiceNowInv, ServiceNowTypes, lost
<1>12. CallsOK'
  BY <1>3, <1>5, <1>11 DEF ServiceNowInv, CallsOK, CallOK, Answers
<1>13. LinksExist' /\ Attempted'
  BY <1>1, <1>2, <1>3, <1>4, <1>8 DEF ServiceNowInv, LinksExist, Attempted, lost, RetryRow
<1>14. ClaimsApart'
  <2> SUFFICES ASSUME NEW d \in Callers, NEW j \in Issues, HasClaim(d, j)'
               PROVE  /\ retry'[j].status = "PROCESSING" /\ retry'[j].attempts = caller'[d].attempt
                      /\ retry'[j].key = caller'[d].key /\ j \notin lostClaims'
                      /\ \A e \in Callers \ {d} : ~HasClaim(e, j)'
    BY DEF ClaimsApart
  <2>1. CASE d = c
    BY <1>2, <1>3, <1>4, <1>5, <1>6, <1>7, <1>8, <1>10, <1>11, <2>1 DEF lost
  <2>2. CASE d # c
    <3>1. j # i /\ HasClaim(d, j)
      BY <1>5, <1>7, <2>2
    <3> QED BY <1>3, <1>4, <1>5, <1>6, <2>2, <3>1 DEF ServiceNowInv, ClaimsApart, lost
  <2> QED BY <2>1, <2>2
<1>15. HeldUntilRecorded'
  <2>1. ASSUME NEW j \in Issues, retry'[j].status = "PROCESSING", j \notin lostClaims'
        PROVE  \E d \in Callers : HasClaim(d, j)' /\ \A other \in Callers \ {d} : ~HasClaim(other, j)'
    <3>1. CASE j = i
      BY <1>5, <1>6, <1>7, <3>1
    <3>2. CASE j # i
      <4>1. retry[j].status = "PROCESSING" /\ j \notin lostClaims
        BY <1>3, <1>4, <2>1, <3>2 DEF lost
      <4>2. PICK d \in Callers : HasClaim(d, j) /\ \A other \in Callers \ {d} : ~HasClaim(other, j)
        BY <4>1 DEF ServiceNowInv, HeldUntilRecorded
      <4>3. d # c
        BY <1>3, <4>2 DEF HasClaim, NoCall
      <4> QED BY <1>5, <1>6, <3>2, <4>2, <4>3
    <3> QED BY <3>1, <3>2
  <2>2. circuit'.state = "HALF_OPEN" => lostProbe' \/ \E d \in Callers : caller'[d].probe
    BY <1>3, <1>5 DEF ServiceNowInv, HeldUntilRecorded, lost, NoCall
  <2> QED BY <2>1, <2>2 DEF HeldUntilRecorded
<1>16. DeferredDeliveries'
  <2> SUFFICES ASSUME NEW j \in Issues, retry'[j] # NoRetry
               PROVE  /\ retry'[j].attempts <= MaxTries
                      /\ retry'[j].status = "PENDING" => retry'[j].attempts < MaxTries
                      /\ retry'[j].status = "COMPLETED" =>
                           link'[j] \in ticket'[j] /\ Payload[link'[j]] = Payload[retry'[j].key]
    BY DEF DeferredDeliveries
  <2>1. CASE j = i
    BY <1>1, <1>2, <1>4, <1>10, <2>1 DEF RetryRow
  <2>2. CASE j # i
    BY <1>3, <1>4, <2>2 DEF ServiceNowInv, DeferredDeliveries
  <2> QED BY <2>1, <2>2
<1> QED BY <1>9, <1>12, <1>13, <1>14, <1>15, <1>16 DEF ServiceNowInv

\* A circuit after a failure has its type, and is never half open.
LEMMA FailedCircuitType ==
  ASSUME ServiceNowInv
  PROVE  FailedCircuit \in CircuitRow /\ FailedCircuit.state # "HALF_OPEN"
<1>1. circuit \in CircuitRow /\ ticks \in Nat /\ Threshold \in Nat \ {0}
  BY ServiceNowAssumption DEF ServiceNowInv, ServiceNowTypes
<1>2. CASE circuit.state = "HALF_OPEN" \/ (circuit.state = "CLOSED" /\ circuit.failures + 1 >= Threshold)
  <2>1. FailedCircuit = [state |-> "OPEN", failures |-> Threshold, openedAt |-> ticks]
    BY <1>2 DEF FailedCircuit
  <2> QED BY <1>1, <2>1 DEF CircuitRow
<1>3. CASE circuit.state = "CLOSED" /\ ~(circuit.failures + 1 >= Threshold)
  <2>1. FailedCircuit = [circuit EXCEPT !.failures = @ + 1]
    BY <1>3 DEF FailedCircuit
  <2>2. circuit.failures + 1 \in 0..Threshold
    BY <1>1, <1>3 DEF CircuitRow
  <2> QED BY <1>1, <1>3, <2>1, <2>2 DEF CircuitRow
<1>4. CASE circuit.state = "OPEN"
  <2>1. FailedCircuit = circuit
    BY <1>4 DEF FailedCircuit
  <2> QED BY <1>1, <1>4, <2>1
<1> QED BY <1>1, <1>2, <1>3, <1>4 DEF CircuitRow

LEMMA CircuitAfterType ==
  ASSUME ServiceNowInv, NEW answer
  PROVE  CircuitAfter(answer) \in CircuitRow /\ CircuitAfter(answer).state # "HALF_OPEN"
<1>1. Closed \in CircuitRow /\ Closed.state # "HALF_OPEN"
  BY ServiceNowAssumption DEF Closed, CircuitRow
<1> QED BY <1>1, FailedCircuitType DEF CircuitAfter

\* Nothing is linked or created.
LEMMA LinksUntouched ==
  ASSUME ServiceNowInv, UNCHANGED <<ticket, link>>
  PROVE  LinksGrow
BY DEF LinksGrow, ServiceNowInv, LinksExist

LEMMA CreateTicketInv ==
  ASSUME ServiceNowInv, NEW c \in Callers, NEW i \in Issues, NEW k \in TicketKeys, CreateTicket(c, i, k)
  PROVE  ServiceNowInv'
<1> DEFINE m == [step |-> "acquire", mode |-> "create", issue |-> i, key |-> k, attempt |-> 1,
                 probe |-> FALSE]
<1>1. /\ caller[c] = NoCall /\ caller' = [caller EXCEPT ![c] = m]
      /\ UNCHANGED <<ticks, ticket, link, retry, circuit, lostProbe, lostClaims>>
  BY DEF CreateTicket, lost
<1>2. m \in CallRow /\ m.step = "acquire" /\ m.mode = "create" /\ ~m.probe
  BY DEF CallRow, CallSteps
<1> HIDE DEF m
<1>3. CallOK(m)'
  BY <1>2 DEF CallOK, Answers
<1>4. \A j : ~HasClaim(c, j)
  BY <1>1 DEF HasClaim, NoCall
<1>5. ServiceNowTypes'
  BY <1>1, <1>2, TypesAfterMove DEF ServiceNowInv, ServiceNowTypes
<1>6. circuit'.state = "HALF_OPEN" => lostProbe' \/ \E d \in Callers : caller'[d].probe
  <2>1. \A d \in Callers \ {c} : caller'[d] = caller[d]
    BY <1>1, ClaimsAfter
  <2> QED BY <1>1, <2>1 DEF ServiceNowInv, HeldUntilRecorded, NoCall
<1> QED BY <1>1, <1>2, <1>3, <1>4, <1>5, <1>6, LinksUntouched, CallMovesInv, Zenon

LEMMA AcquireCircuitInv ==
  ASSUME ServiceNowInv, NEW c \in Callers, AcquireCircuit(c)
  PROVE  ServiceNowInv'
<1>1. /\ caller[c] \in CallRow /\ caller[c].step = "acquire" /\ CallOK(caller[c]) /\ ~caller[c].probe
      /\ UNCHANGED <<ticks, ticket, link, retry, lostClaims>>
  BY CallUnderWay DEF AcquireCircuit, CallOK, Answers, NoCall
<1>2. Probes \in BOOLEAN
  BY Zenon DEF Probes
<1>3. ASSUME NEW m \in CallRow, caller' = [caller EXCEPT ![c] = m], m.mode = caller[c].mode,
             m.issue = caller[c].issue, m.key = caller[c].key, m.attempt = caller[c].attempt,
             CallOK(m)', m.step # "none", circuit' \in CircuitRow, lostProbe' \in BOOLEAN,
             circuit'.state = "HALF_OPEN" =>
               \/ m.probe
               \/ circuit.state = "HALF_OPEN" /\ (lostProbe => lostProbe')
      PROVE  ServiceNowInv'
  <2>1. ServiceNowTypes'
    BY <1>1, <1>3, TypesAfterMove DEF ServiceNowInv, ServiceNowTypes
  <2>2. \A i : m.step # "none" /\ m.mode = "retry" /\ m.issue = i <=> HasClaim(c, i)
    BY <1>1, <1>3 DEF HasClaim
  <2>3. \A d \in Callers \ {c} : caller'[d] = caller[d]
    BY <1>3, ClaimsAfter
  <2>4. caller'[c] = m
    BY <1>3, ClaimsAfter, Zenon
  <2>5. circuit'.state = "HALF_OPEN" => lostProbe' \/ \E d \in Callers : caller'[d].probe
    BY <1>1, <1>3, <2>3, <2>4 DEF ServiceNowInv, HeldUntilRecorded
  <2> QED BY <1>1, <1>3, <2>1, <2>2, <2>5, LinksUntouched, CallMovesInv, Zenon
<1>4. CASE circuit.state = "CLOSED" \/ Probes
  <2> DEFINE m == [caller[c] EXCEPT !.step = "call", !.probe = Probes]
  <2>1. caller' = [caller EXCEPT ![c] = m]
    BY <1>4, Zenon DEF AcquireCircuit, ServiceNowInv, ServiceNowTypes
  <2>2. m \in CallRow
    BY <1>1, <1>2, Zenon DEF CallRow, CallSteps
  <2>3. /\ m.mode = caller[c].mode /\ m.issue = caller[c].issue /\ m.key = caller[c].key
        /\ m.attempt = caller[c].attempt /\ m.step = "call"
    BY <1>1 DEF CallRow
  <2>4. m.probe = Probes
    BY <1>1 DEF CallRow
  <2>5. /\ circuit' = IF Probes THEN [circuit EXCEPT !.state = "HALF_OPEN"] ELSE circuit
        /\ lostProbe' = (lostProbe /\ ~Probes)
    BY <1>4 DEF AcquireCircuit
  <2> HIDE DEF m
  <2>10. PICK n : n = m
    OBVIOUS
  <2>6. CallOK(n)'
    BY <2>3, <2>10 DEF CallOK, Answers
  <2>7. circuit' \in CircuitRow
    BY <2>5 DEF ServiceNowInv, ServiceNowTypes, CircuitRow
  <2>8. lostProbe' \in BOOLEAN
    BY <2>5, Zenon
  <2>9. circuit'.state = "HALF_OPEN" => m.probe
    BY <1>4, <2>4, <2>5
  <2>11. n.step # "none"
    BY <2>3, <2>10
  <2> QED BY <1>3, <2>1, <2>2, <2>3, <2>6, <2>7, <2>8, <2>9, <2>10, <2>11, Zenon
<1>5. CASE ~(circuit.state = "CLOSED" \/ Probes)
  <2> DEFINE m == [caller[c] EXCEPT !.step = IF caller[c].mode = "retry" THEN "release" ELSE "enqueue"]
  <2>1. caller' = [caller EXCEPT ![c] = m] /\ UNCHANGED <<circuit, lostProbe>>
    BY <1>5 DEF AcquireCircuit, Moves, ServiceNowInv, ServiceNowTypes
  <2>2. m \in CallRow
    BY <1>1 DEF CallRow, CallSteps
  <2>3. /\ m.mode = caller[c].mode /\ m.issue = caller[c].issue /\ m.key = caller[c].key
        /\ m.attempt = caller[c].attempt /\ m.probe = caller[c].probe
        /\ m.step = IF caller[c].mode = "retry" THEN "release" ELSE "enqueue"
    BY <1>1 DEF CallRow
  <2> HIDE DEF m
  <2>5. PICK n : n = m
    OBVIOUS
  <2>4. CallOK(n)'
    BY <1>1, <2>2, <2>3, <2>5 DEF CallOK, CallRow, Answers
  <2>6. n.step # "none"
    BY <2>3, <2>5
  <2> QED BY <1>3, <2>1, <2>2, <2>3, <2>4, <2>5, <2>6, Zenon DEF ServiceNowInv, ServiceNowTypes
<1> QED BY <1>4, <1>5

\* A call goes on as what it is; who lets go of the probe says so or settles the circuit.
LEMMA CallGoesOnInv ==
  ASSUME ServiceNowInv, NEW c \in Callers, caller[c].step # "none", NEW m \in CallRow,
         caller' = [caller EXCEPT ![c] = m], m.mode = caller[c].mode, m.issue = caller[c].issue,
         m.key = caller[c].key, m.mode = "retry" => m.attempt = caller[c].attempt, CallOK(m)',
         m.step # "none", UNCHANGED <<ticks, link, retry, lostClaims>>,
         ticket' \in [Issues -> SUBSET TicketKeys], \A i \in Issues : ticket[i] \subseteq ticket'[i],
         circuit' \in CircuitRow, lostProbe' \in BOOLEAN,
         circuit'.state = "HALF_OPEN" =>
           m.probe \/ lostProbe' \/ (circuit.state = "HALF_OPEN" /\ ~lostProbe /\ ~caller[c].probe)
  PROVE  ServiceNowInv'
<1>1. ServiceNowTypes'
  BY TypesAfterMove DEF ServiceNowInv, ServiceNowTypes
<1>2. \A i : m.step # "none" /\ m.mode = "retry" /\ m.issue = i <=> HasClaim(c, i)
  BY DEF HasClaim
<1>3. caller'[c] = m /\ \A d \in Callers \ {c} : caller'[d] = caller[d]
  BY ClaimsAfter, Zenon
<1>4. circuit'.state = "HALF_OPEN" => lostProbe' \/ \E d \in Callers : caller'[d].probe
  BY <1>3 DEF ServiceNowInv, HeldUntilRecorded
<1>5. LinksGrow
  BY DEF LinksGrow, ServiceNowInv, LinksExist
<1>6. \A i : HasClaim(c, i) => m.attempt = caller[c].attempt /\ m.key = caller[c].key
  BY <1>2
<1> QED BY <1>1, <1>2, <1>4, <1>5, <1>6, CallMovesInv, Zenon

\* A request ends with nothing claimed.
LEMMA RequestEndsInv ==
  ASSUME ServiceNowInv, NEW c \in Callers, caller[c].step # "none", caller[c].mode = "create",
         caller' = [caller EXCEPT ![c] = NoCall], LinksGrow,
         UNCHANGED <<ticks, ticket, retry, lostClaims>>, link' \in [Issues -> TicketKeys \cup {"none"}],
         circuit' \in CircuitRow, lostProbe' \in BOOLEAN,
         circuit'.state = "HALF_OPEN" =>
           lostProbe' \/ (circuit.state = "HALF_OPEN" /\ ~lostProbe /\ ~caller[c].probe)
  PROVE  ServiceNowInv'
<1>1. ServiceNowTypes'
  BY TypesAfterMove DEF ServiceNowInv, ServiceNowTypes
<1>2. \A i : ~HasClaim(c, i)
  BY DEF HasClaim
<1>3. CallOK(NoCall)' /\ NoCall.step = "none"
  BY DEF CallOK, NoCall
<1>4. \A d \in Callers \ {c} : caller'[d] = caller[d]
  BY ClaimsAfter
<1>5. circuit'.state = "HALF_OPEN" => lostProbe' \/ \E d \in Callers : caller'[d].probe
  BY <1>4 DEF ServiceNowInv, HeldUntilRecorded
<1> QED BY <1>1, <1>2, <1>3, <1>5, CallMovesInv, Zenon

LEMMA CallAdapterInv ==
  ASSUME ServiceNowInv, NEW c \in Callers, NEW answer \in Answers, CallAdapter(c, answer)
  PROVE  ServiceNowInv'
<1>1. caller[c] \in CallRow /\ caller[c].step = "call" /\ CallOK(caller[c])
  BY CallUnderWay DEF CallAdapter
<1> DEFINE m == [caller[c] EXCEPT !.step = answer]
<1>2. caller' = [caller EXCEPT ![c] = m]
  BY DEF CallAdapter, Moves, ServiceNowInv, ServiceNowTypes
<1>3. m \in CallRow
  BY <1>1 DEF CallRow, CallSteps
<1>4. /\ m.mode = caller[c].mode /\ m.issue = caller[c].issue /\ m.key = caller[c].key
      /\ m.attempt = caller[c].attempt /\ m.probe = caller[c].probe /\ m.step = answer
  BY <1>1 DEF CallRow
<1> HIDE DEF m
<1>5. PICK n : n = m
  OBVIOUS
<1>6. caller[c].issue \in Issues /\ caller[c].key \in TicketKeys
  BY <1>1 DEF CallRow
<1>7. /\ ticket' \in [Issues -> SUBSET TicketKeys] /\ \A i \in Issues : ticket[i] \subseteq ticket'[i]
      /\ answer = "ok" => caller[c].key \in ticket'[caller[c].issue]
  BY <1>6 DEF CallAdapter, ServiceNowInv, ServiceNowTypes
<1>8. CallOK(n)'
  BY <1>4, <1>5, <1>7 DEF CallOK, Answers
<1>9. UNCHANGED <<ticks, link, retry, lostClaims, circuit, lostProbe>>
  BY DEF CallAdapter, lost
<1>10. circuit \in CircuitRow /\ lostProbe \in BOOLEAN
  BY DEF ServiceNowInv, ServiceNowTypes
<1>11. n.step # "none" /\ n \in CallRow
  BY <1>3, <1>4, <1>5 DEF Answers
<1>12. circuit'.state = "HALF_OPEN" =>
         n.probe \/ lostProbe' \/ (circuit.state = "HALF_OPEN" /\ ~lostProbe /\ ~caller[c].probe)
  BY <1>4, <1>5, <1>9
<1>13. /\ caller' = [caller EXCEPT ![c] = n] /\ n.mode = caller[c].mode /\ n.issue = caller[c].issue
       /\ n.key = caller[c].key /\ n.attempt = caller[c].attempt /\ caller[c].step # "none"
  BY <1>1, <1>2, <1>4, <1>5
<1> QED BY <1>7, <1>8, <1>9, <1>10, <1>11, <1>12, <1>13, CallGoesOnInv, Zenon

\* What comes after an answer.
LEMMA AfterAnswer ==
  ASSUME NEW answer \in Answers, NEW attempt
  PROVE  /\ AfterCreate(answer, attempt) \in {"store", "enqueue", "acquire", "end"}
         /\ AfterRetry(answer, attempt) \in {"store", "postpone", "bury"}
         /\ AfterRetry(answer, attempt) = "postpone" => attempt < MaxTries
         /\ "store" \in {AfterCreate(answer, attempt), AfterRetry(answer, attempt)} => answer = "ok"
<1>1. CASE answer = "ok"
  BY <1>1 DEF AfterCreate, AfterRetry, Transient
<1>2. CASE answer # "ok"
  BY <1>2 DEF AfterCreate, AfterRetry, Transient
<1> QED BY <1>1, <1>2

LEMMA RecordAnswerInv ==
  ASSUME ServiceNowInv, NEW c \in Callers, RecordAnswer(c)
  PROVE  ServiceNowInv'
<1>1. caller[c] \in CallRow /\ caller[c].step \in Answers /\ CallOK(caller[c])
  BY CallUnderWay DEF RecordAnswer, Answers
<1> DEFINE call == caller[c]
           step == IF call.mode = "create" THEN AfterCreate(call.step, call.attempt)
                   ELSE AfterRetry(call.step, call.attempt)
<1>2. /\ call.mode = "create" => step \in {"store", "enqueue", "acquire", "end"}
      /\ call.mode = "retry" => step \in {"store", "postpone", "bury"}
      /\ step = "postpone" => call.attempt < MaxTries
      /\ step = "store" => call.step = "ok"
      /\ call.mode \in {"create", "retry"}
  BY <1>1, AfterAnswer DEF CallRow
<1>3. circuit' \in CircuitRow /\ circuit'.state # "HALF_OPEN"
  BY CircuitAfterType DEF RecordAnswer
<1>4. lostProbe' \in BOOLEAN
  BY Zenon DEF RecordAnswer
<1>5. UNCHANGED <<ticks, ticket, link, retry, lostClaims>>
  BY DEF RecordAnswer
<1>6. CASE step = "end"
  <2>1. caller' = [caller EXCEPT ![c] = NoCall] /\ caller[c].mode = "create" /\ caller[c].step # "none"
    BY <1>1, <1>2, <1>6 DEF RecordAnswer, Ends, Answers
  <2> QED BY <1>3, <1>4, <1>5, <2>1, LinksUntouched, RequestEndsInv, Zenon DEF ServiceNowInv,
             ServiceNowTypes
<1>7. CASE step # "end"
  <2> DEFINE m == [caller[c] EXCEPT !.step = step, !.probe = FALSE,
                                    !.attempt = IF step = "acquire" THEN @ + 1 ELSE @]
  <2>1. caller' = [caller EXCEPT ![c] = m]
    BY <1>7, Zenon DEF RecordAnswer, ServiceNowInv, ServiceNowTypes
  <2>2. step \in CallSteps /\ step \notin {"ok", "release", "none"}
    BY <1>2, <1>7 DEF CallSteps
  <2> HIDE DEF step
  <2>11. (IF step = "acquire" THEN caller[c].attempt + 1 ELSE caller[c].attempt) \in Nat
    BY <1>1 DEF CallRow
  <2>12. PICK next : next = IF step = "acquire" THEN caller[c].attempt + 1 ELSE caller[c].attempt
    OBVIOUS
  <2>13. m = [caller[c] EXCEPT !.step = step, !.probe = FALSE, !.attempt = next]
    BY <1>1, <2>12 DEF CallRow
  <2>3. m \in CallRow
    BY <1>1, <2>2, <2>11, <2>12, <2>13, Zenon DEF CallRow
  <2>4. /\ m.mode = caller[c].mode /\ m.issue = caller[c].issue /\ m.key = caller[c].key
        /\ m.step = step /\ ~m.probe /\ (step # "acquire" => m.attempt = caller[c].attempt)
    BY <1>1 DEF CallRow
  <2> HIDE DEF m
  <2>5. PICK n : n = m
    OBVIOUS
  <2>6. caller[c].step = "ok" => caller[c].key \in ticket'[caller[c].issue]
    BY <1>1, <1>5 DEF CallOK, CallRow, NoCall
  <2>7. CallOK(n)'
    BY <1>2, <2>2, <2>4, <2>5, <2>6 DEF CallOK, Answers
  <2>8. /\ caller' = [caller EXCEPT ![c] = n] /\ n.mode = caller[c].mode /\ n.issue = caller[c].issue
        /\ n.key = caller[c].key /\ caller[c].step # "none" /\ n.step # "none" /\ n \in CallRow
    BY <1>1, <2>1, <2>2, <2>3, <2>4, <2>5 DEF Answers
  <2>9. n.mode = "retry" => n.attempt = caller[c].attempt
    BY <1>2, <2>4, <2>5
  <2>10. ticket' \in [Issues -> SUBSET TicketKeys] /\ \A i \in Issues : ticket[i] \subseteq ticket'[i]
    BY <1>5 DEF ServiceNowInv, ServiceNowTypes
  <2> QED BY <1>3, <1>4, <1>5, <2>7, <2>8, <2>9, <2>10, CallGoesOnInv, Zenon
<1> QED BY <1>6, <1>7

LEMMA RecordFailsInv ==
  ASSUME ServiceNowInv, NEW c \in Callers, RecordFails(c)
  PROVE  ServiceNowInv'
<1>1. /\ caller[c] \in CallRow /\ caller[c].step \in Answers /\ caller[c].step # "none"
      /\ lostProbe \in BOOLEAN /\ caller[c].probe \in BOOLEAN
  BY CallUnderWay DEF RecordFails, Answers, CallRow, ServiceNowInv, ServiceNowTypes
<1>2. lostProbe' = (lostProbe \/ caller[c].probe) /\ UNCHANGED <<ticks, ticket, link, retry, circuit, lostClaims>>
  BY DEF RecordFails
<1>3. lostProbe' \in BOOLEAN
  BY <1>2, Zenon
<1>4. circuit'.state = "HALF_OPEN" =>
        lostProbe' \/ (circuit.state = "HALF_OPEN" /\ ~lostProbe /\ ~caller[c].probe)
  BY <1>2, Zenon
<1>5. /\ ticket' \in [Issues -> SUBSET TicketKeys] /\ \A i \in Issues : ticket[i] \subseteq ticket'[i]
      /\ link' \in [Issues -> TicketKeys \cup {"none"}] /\ circuit' \in CircuitRow
  BY <1>2 DEF ServiceNowInv, ServiceNowTypes
<1>6. CASE caller[c].mode = "create"
  <2>1. caller' = [caller EXCEPT ![c] = NoCall]
    BY <1>6 DEF RecordFails, Ends
  <2> QED BY <1>1, <1>2, <1>3, <1>4, <1>5, <1>6, <2>1, LinksUntouched, RequestEndsInv, Zenon
<1>7. CASE caller[c].mode # "create"
  <2> DEFINE m == [caller[c] EXCEPT !.step = "release", !.probe = FALSE]
  <2>1. caller' = [caller EXCEPT ![c] = m]
    BY <1>7, Zenon DEF RecordFails, ServiceNowInv, ServiceNowTypes
  <2>2. m \in CallRow
    BY <1>1, Zenon DEF CallRow, CallSteps
  <2>3. /\ m.mode = caller[c].mode /\ m.issue = caller[c].issue /\ m.key = caller[c].key
        /\ m.step = "release" /\ ~m.probe /\ m.attempt = caller[c].attempt /\ m.mode = "retry"
    BY <1>1, <1>7 DEF CallRow
  <2> HIDE DEF m
  <2>4. PICK n : n = m
    OBVIOUS
  <2>5. CallOK(n)'
    BY <2>3, <2>4 DEF CallOK
  <2>6. /\ caller' = [caller EXCEPT ![c] = n] /\ n.mode = caller[c].mode /\ n.issue = caller[c].issue
        /\ n.key = caller[c].key /\ n.step # "none" /\ n \in CallRow /\ n.attempt = caller[c].attempt
    BY <2>1, <2>2, <2>3, <2>4
  <2> QED BY <1>1, <1>2, <1>3, <1>4, <1>5, <2>5, <2>6, CallGoesOnInv, Zenon
<1> QED BY <1>6, <1>7

LEMMA AddLinkInv ==
  ASSUME ServiceNowInv, NEW c \in Callers, AddLink(c)
  PROVE  ServiceNowInv'
<1>1. /\ caller[c] \in CallRow /\ caller[c].step = "store" /\ caller[c].mode = "create"
      /\ ~caller[c].probe /\ caller[c].key \in ticket[caller[c].issue]
  BY CallUnderWay DEF AddLink, CallOK, Answers
<1>2. PICK i \in Issues : i = caller[c].issue
  BY <1>1 DEF CallRow
<1>3. PICK k \in TicketKeys : k = caller[c].key
  BY <1>1 DEF CallRow
<1>4. /\ link' = IF link[i] = "none" THEN [link EXCEPT ![i] = k] ELSE link
      /\ caller' = [caller EXCEPT ![c] = NoCall]
      /\ UNCHANGED <<ticks, ticket, retry, circuit, lostProbe, lostClaims>>
  BY <1>2, <1>3 DEF AddLink, Ends, lost
<1>5. link' \in [Issues -> TicketKeys \cup {"none"}]
  BY <1>4 DEF ServiceNowInv, ServiceNowTypes
<1>6. LinksGrow
  BY <1>1, <1>2, <1>3, <1>4 DEF LinksGrow, ServiceNowInv, ServiceNowTypes, LinksExist
<1>7. circuit \in CircuitRow /\ lostProbe \in BOOLEAN
  BY DEF ServiceNowInv, ServiceNowTypes
<1>8. circuit'.state = "HALF_OPEN" =>
        lostProbe' \/ (circuit.state = "HALF_OPEN" /\ ~lostProbe /\ ~caller[c].probe)
  BY <1>1, <1>4
<1> QED BY <1>1, <1>4, <1>5, <1>6, <1>7, <1>8, RequestEndsInv, Zenon

LEMMA EnqueueRetryInv ==
  ASSUME ServiceNowInv, NEW c \in Callers, EnqueueRetry(c)
  PROVE  ServiceNowInv'
<1>1. /\ caller[c] \in CallRow /\ caller[c].step = "enqueue" /\ caller[c].mode = "create" /\ ~caller[c].probe
  BY CallUnderWay DEF EnqueueRetry, CallOK, Answers
<1>2. PICK i \in Issues : i = caller[c].issue
  BY <1>1 DEF CallRow
<1>3. /\ caller' = [caller EXCEPT ![c] = NoCall]
      /\ UNCHANGED <<ticks, ticket, link, circuit, lostProbe, lostClaims>>
  BY DEF EnqueueRetry, Ends, lost
<1>4. /\ circuit \in CircuitRow /\ lostProbe \in BOOLEAN /\ ticks \in Nat
      /\ link \in [Issues -> TicketKeys \cup {"none"}]
  BY DEF ServiceNowInv, ServiceNowTypes
<1>5. CASE retry[i] # NoRetry
  <2>1. retry' = retry
    BY <1>2, <1>5 DEF EnqueueRetry
  <2>2. circuit'.state = "HALF_OPEN" =>
          lostProbe' \/ (circuit.state = "HALF_OPEN" /\ ~lostProbe /\ ~caller[c].probe)
    BY <1>1, <1>3
  <2> QED BY <1>1, <1>3, <1>4, <2>1, <2>2, LinksUntouched, RequestEndsInv, Zenon
<1>6. CASE retry[i] = NoRetry
  <2> DEFINE row == [status |-> "PENDING", key |-> caller[c].key, attempts |-> 0, due |-> ticks]
  <2>1. retry' = [retry EXCEPT ![i] = row]
    BY <1>2, <1>6 DEF EnqueueRetry
  <2>2. row \in RetryRow /\ row.status = "PENDING" /\ row.attempts < MaxTries
    BY <1>1, <1>4, ServiceNowAssumption DEF RetryRow, CallRow
  <2> HIDE DEF row
  <2>3. \A d \in Callers : ~HasClaim(d, i)
    BY <1>6 DEF ServiceNowInv, ClaimsApart, NoRetry
  <2>4. i \notin lostClaims
    BY <1>6 DEF ServiceNowInv, Attempted, NoRetry
  <2>5. /\ caller'[c] = NoCall /\ \A d \in Callers \ {c} : caller'[d] = caller[d]
        /\ \A d \in Callers \ {c} : \A j : HasClaim(d, j)' <=> HasClaim(d, j)
    BY <1>3, ClaimsAfter, Zenon
  <2>6. \A j : ~HasClaim(c, j) /\ ~HasClaim(c, j)'
    BY <1>1, <2>5 DEF HasClaim, NoCall
  <2>7. LinksGrow
    BY <1>3, LinksUntouched
  <2>8. CallsOK'
    BY <1>3, <2>7, OthersGoOn, Zenon
  <2>9. ServiceNowTypes'
    BY <1>3, <2>1, <2>2, TypesAfterMove DEF ServiceNowInv, ServiceNowTypes
  <2>10. \A d \in Callers : caller'[d].probe <=> caller[d].probe
    BY <1>1, <2>5 DEF NoCall
  <2>11. \A d \in Callers : ~HasClaim(d, i)'
    BY <2>3, <2>5, <2>6
  <2>12. \A d \in Callers, j \in Issues : HasClaim(d, j)' => HasClaim(d, j) /\ caller'[d] = caller[d]
    BY <2>5, <2>6
  <2>13. \A d \in Callers, j \in Issues : HasClaim(d, j) => HasClaim(d, j)'
    BY <2>5, <2>6
  <2> QED BY <1>3, <2>1, <2>2, <2>4, <2>8, <2>9, <2>10, <2>11, <2>12, <2>13, UnclaimedWriteInv,
             Zenon DEF lost
<1> QED BY <1>5, <1>6

\* What a retry that was claimed and its claimant are like.
LEMMA ClaimantRow ==
  ASSUME ServiceNowInv, NEW c \in Callers, caller[c].step # "none", caller[c].mode = "retry",
         NEW i, i = caller[c].issue
  PROVE  /\ i \in Issues /\ HasClaim(c, i) /\ i \notin lostClaims
         /\ retry[i] \in RetryRow /\ retry[i].status = "PROCESSING"
         /\ retry[i].attempts = caller[c].attempt /\ retry[i].key = caller[c].key
         /\ retry[i].attempts > 0 /\ retry[i].attempts <= MaxTries
<1>1. i \in Issues /\ HasClaim(c, i)
  BY CallUnderWay DEF HasClaim, CallRow
<1>2. retry[i].status = "PROCESSING"
  BY <1>1 DEF ServiceNowInv, ClaimsApart
<1>3. retry[i] # NoRetry
  BY <1>2 DEF NoRetry
<1> QED BY <1>1, <1>2, <1>3 DEF ServiceNowInv, ServiceNowTypes, ClaimsApart, Attempted,
           DeferredDeliveries

LEMMA CompleteRetryInv ==
  ASSUME ServiceNowInv, NEW c \in Callers, CompleteRetry(c)
  PROVE  ServiceNowInv'
<1>1. /\ caller[c] \in CallRow /\ caller[c].step = "store" /\ caller[c].mode = "retry"
      /\ ~caller[c].probe /\ caller[c].key \in ticket[caller[c].issue]
  BY CallUnderWay DEF CompleteRetry, CallOK, Answers
<1>2. PICK i \in Issues : i = caller[c].issue
  BY <1>1 DEF CallRow
<1>3. PICK k \in TicketKeys : k = caller[c].key
  BY <1>1 DEF CallRow
<1>4. /\ HasClaim(c, i) /\ retry[i] \in RetryRow /\ retry[i].status = "PROCESSING"
      /\ retry[i].key = k /\ retry[i].attempts <= MaxTries
  BY <1>1, <1>2, <1>3, ClaimantRow
<1>5. caller' = [caller EXCEPT ![c] = NoCall] /\ UNCHANGED <<ticks, ticket, circuit, lostProbe>>
  BY DEF CompleteRetry, Ends
<1>6. CASE Agrees(i, k)
  <2> DEFINE row == [retry[i] EXCEPT !.status = "COMPLETED"]
  <2>1. /\ link' = IF link[i] = "none" THEN [link EXCEPT ![i] = k] ELSE link
        /\ retry' = [retry EXCEPT ![i] = row] /\ lostClaims' = lostClaims
    BY <1>2, <1>3, <1>4, <1>6 DEF CompleteRetry, ServiceNowInv, ServiceNowTypes
  <2>2. row \in RetryRow
    BY <1>4 DEF RetryRow
  <2>3. row.status = "COMPLETED" /\ row.key = k /\ row.attempts <= MaxTries
    BY <1>4 DEF RetryRow
  <2> HIDE DEF row
  <2>4. LinksGrow
    BY <1>1, <1>2, <1>3, <1>5, <2>1 DEF LinksGrow, ServiceNowInv, ServiceNowTypes, LinksExist
  <2>5. link'[i] \in ticket'[i] /\ Payload[link'[i]] = Payload[k]
    BY <1>1, <1>2, <1>3, <1>5, <1>6, <2>1 DEF Agrees, ServiceNowInv, ServiceNowTypes, LinksExist
  <2>6. retry' \in [Issues -> RetryRow \cup {NoRetry}] /\ link' \in [Issues -> TicketKeys \cup {"none"}]
    BY <2>1, <2>2 DEF ServiceNowInv, ServiceNowTypes
  <2>7. ServiceNowTypes'
    BY <1>5, <2>1, <2>6, TypesAfterMove DEF ServiceNowInv, ServiceNowTypes
  <2> QED BY <1>1, <1>4, <1>5, <2>1, <2>2, <2>3, <2>4, <2>5, <2>7, ClaimEndsInv, Zenon
<1>7. CASE ~Agrees(i, k)
  <2>1. lostClaims' = lostClaims \cup {i} /\ UNCHANGED <<link, retry>>
    BY <1>2, <1>3, <1>7 DEF CompleteRetry
  <2>2. lostProbe' = (lostProbe \/ caller[c].probe)
    <3>1. lostProbe' = lostProbe /\ lostProbe \in BOOLEAN
      BY <1>5 DEF ServiceNowInv, ServiceNowTypes
    <3> QED BY <1>1, <3>1
  <2> QED BY <1>4, <1>5, <2>1, <2>2, ClaimLostInv, Zenon
<1> QED BY <1>6, <1>7

LEMMA ReleaseRetryInv ==
  ASSUME ServiceNowInv, NEW c \in Callers, ReleaseRetry(c)
  PROVE  ServiceNowInv'
<1>1. /\ caller[c] \in CallRow /\ caller[c].step \in {"release", "postpone", "bury", "store"}
      /\ caller[c].step # "none" /\ caller[c].mode = "retry" /\ ~caller[c].probe
  BY CallUnderWay DEF ReleaseRetry, CallOK, Answers
<1>2. PICK i \in Issues : i = caller[c].issue
  BY <1>1 DEF CallRow
<1>3. /\ HasClaim(c, i) /\ retry[i] \in RetryRow /\ retry[i].status = "PROCESSING"
      /\ retry[i].attempts > 0 /\ retry[i].attempts <= MaxTries
  BY <1>1, <1>2, ClaimantRow
<1>4. /\ caller' = [caller EXCEPT ![c] = NoCall]
      /\ UNCHANGED <<ticks, ticket, link, circuit, lostProbe, lostClaims>>
  BY DEF ReleaseRetry, Ends, lost
<1> DEFINE row == Released(retry[i])
<1>5. retry' = [retry EXCEPT ![i] = row]
  BY <1>2, <1>3 DEF ReleaseRetry
<1>6. ticks \in Nat /\ MaxTries \in Nat /\ retry[i].attempts - 1 \in Nat /\ retry[i].attempts - 1 < MaxTries
  BY <1>3, ServiceNowAssumption DEF ServiceNowInv, ServiceNowTypes, RetryRow
<1>7. row \in RetryRow
  BY <1>3, <1>6, Zenon DEF Released, RetryRow
<1>8. row.status = "PENDING" /\ row.attempts = retry[i].attempts - 1
  BY <1>3 DEF Released, RetryRow
<1> HIDE DEF row
<1>9. row.attempts < MaxTries /\ row.attempts <= MaxTries
  BY <1>6, <1>8
<1>10. LinksGrow
  BY <1>4, LinksUntouched
<1>11. ServiceNowTypes'
  BY <1>4, <1>5, <1>7, TypesAfterMove DEF ServiceNowInv, ServiceNowTypes
<1> QED BY <1>1, <1>3, <1>4, <1>5, <1>7, <1>8, <1>9, <1>10, <1>11, ClaimEndsInv, Zenon

LEMMA FailRetryInv ==
  ASSUME ServiceNowInv, NEW c \in Callers, FailRetry(c)
  PROVE  ServiceNowInv'
<1>1. /\ caller[c] \in CallRow /\ caller[c].step \in {"postpone", "bury"}
      /\ caller[c].step # "none" /\ caller[c].mode = "retry" /\ ~caller[c].probe
      /\ caller[c].step = "postpone" => caller[c].attempt < MaxTries
  BY CallUnderWay DEF FailRetry, CallOK, Answers
<1>2. PICK i \in Issues : i = caller[c].issue
  BY <1>1 DEF CallRow
<1>3. /\ HasClaim(c, i) /\ retry[i] \in RetryRow /\ retry[i].status = "PROCESSING"
      /\ retry[i].attempts > 0 /\ retry[i].attempts <= MaxTries /\ retry[i].attempts = caller[c].attempt
  BY <1>1, <1>2, ClaimantRow
<1>4. /\ caller' = [caller EXCEPT ![c] = NoCall]
      /\ UNCHANGED <<ticks, ticket, link, circuit, lostProbe, lostClaims>>
  BY DEF FailRetry, Ends, lost
<1>5. PICK row \in RetryRow : /\ retry' = [retry EXCEPT ![i] = row] /\ row.attempts = retry[i].attempts
                              /\ row.status = IF caller[c].step = "bury" THEN "DEAD_LETTER" ELSE "PENDING"
  <2>1. CASE caller[c].step = "bury"
    <3> DEFINE r == [retry[i] EXCEPT !.status = "DEAD_LETTER"]
    <3>1. retry' = [retry EXCEPT ![i] = r]
      BY <1>2, <2>1 DEF FailRetry, ServiceNowInv, ServiceNowTypes
    <3>2. r \in RetryRow /\ r.attempts = retry[i].attempts /\ r.status = "DEAD_LETTER"
      BY <1>3 DEF RetryRow
    <3> QED BY <2>1, <3>1, <3>2, Zenon
  <2>2. CASE caller[c].step = "postpone"
    <3> DEFINE r == [retry[i] EXCEPT !.status = "PENDING", !.due = ticks + Backoff(caller[c].attempt)]
    <3>1. retry' = [retry EXCEPT ![i] = r]
      BY <1>2, <2>2, Zenon DEF FailRetry, ServiceNowInv, ServiceNowTypes
    <3>2. ticks + Backoff(caller[c].attempt) \in Nat
      <4>1. caller[c].attempt \in 1..MaxTries /\ ticks \in Nat
        BY <1>1, <1>3, ServiceNowAssumption DEF ServiceNowInv, ServiceNowTypes, CallRow
      <4>2. Backoff(caller[c].attempt) \in Nat
        BY <4>1, ServiceNowAssumption
      <4> QED BY <4>1, <4>2
    <3>3. r \in RetryRow
      BY <1>3, <3>2, Zenon DEF RetryRow
    <3>4. r.attempts = retry[i].attempts /\ r.status = "PENDING"
      BY <1>3 DEF RetryRow
    <3> QED BY <2>2, <3>1, <3>3, <3>4, Zenon
  <2> QED BY <1>1, <2>1, <2>2
<1>6. /\ row.status \in {"PENDING", "DEAD_LETTER"} /\ row.attempts <= MaxTries
      /\ row.status = "PENDING" => row.attempts < MaxTries
  BY <1>1, <1>3, <1>5
<1>7. LinksGrow
  BY <1>4, LinksUntouched
<1>8. ServiceNowTypes'
  BY <1>4, <1>5, TypesAfterMove DEF ServiceNowInv, ServiceNowTypes
<1> QED BY <1>1, <1>3, <1>4, <1>5, <1>6, <1>7, <1>8, ClaimEndsInv, Zenon

LEMMA DiesInv ==
  ASSUME ServiceNowInv, NEW c \in Callers, Dies(c)
  PROVE  ServiceNowInv'
<1>1. /\ caller[c] \in CallRow /\ caller[c].step # "none" /\ caller[c].probe \in BOOLEAN
      /\ caller[c].mode \in {"create", "retry"}
  BY DEF Dies, ServiceNowInv, ServiceNowTypes, CallRow, CallSteps, Answers
<1>2. /\ lostProbe' = (lostProbe \/ caller[c].probe) /\ UNCHANGED <<ticks, ticket, link, retry, circuit>>
      /\ caller' = [caller EXCEPT ![c] = NoCall]
  BY DEF Dies, Ends
<1>3. CASE caller[c].mode = "retry"
  <2>1. PICK i \in Issues : i = caller[c].issue
    BY <1>1 DEF CallRow
  <2>2. HasClaim(c, i) /\ lostClaims' = lostClaims \cup {i}
    BY <1>1, <1>3, <2>1 DEF HasClaim, Dies
  <2> QED BY <1>2, <2>2, ClaimLostInv, Zenon
<1>4. CASE caller[c].mode = "create"
  <2>1. lostClaims' = lostClaims
    BY <1>4 DEF Dies
  <2>2. lostProbe' \in BOOLEAN
    BY <1>2, Zenon
  <2>3. circuit'.state = "HALF_OPEN" =>
          lostProbe' \/ (circuit.state = "HALF_OPEN" /\ ~lostProbe /\ ~caller[c].probe)
    BY <1>2, Zenon
  <2>4. link' \in [Issues -> TicketKeys \cup {"none"}] /\ circuit' \in CircuitRow
    BY <1>2 DEF ServiceNowInv, ServiceNowTypes
  <2> QED BY <1>1, <1>2, <1>4, <2>1, <2>2, <2>3, <2>4, LinksUntouched, RequestEndsInv, Zenon
<1> QED BY <1>1, <1>3, <1>4

LEMMA ServiceNowStutterInv == ServiceNowInv /\ UNCHANGED serviceNowVars => ServiceNowInv'
<1> SUFFICES ASSUME ServiceNowInv, UNCHANGED serviceNowVars PROVE ServiceNowInv'
  OBVIOUS
<1>1. UNCHANGED <<ticks, ticket, link, retry, circuit, caller, lostProbe, lostClaims>>
  BY DEF serviceNowVars
<1>2. ServiceNowTypes'
  BY <1>1 DEF ServiceNowInv, ServiceNowTypes
<1>3. CallsOK' /\ LinksExist' /\ Attempted'
  BY <1>1 DEF ServiceNowInv, CallsOK, CallOK, LinksExist, Attempted
<1>4. ClaimsApart' /\ HeldUntilRecorded'
  BY <1>1 DEF ServiceNowInv, ClaimsApart, HeldUntilRecorded, HasClaim
<1>5. DeferredDeliveries'
  BY <1>1 DEF ServiceNowInv, DeferredDeliveries
<1> QED BY <1>2, <1>3, <1>4, <1>5 DEF ServiceNowInv

LEMMA ServiceNowNextInv == ServiceNowInv /\ [ServiceNowNext]_serviceNowVars => ServiceNowInv'
<1> SUFFICES ASSUME ServiceNowInv, [ServiceNowNext]_serviceNowVars PROVE ServiceNowInv'
  OBVIOUS
<1>1. CASE Ticks
  BY <1>1, TicksInv
<1>2. ASSUME NEW i \in Issues, RequeueDeadLetter(i) PROVE ServiceNowInv'
  BY <1>2, RequeueInv
<1>3. ASSUME NEW c \in Callers,
             \/ \E i \in Issues : ClaimRetry(c, i) \/ \E k \in TicketKeys : CreateTicket(c, i, k)
             \/ \E answer \in Answers : CallAdapter(c, answer)
             \/ AcquireCircuit(c) \/ RecordAnswer(c) \/ RecordFails(c)
             \/ AddLink(c) \/ CompleteRetry(c) \/ EnqueueRetry(c)
             \/ ReleaseRetry(c) \/ FailRetry(c) \/ Dies(c)
      PROVE  ServiceNowInv'
  BY <1>3, ClaimRetryInv, CreateTicketInv, CallAdapterInv, AcquireCircuitInv, RecordAnswerInv,
     RecordFailsInv, AddLinkInv, CompleteRetryInv, EnqueueRetryInv, ReleaseRetryInv, FailRetryInv,
     DiesInv
<1>4. CASE UNCHANGED serviceNowVars
  BY <1>4, ServiceNowStutterInv
<1> QED BY <1>1, <1>2, <1>3, <1>4 DEF ServiceNowNext

LEMMA ServiceNowInvSafe ==
  ServiceNowInv => ServiceNowTypeOK /\ HeldUntilRecorded /\ DeferredDeliveries
<1> SUFFICES ASSUME ServiceNowInv PROVE ServiceNowTypeOK /\ HeldUntilRecorded /\ DeferredDeliveries
  OBVIOUS
<1>1. ServiceNowTypes /\ MaxTicks \in Nat
  BY ServiceNowAssumption DEF ServiceNowInv
<1>2. ticks \in 0..MaxTicks
  BY <1>1 DEF ServiceNowTypes
<1>3. ASSUME NEW i \in Issues
      PROVE  /\ ticket[i] \subseteq TicketKeys /\ link[i] \in TicketKeys \cup {"none"}
             /\ \/ retry[i] = NoRetry
                \/ /\ retry[i].status \in {"PENDING", "PROCESSING", "COMPLETED", "DEAD_LETTER"}
                   /\ retry[i].key \in TicketKeys /\ retry[i].attempts \in Nat /\ retry[i].due \in Nat
  BY <1>1 DEF ServiceNowTypes, RetryRow
<1>4. /\ circuit.state \in {"CLOSED", "OPEN", "HALF_OPEN"} /\ circuit.failures \in 0..Threshold
      /\ lostProbe \in BOOLEAN /\ lostClaims \subseteq Issues
  BY <1>1 DEF ServiceNowTypes, CircuitRow
<1> QED BY <1>2, <1>3, <1>4 DEF ServiceNowTypeOK, ServiceNowInv

-----------------------------------------------------------------------------
(* The parts together *)

OperationsInv == RegistryInv /\ SourceInv /\ DiscoveryInv /\ RetentionInv /\ ServiceNowInv

operationsVars == <<part, registryVars, sourceVars, discoveryVars, retentionVars, serviceNowVars>>

\* A step of one part is a step of it, and leaves the others alone.
LEMMA OnePartMoves ==
  [OperationsNext]_operationsVars =>
    /\ [RegistryNext]_registryVars /\ [SourceNext]_sourceVars /\ [DiscoveryNext]_discoveryVars
    /\ [RetentionNext]_retentionVars /\ [ServiceNowNext]_serviceNowVars
BY DEF OperationsNext, operationsVars

LEMMA OperationsInvariant == OperationsSpec => []OperationsInv
<1>1. OperationsInit => OperationsInv
  BY RegistryInitInv, SourceInitInv, DiscoveryInitInv, RetentionInitInv, ServiceNowInitInv
     DEF OperationsInit, OperationsInv
<1>2. OperationsInv /\ [OperationsNext]_operationsVars => OperationsInv'
  BY OnePartMoves, RegistryIsInductive, SourceNextInv, DiscoveryNextInv, RetentionNextInv,
     ServiceNowNextInv DEF OperationsInv
<1> QED BY <1>1, <1>2, PTL DEF OperationsSpec, operationsVars

\* Every part keeps the types of its variables.
THEOREM OperationsTypeCorrect == OperationsSpec => []OperationsTypeOK
<1>1. OperationsInv => OperationsTypeOK
  BY SourceInvSafe, DiscoveryInvSafe, RetentionInvSafe, ServiceNowInvSafe
     DEF OperationsInv, OperationsTypeOK, RegistryInv
<1> QED BY <1>1, OperationsInvariant, PTL

\* The connection in force has passed a test, whatever tests, promotions and requests overlap.
THEOREM ConnectionsInForcePassed == OperationsSpec => []ActiveConnectionPassed
<1>1. OperationsInv => ActiveConnectionPassed
  BY SourceInvSafe DEF OperationsInv
<1> QED BY <1>1, OperationsInvariant, PTL

\* No disposal goes ahead under a hold that was there before it, and none without two officers.
THEOREM DisposalsAreSafe == OperationsSpec => []DisposalIsSafe
<1>1. OperationsInv => DisposalIsSafe
  BY RetentionInvSafe DEF OperationsInv, DisposalIsSafe
<1> QED BY <1>1, OperationsInvariant, PTL

\* A deferred delivery is in one pair of hands at a time, for as often as it may be tried.
THEOREM DeliveriesStayKept == OperationsSpec => []DeliveriesAreKept
<1>1. OperationsInv => DeliveriesAreKept
  BY ServiceNowInvSafe DEF OperationsInv, DeliveriesAreKept
<1> QED BY <1>1, OperationsInvariant, PTL

\* What operators and workers have closed stays closed as it was.
THEOREM OperationsDecisionsHold == OperationsSpec => DecisionsHold
<1>1. OperationsInv /\ [OperationsNext]_operationsVars =>
        [\A r \in SourceRequests : sourceRequest[r] # NoSourceRequest /\ sourceRequest'[r] # sourceRequest[r] =>
           /\ sourceRequest[r].status = "PENDING"
           /\ sourceRequest'[r].status = "APPROVED" =>
                /\ source'.status # source.status /\ source'.revision = sourceRequest[r].revision
                /\ sourceRequest'[r].checker # sourceRequest[r].maker]_sourceVars
  BY OnePartMoves, SourceDecisionStep DEF OperationsInv
<1>2. OperationsInv /\ [OperationsNext]_operationsVars =>
        [source.status # "ACTIVE" /\ source'.status = "ACTIVE" =>
           \/ \E r \in SourceRequests : sourceRequest[r].status = "PENDING"
                                        /\ sourceRequest'[r].status = "APPROVED"
           \/ \E c \in SourceCommands : sourceCommand[c].step = "record"
                                        /\ sourceCommand[c].found = "ACTIVE"]_sourceVars
  BY OnePartMoves, SourceActiveStep DEF OperationsInv
<1>3. OperationsInv /\ [OperationsNext]_operationsVars =>
        [\A d \in Discoveries :
           /\ discovery[d].status \in Settled => discovery'[d] = discovery[d]
           /\ diff'[d] # diff[d] =>
                \/ diff[d] = NoDiff /\ discovery[d].status \in {"SUCCESS", "PARTIAL"}
                \/ diff[d].status = "PENDING" /\ diff'[d].status = "APPLIED"]_discoveryVars
  BY OnePartMoves, DiscoveryWriters, DiffStep DEF OperationsInv
<1>4. OperationsInv /\ [OperationsNext]_operationsVars => [RetentionIsFinal]_retentionVars
  BY OnePartMoves, RetentionFinalStep DEF OperationsInv
<1>5. OperationsSpec => DecisionsAreEffective
  BY <1>1, OperationsInvariant, PTL DEF OperationsSpec, operationsVars, DecisionsAreEffective
<1>6. OperationsSpec => ActivatedByRequest
  BY <1>2, OperationsInvariant, PTL DEF OperationsSpec, operationsVars, ActivatedByRequest
<1>7. OperationsSpec => DiscoveriesStaySettled
  BY <1>3, OperationsInvariant, PTL DEF OperationsSpec, operationsVars, DiscoveriesStaySettled
<1>8. OperationsSpec => [][RetentionIsFinal]_retentionVars
  BY <1>4, OperationsInvariant, PTL DEF OperationsSpec, operationsVars
<1> QED BY <1>5, <1>6, <1>7, <1>8 DEF DecisionsHold

\* A diff that is applied in full reconciles the catalogue with what the discovery found.
THEOREM DiffsReconcile == OperationsSpec => AppliedDiffReconciles
<1>1. OperationsInv /\ [OperationsNext]_operationsVars =>
        [\A d \in Discoveries : AppliedInFull(d) =>
           \A t \in Tables : Reconciled(catalogue[t], catalogue'[t], diff[d].found, t)]_discoveryVars
  BY OnePartMoves, AppliedStep DEF OperationsInv
<1> QED BY <1>1, OperationsInvariant, PTL DEF OperationsSpec, operationsVars, AppliedDiffReconciles
===============================================================================
