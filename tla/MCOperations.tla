------------------------------ MODULE MCOperations ------------------------------
(***************************************************************************)
(* What operators and workers do beside the rules: the registry of         *)
(* workers, data sources and their catalogue, retention, and the tickets   *)
(* in ServiceNow.                                                          *)
(*                                                                         *)
(* The parts share no variable and no row, so each is explored by itself:  *)
(* "part" says which one a behaviour is about, and the others stay in an   *)
(* initial state of theirs.                                                *)
(***************************************************************************)
EXTENDS WorkerRegistry, SourceActivation, MetadataDiscovery, Retention, ServiceNow, TLC

CONSTANTS c1, c2, p3, u1, u2, r1, r2, k1, k2, s1, h1, j1, q1, i1

MCCommands  == {c1, c2}
MCProcesses == {c1, c2, p3}
MCUsers     == {u1, u2}
MCRequests  == {r1, r2}
MCKeys      == {k1, k2}
MCRecords   == {s1}
MCIssues    == {i1}
MCHolds     == {h1}
MCDisposals == {j1}
MCRecalls   == {q1}
MCUntil     == [r \in MCRecords |-> 1]
MCPayload   == [k \in MCKeys |-> k]

Symmetry == Permutations(MCCommands) \cup Permutations(MCUsers)
            \cup Permutations(MCRequests) \cup Permutations(MCKeys)

\* A source of two tables, and what the catalogue has of it.  A table that has been passivated
\* keeps its fields, and may come back with a column fewer; a connector may classify a field.
MCTables  == {"orders", "clients"}
MCColumns == {"id", "name"}
MCTypes   == {"text", "number"}
MCLabels  == {"none given", "personal"}

Shown(type, label)         == [type |-> type, label |-> label]
Filed(status, type, label) == [status |-> status, type |-> type, label |-> label]

OneTable  == "orders" :> ("id" :> Shown("number", "none") @@ "name" :> Shown("text", "none"))
TwoTables == ("orders" :> ("id" :> Shown("number", "none")))
             @@ ("clients" :> ("name" :> Shown("text", "personal")))
MCSourceStates == {OneTable, TwoTables}
MCFiled == [t \in MCTables |->
  IF t = "orders"
  THEN [status |-> "INACTIVE",
        fields |-> ("id" :> Filed("INACTIVE", "number", "none given")
                    @@ "name" :> Filed("ACTIVE", "number", "personal"))]
  ELSE NotListed]
MCCatalogues == {MCFiled}

VARIABLE part

OperationsInit ==
  /\ part \in {"registry", "source", "discovery", "retention", "tickets"}
  /\ RegistryInit /\ SourceInit /\ DiscoveryInit /\ RetentionInit /\ ServiceNowInit
  /\ live = TwoTables

OperationsNext ==
  /\ UNCHANGED part
  /\ \/ /\ part = "registry" /\ RegistryNext
        /\ UNCHANGED <<sourceVars, discoveryVars, retentionVars, serviceNowVars>>
     \/ /\ part = "source" /\ SourceNext
        /\ UNCHANGED <<registryVars, discoveryVars, retentionVars, serviceNowVars>>
     \/ /\ part = "discovery" /\ DiscoveryNext
        /\ UNCHANGED <<registryVars, sourceVars, retentionVars, serviceNowVars>>
     \/ /\ part = "retention" /\ RetentionNext
        /\ UNCHANGED <<registryVars, sourceVars, discoveryVars, serviceNowVars>>
     \/ /\ part = "tickets" /\ ServiceNowNext
        /\ UNCHANGED <<registryVars, sourceVars, discoveryVars, retentionVars>>

OperationsSpec ==
  /\ OperationsInit
  /\ [][OperationsNext]_<<part, registryVars, sourceVars, discoveryVars, retentionVars,
                          serviceNowVars>>

-----------------------------------------------------------------------------
\* Every variable of the parts has its type.
OperationsTypeOK ==
  RegistryTypeOK /\ SourceTypeOK /\ DiscoveryTypeOK /\ RetentionTypeOK /\ ServiceNowTypeOK

\* What has been closed stays as it is: requests for a source, discoveries and their diffs,
\* legal holds, disposals and recalls.  Two commands that judged the same row do not both
\* close it; and no source becomes active without the approval of a request.
DecisionsHold ==
  DecisionsAreEffective /\ ActivatedByRequest /\ DiscoveriesStaySettled
  /\ [][RetentionIsFinal]_retentionVars

\* No hold, disposal or recall is closed by the officer who opened it, and no disposal
\* goes ahead under a hold that was there before it.
DisposalIsSafe == HoldsAreRespected /\ TwoOfficers

\* Deliveries that were put off are carried out by one caller at a time, no more often than
\* they may be, and are complete only when the ticket exists.
DeliveriesAreKept == HeldUntilRecorded /\ DeferredDeliveries
=============================================================================
