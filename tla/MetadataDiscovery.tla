--------------------------- MODULE MetadataDiscovery ---------------------------
(***************************************************************************)
(* Discovery of what an active source holds, and the catalogue that is     *)
(* brought up to date from it: DataSourceService.request_discovery,        *)
(* execute_discovery_for_worker and apply_discovery_diff over              *)
(* PostgreSQLDataSourceRepository.                                         *)
(*                                                                         *)
(* A discovery is stored in one transaction and its job in the next; the   *)
(* worker changes its status by version, talks to the source, compares     *)
(* with the catalogue, stores the status and then the diff.  Somebody      *)
(* applies a diff later, all of it or a selection of its entries.  The     *)
(* classification of a field is decided elsewhere, by a governance request *)
(* or by hand, and not taken over from a discovery.                        *)
(***************************************************************************)
EXTENDS Naturals, FiniteSets

CONSTANTS
  Tables,       \* datasets, by namespace and name
  Columns,      \* their fields, by name
  Types,        \* native type, nullable and sensitive: what a diff writes of a field
  Labels,       \* classifications; all under one version of the policy
  Unclassified, \*   the one a new field has
  SourceStates, \* what the source may hold
  Catalogues,   \* what earlier discoveries may have left
  Discoveries, DiscoveryWorkers, DiffAppliers,
  MaxChanges    \* bound on the changes of the source and of classifications

Whole   == "dataset" \* the entry of a diff that is about the dataset itself
NoField == [status |-> "none"]
NotListed == [status |-> "none", fields |-> [f \in Columns |-> NoField]]

\* A connector tells of a field its type, and its classification if it has one.
FoundField == [type : Types, label : Labels \cup {"none"}]
Layout     == UNION {[S -> FoundField] : S \in SUBSET Columns}
Contents   == UNION {[S -> Layout] : S \in SUBSET Tables}

FieldRow == {NoField} \cup [status : {"ACTIVE", "INACTIVE"}, type : Types, label : Labels]
CatalogueRow == {NotListed} \cup [status : {"ACTIVE", "INACTIVE"}, fields : [Columns -> FieldRow]]

ASSUME DiscoveryAssumption ==
  /\ MaxChanges \in Nat /\ Whole \notin Columns /\ Unclassified \in Labels /\ "none" \notin Labels
  /\ SourceStates \subseteq Contents /\ Catalogues \subseteq [Tables -> CatalogueRow]

VARIABLES
  live,       \* what the source holds: the fields of its tables
  changes,    \* how often it or a classification has changed
  catalogue,  \* the rows of datasets and data_fields
  discovery,  \* status and version of the rows of metadata_discovery
  queued,     \* discoveries with a job
  discoverer, \* where each worker is, and what it has read
  diff,       \* the rows of metadata_diffs, by discovery: the entries, and what was found of
              \* their objects; "base" is history: the catalogue it was computed from
  applier     \* where each applier is, and what it has read

discoveryVars == <<live, changes, catalogue, discovery, queued, discoverer, diff, applier>>

Idle    == [step |-> "none"]
NoDiff  == [status |-> "none"]
Settled == {"SUCCESS", "PARTIAL", "TECHNICAL_ERROR"}
Items   == Columns \cup {Whole}
Kinds   == {"none", "ADDED", "CHANGED", "REMOVED"}

DiscoveryInit ==
  /\ live \in SourceStates
  /\ changes = 0
  /\ catalogue \in Catalogues
  /\ discovery = [d \in Discoveries |-> [status |-> "none", version |-> 0]]
  /\ queued = {}
  /\ discoverer = [w \in DiscoveryWorkers |-> Idle]
  /\ diff = [d \in Discoveries |-> NoDiff]
  /\ applier = [a \in DiffAppliers |-> Idle]

-----------------------------------------------------------------------------
(* The request *)

RequestDiscovery(d) ==
  /\ discovery[d].status = "none"
  /\ discovery' = [discovery EXCEPT ![d] = [status |-> "QUEUED", version |-> 1]]
  /\ UNCHANGED <<live, changes, catalogue, queued, discoverer, diff, applier>>

\* In the next transaction, which may never come.
EnqueueDiscovery(d) ==
  /\ discovery[d].status = "QUEUED" /\ d \notin queued
  /\ queued' = queued \cup {d}
  /\ UNCHANGED <<live, changes, catalogue, discovery, discoverer, diff, applier>>

-----------------------------------------------------------------------------
(* The worker.  A job that is retried, or whose lease was lost, is taken again. *)

Discovers(w, step) == discoverer' = [discoverer EXCEPT ![w] = step]

GetDiscovery(w, d) ==
  /\ discoverer[w] = Idle /\ d \in queued /\ discovery[d].status = "QUEUED"
  /\ Discovers(w, [step |-> "start", of |-> d, version |-> discovery[d].version])
  /\ UNCHANGED <<live, changes, catalogue, discovery, queued, diff, applier>>

\* Mutant: the row is updated whatever its version.
UpdateStatus_ByKey(w, status, next) ==
  LET d == discoverer[w].of
  IN /\ discovery' = [discovery EXCEPT ![d] = [status |-> status,
                                               version |-> discoverer[w].version + 1]]
     /\ Discovers(w, next)

\* update_discovery_status: by the version that was read, or a conflict that ends the handler.
UpdateStatus(w, status, next) ==
  LET d == discoverer[w].of
  IN IF discovery[d].version = discoverer[w].version
     THEN /\ discovery' = [discovery EXCEPT ![d] = [status |-> status, version |-> @.version + 1]]
          /\ Discovers(w, next)
     ELSE Discovers(w, Idle) /\ UNCHANGED discovery

StartDiscovery(w) ==
  /\ discoverer[w].step = "start"
  /\ UpdateStatus(w, "RUNNING", [step |-> "scan", of |-> discoverer[w].of,
                                 version |-> discoverer[w].version + 1])
  /\ UNCHANGED <<live, changes, catalogue, queued, diff, applier>>

\* The source cannot be reached, the secret not resolved, or the type has no connector.
ScanFails(w) ==
  /\ discoverer[w].step = "scan"
  /\ UpdateStatus(w, "TECHNICAL_ERROR", Idle)
  /\ UNCHANGED <<live, changes, catalogue, queued, diff, applier>>

\* The connector answers, for all tables in scope or for those it came to.
Scan(w, covered) ==
  /\ discoverer[w].step = "scan"
  /\ Discovers(w, [step |-> "compare", of |-> discoverer[w].of, version |-> discoverer[w].version,
                   complete |-> covered = Tables,
                   found |-> [t \in covered \cap DOMAIN live |-> live[t]]])
  /\ UNCHANGED <<live, changes, catalogue, discovery, queued, diff, applier>>

Known(row) == row.status # "none"

\* field_signature, where a connector that does not classify leaves the row its classification.
SameSignature(field, row) ==
  Known(row) /\ row.type = field.type /\ field.label \in {"none", row.label}

\* diff_metadata on one object, "found" being the layout that was found of a table.
DatasetKind(row, isFound) ==
  CASE isFound /\ ~ Known(row) -> "ADDED"
    [] ~ isFound /\ Known(row) -> "REMOVED"
    [] OTHER                   -> "none"

FieldKind(row, found, f) ==
  CASE f \in DOMAIN found /\ ~ Known(row)                                     -> "ADDED"
    [] f \in DOMAIN found /\ Known(row) /\ ~ SameSignature(found[f], row)      -> "CHANGED"
    [] f \notin DOMAIN found /\ Known(row)                                     -> "REMOVED"
    [] OTHER                                                                  -> "none"

KindOf(base, found, t, i) ==
  IF i = Whole THEN DatasetKind(base[t], t \in DOMAIN found)
  ELSE IF t \in DOMAIN found THEN FieldKind(base[t].fields[i], found[t], i)
  ELSE "none"

\* What was not found is an entry only if all there is was looked at.
Entries(base, found, complete) ==
  [t \in Tables |-> [i \in Items |->
     IF KindOf(base, found, t, i) = "REMOVED" /\ ~ complete THEN "none"
     ELSE KindOf(base, found, t, i)]]

\* The snapshot of the catalogue holds the inactive rows too.
Compare(w) ==
  /\ discoverer[w].step = "compare"
  /\ Discovers(w, [step |-> "finish", of |-> discoverer[w].of, version |-> discoverer[w].version,
                   row |-> [status |-> "PENDING", found |-> discoverer[w].found, base |-> catalogue,
                            complete |-> discoverer[w].complete,
                            entries |-> Entries(catalogue, discoverer[w].found, discoverer[w].complete)]])
  /\ UNCHANGED <<live, changes, catalogue, discovery, queued, diff, applier>>

FinishDiscovery(w) ==
  /\ discoverer[w].step = "finish"
  /\ UpdateStatus(w, IF discoverer[w].row.complete THEN "SUCCESS" ELSE "PARTIAL",
                  [step |-> "persist", of |-> discoverer[w].of, row |-> discoverer[w].row])
  /\ UNCHANGED <<live, changes, catalogue, queued, diff, applier>>

PersistDiff(w) ==
  /\ discoverer[w].step = "persist"
  /\ diff' = [diff EXCEPT ![discoverer[w].of] = discoverer[w].row]
  /\ Discovers(w, Idle)
  /\ UNCHANGED <<live, changes, catalogue, discovery, queued, applier>>

\* The process dies, or the connector fails in a way that is not classified: a discovery that
\* is RUNNING stays so, and one whose diff was not stored has none.
StopDiscovery(w) ==
  /\ discoverer[w] # Idle
  /\ Discovers(w, Idle)
  /\ UNCHANGED <<live, changes, catalogue, discovery, queued, diff, applier>>

-----------------------------------------------------------------------------
(* The application of a diff *)

Listed(d) == {p \in Tables \X Items : diff[d].entries[p[1]][p[2]] # "none"}

\* apply_discovery_diff looks up the rows the entries are about.
ApplyReadDiff(a, d, selection) ==
  /\ applier[a] = Idle /\ diff[d].status = "PENDING"
  /\ selection \subseteq Listed(d) /\ (selection = {} => Listed(d) = {})
  /\ applier' = [applier EXCEPT ![a] = [step |-> "apply", of |-> d, selection |-> selection,
                                         read |-> catalogue]]
  /\ UNCHANGED <<live, changes, catalogue, discovery, queued, discoverer, diff>>

\* What is chosen of a table, by item.
ChosenOf(a, t) ==
  [i \in Items |-> IF <<t, i>> \in applier[a].selection THEN diff[applier[a].of].entries[t][i] ELSE "none"]

\* A chosen entry has an effect if it finds its row, or the dataset to add the field to.
Does(kind, read, chosen, i) ==
  /\ chosen[i] = kind
  /\ IF kind = "ADDED" THEN i = Whole \/ Known(read) \/ chosen[Whole] = "ADDED"
     ELSE Known(IF i = Whole THEN read ELSE read.fields[i])

\* Mutant: a field that has changed loses its classification.
WrittenField_Unclassified(row, read, chosen, shown, f) ==
  CASE Does("ADDED", read, chosen, f) \/ Does("CHANGED", read, chosen, f) ->
         [status |-> "ACTIVE", type |-> shown[f].type, label |-> Unclassified]
    [] Does("REMOVED", read, chosen, f) -> [row EXCEPT !.status = "INACTIVE"]
    [] OTHER -> row

\* A field that is added is not classified, one that has changed keeps the classification that
\* was read; of what was found, only the type is taken over.
WrittenField(row, read, chosen, shown, f) ==
  CASE Does("ADDED", read, chosen, f) ->
         [status |-> "ACTIVE", type |-> shown[f].type, label |-> Unclassified]
    [] Does("CHANGED", read, chosen, f) ->
         [status |-> "ACTIVE", type |-> shown[f].type, label |-> read.fields[f].label]
    [] Does("REMOVED", read, chosen, f) -> [row EXCEPT !.status = "INACTIVE"]
    [] OTHER -> row

\* A dataset is active with the entries that write it or a field of it; removing a field does
\* not touch it.
WrittenRow(row, read, chosen, shown) ==
  [status |-> IF Does("REMOVED", read, chosen, Whole) THEN "INACTIVE"
              ELSE IF \E i \in Items : Does("ADDED", read, chosen, i) \/ Does("CHANGED", read, chosen, i)
              THEN "ACTIVE" ELSE row.status,
   fields |-> [f \in Columns |-> WrittenField(row.fields[f], read, chosen, shown, f)]]

\* A row that was not there when it was looked up is inserted, and names are unique.
Insertable(row, read, chosen) ==
  \A i \in Items :
    Does("ADDED", read, chosen, i) =>
      IF i = Whole THEN Known(row) => Known(read) ELSE Known(row.fields[i]) => Known(read.fields[i])

\* One transaction: the diff is claimed by its status and version, and the rows are written by
\* their key.  It fails if somebody else has inserted a row it inserts.
ApplyDiff(a) ==
  /\ applier[a].step = "apply"
  /\ LET d == applier[a].of  read == applier[a].read  found == diff[d].found
     IN IF /\ diff[d].status = "PENDING"
           /\ \A t \in Tables : Insertable(catalogue[t], read[t], ChosenOf(a, t))
        THEN /\ catalogue' = [t \in Tables |->
                   WrittenRow(catalogue[t], read[t], ChosenOf(a, t),
                              IF t \in DOMAIN found THEN found[t] ELSE <<>>)]
             /\ diff' = [diff EXCEPT ![d].status = "APPLIED"]
        ELSE UNCHANGED <<catalogue, diff>>
  /\ applier' = [applier EXCEPT ![a] = Idle]
  /\ UNCHANGED <<live, changes, discovery, queued, discoverer>>

-----------------------------------------------------------------------------
(* What goes on meanwhile *)

SourceChanges ==
  /\ changes < MaxChanges
  /\ changes' = changes + 1
  /\ live' \in SourceStates \ {live}
  /\ UNCHANGED <<catalogue, discovery, queued, discoverer, diff, applier>>

\* update_field, for a governance request that marks the field or by hand.
UpdateField(t, f, label) ==
  /\ changes < MaxChanges
  /\ changes' = changes + 1
  /\ Known(catalogue[t].fields[f]) /\ catalogue[t].fields[f].label # label
  /\ catalogue' = [catalogue EXCEPT ![t].fields[f].label = label]
  /\ UNCHANGED <<live, discovery, queued, discoverer, diff, applier>>

DiscoveryNext ==
  \/ \E d \in Discoveries : RequestDiscovery(d) \/ EnqueueDiscovery(d)
  \/ \E w \in DiscoveryWorkers :
       \/ \E d \in Discoveries : GetDiscovery(w, d)
       \/ StartDiscovery(w) \/ ScanFails(w) \/ Compare(w) \/ FinishDiscovery(w)
       \/ PersistDiff(w) \/ StopDiscovery(w)
       \/ \E covered \in SUBSET Tables : Scan(w, covered)
  \/ \E a \in DiffAppliers :
       \/ ApplyDiff(a)
       \/ \E d \in Discoveries, chosen \in SUBSET (Tables \X Items) : ApplyReadDiff(a, d, chosen)
  \/ SourceChanges
  \/ \E t \in Tables, f \in Columns, label \in Labels : UpdateField(t, f, label)

DiscoverySpec == DiscoveryInit /\ [][DiscoveryNext]_discoveryVars

-----------------------------------------------------------------------------
(* Properties *)

DiscoveryTypeOK ==
  /\ live \in Contents /\ changes \in 0..MaxChanges
  /\ catalogue \in [Tables -> CatalogueRow]
  /\ discovery \in [Discoveries -> [status : {"none", "QUEUED", "RUNNING"} \cup Settled, version : Nat]]
  /\ queued \subseteq Discoveries
  /\ \A d \in Discoveries : diff[d] # NoDiff =>
       diff[d].status \in {"PENDING", "APPLIED"} /\ diff[d].entries \in [Tables -> [Items -> Kinds]]
  /\ \A a \in DiffAppliers : applier[a] # Idle => applier[a].selection \subseteq Listed(applier[a].of)

\* Discoveries are carried out by one worker each, though their jobs may be taken twice: what
\* has ended stays as it ended, and a diff belongs to a discovery that found something and is
\* never replaced.
DiscoveriesStaySettled ==
  [][\A d \in Discoveries :
       /\ discovery[d].status \in Settled => discovery'[d] = discovery[d]
       /\ diff'[d] # diff[d] =>
            \/ diff[d] = NoDiff /\ discovery[d].status \in {"SUCCESS", "PARTIAL"}
            \/ diff[d].status = "PENDING" /\ diff'[d].status = "APPLIED"]_discoveryVars

\* A diff is applied in full to the catalogue it was computed from.
AppliedInFull(d) ==
  /\ diff[d].status = "PENDING" /\ diff'[d].status = "APPLIED"
  /\ diff[d].complete /\ catalogue = diff[d].base
  /\ \E a \in DiffAppliers :
       /\ applier[a] # Idle /\ applier'[a] = Idle /\ applier[a].of = d
       /\ applier[a].selection = Listed(d) /\ applier[a].read = catalogue

\* What there was and is of a table, when "found" was found of its source.
Reconciled(was, is, found, t) ==
  LET Same(f) == SameSignature(found[t][f], was.fields[f])
  IN /\ \A f \in Columns :
          Known(was.fields[f]) => Known(is.fields[f]) /\ is.fields[f].label = was.fields[f].label
     /\ t \notin DOMAIN found => is.status # "ACTIVE"
     /\ t \in DOMAIN found =>
          /\ is.status = "ACTIVE" \/ (was.status = "INACTIVE" /\ \A f \in DOMAIN found[t] : Same(f))
          /\ \A f \in Columns \ DOMAIN found[t] : is.fields[f].status # "ACTIVE"
          /\ \A f \in DOMAIN found[t] :
               /\ is.fields[f].type = found[t][f].type
               /\ is.fields[f].status = "ACTIVE" \/ (is.fields[f] = was.fields[f] /\ Same(f))

\* service.py:1489, "apply a pending metadata diff selection to reconcile the catalog": when
\* the diff of a complete discovery is applied in full, and the catalogue is still the one it was
\* compared with, no table is active that was not found, nor a field that was not found of a
\* table that was.  Every field that was found has the type that was found; it and its table are
\* active, unless the comparison listed no change of them: what comes back as it was when it was
\* passivated stays passive, a table also when it comes back with columns fewer.  No field loses
\* or changes its classification, whatever the connector says of it.
AppliedDiffReconciles ==
  [][\A d \in Discoveries : AppliedInFull(d) =>
       \A t \in Tables : Reconciled(catalogue[t], catalogue'[t], diff[d].found, t)]_discoveryVars
=============================================================================
