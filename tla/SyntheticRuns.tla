----------------------------- MODULE SyntheticRuns ----------------------------
(***************************************************************************)
(* Runs of the synthetic data generator for one dataset: a run is          *)
(* requested under the policy in force, its output is compared with the    *)
(* ground truth by the oracle, and the run is finalized with the result.   *)
(*                                                                         *)
(* Nothing is updated: requests, validations and completions are rows of   *)
(* their own, and whether a run has ended shows in its completion.  Each   *)
(* call reads what it needs and then writes its row and its audit event in *)
(* one transaction.                                                        *)
(***************************************************************************)
EXTENDS Naturals, FiniteSets

CONSTANTS
  Runs,
  Outputs,          \* outputs, each the records it holds; a reference is the digest of one
  Size,             \*   how many records it has
  GoodOutputs,      \*   those whose records agree with the ground truth
  Policies,         \* the policies that may be added: when they are in force,
  PolicyFrom, PolicyTo,
  Permissive,       \*   and which of them allow a generation with a ground truth
  SyntheticCallers,
  MaxDay            \* bound on the clock

ASSUME SyntheticAssumption ==
  /\ GoodOutputs \subseteq Outputs /\ Permissive \subseteq Policies /\ Size \in [Outputs -> Nat]
  /\ PolicyFrom \in [Policies -> Nat] /\ PolicyTo \in [Policies -> Nat]
  /\ MaxDay \in Nat /\ "none" \notin Outputs \cup Policies

VARIABLES
  policies,      \* the approved policies
  day,
  runPolicy,     \* the policy each run was requested under
  validation,    \* what the oracle recorded of each run; "judged" is history, of which only
                 \* the counts are stored: the records it was given
  completion,    \* how each run ended
  audited,       \* the events staged with these rows
  syntheticCall

syntheticVars == <<policies, day, runPolicy, validation, completion, audited, syntheticCall>>

NotYet      == [status |-> "none"]
StoredKinds == {"request", "validation", "completion"}
NoAction    == [step |-> "idle"]

SyntheticInit ==
  /\ policies = {} /\ day = 0
  /\ runPolicy = [r \in Runs |-> "none"]
  /\ validation = [r \in Runs |-> NotYet]
  /\ completion = [r \in Runs |-> NotYet]
  /\ audited = [r \in Runs |-> [k \in StoredKinds |-> 0]]
  /\ syntheticCall = [c \in SyntheticCallers |-> NoAction]

-----------------------------------------------------------------------------
Prepares(c, what) == /\ syntheticCall[c] = NoAction
                     /\ syntheticCall' = [syntheticCall EXCEPT ![c] = what]
SyntheticDone(c)  == syntheticCall' = [syntheticCall EXCEPT ![c] = NoAction]
Stages(r, k)      == audited' = [audited EXCEPT ![r][k] = @ + 1]

AddPolicy(p) ==
  /\ p \notin policies
  /\ policies' = policies \cup {p}
  /\ UNCHANGED <<day, runPolicy, validation, completion, audited, syntheticCall>>

DayPasses ==
  /\ day < MaxDay
  /\ day' = day + 1
  /\ UNCHANGED <<policies, runPolicy, validation, completion, audited, syntheticCall>>

Effective == {p \in policies : PolicyFrom[p] <= day /\ day < PolicyTo[p]}

\* request_run: the one policy in force must allow the run; two of them are a conflict.
RequestRun(c) ==
  /\ \E p \in Permissive :
       Effective = {p} /\ Prepares(c, [step |-> "request", policy |-> p])
  /\ UNCHANGED <<policies, day, runPolicy, validation, completion, audited>>

RunStored(c, r) ==
  /\ syntheticCall[c].step = "request" /\ runPolicy[r] = "none"
  /\ runPolicy' = [runPolicy EXCEPT ![r] = syntheticCall[c].policy]
  /\ Stages(r, "request") /\ SyntheticDone(c)
  /\ UNCHANGED <<policies, day, validation, completion>>

\* validate_and_record compares the records it is given with the ground truth, and takes over
\* the reference that comes with them: that one belongs to the other is not looked at.
Validate(c, r, reference, o) ==
  /\ runPolicy[r] # "none"
  /\ Prepares(c, [step |-> "validation", run |-> r,
                  row |-> [output |-> reference, judged |-> o,
                           status |-> IF o \in GoodOutputs THEN "PASS" ELSE "BLOCKED"]])
  /\ UNCHANGED <<policies, day, runPolicy, validation, completion, audited>>

\* A run has one ground truth of a version, and there is one version.
ValidationStored(c) ==
  /\ syntheticCall[c].step = "validation" /\ SyntheticDone(c)
  /\ LET held == syntheticCall[c]
     IN  IF validation[held.run] = NotYet
         THEN /\ validation' = [validation EXCEPT ![held.run] = held.row]
              /\ Stages(held.run, "validation")
         ELSE UNCHANGED <<validation, audited>>
  /\ UNCHANGED <<policies, day, runPolicy, completion>>

EndOf(status) == IF status = "PASS" THEN "COMPLETED" ELSE "BLOCKED"

\* finalize: the output's reference is the digest of its records, and the validation must
\* have this reference and as many records.
Finalize(c, r, o) ==
  /\ validation[r] # NotYet /\ validation[r].output = o /\ Size[validation[r].judged] = Size[o]
  /\ Prepares(c, [step |-> "completion", run |-> r,
                  row |-> [output |-> o, status |-> EndOf(validation[r].status)]])
  /\ UNCHANGED <<policies, day, runPolicy, validation, completion, audited>>

\* A completion that is there already is returned if it has the same evidence.
CompletionStored(c) ==
  /\ syntheticCall[c].step = "completion" /\ SyntheticDone(c)
  /\ LET held == syntheticCall[c]
     IN  IF completion[held.run] = NotYet
         THEN /\ completion' = [completion EXCEPT ![held.run] = held.row]
              /\ Stages(held.run, "completion")
         ELSE UNCHANGED <<completion, audited>>
  /\ UNCHANGED <<policies, day, runPolicy, validation>>

CallerDies(c) ==
  /\ syntheticCall[c] # NoAction /\ SyntheticDone(c)
  /\ UNCHANGED <<policies, day, runPolicy, validation, completion, audited>>

SyntheticNext ==
  \/ DayPasses
  \/ \E p \in Policies : AddPolicy(p)
  \/ \E c \in SyntheticCallers :
       \/ RequestRun(c) \/ ValidationStored(c) \/ CompletionStored(c) \/ CallerDies(c)
       \/ \E r \in Runs :
            \/ RunStored(c, r)
            \/ \E o \in Outputs :
                 Finalize(c, r, o) \/ \E reference \in Outputs : Validate(c, r, reference, o)

SyntheticSpec == SyntheticInit /\ [][SyntheticNext]_syntheticVars

-----------------------------------------------------------------------------
(* Properties *)

\* Every variable has its type.
SyntheticTypeOK ==
  /\ policies \subseteq Policies /\ day \in 0..MaxDay
  /\ runPolicy \in [Runs -> Policies \cup {"none"}]
  /\ validation \in [Runs -> {NotYet} \cup
                      [output : Outputs, judged : Outputs, status : {"PASS", "BLOCKED"}]]
  /\ completion \in [Runs -> {NotYet} \cup [output : Outputs, status : {"COMPLETED", "BLOCKED"}]]
  /\ audited \in [Runs -> [StoredKinds -> Nat]]
  /\ DOMAIN syntheticCall = SyntheticCallers

\* A run ends with the output that its one stored validation refers to, and as the oracle
\* judged the records it was given, which are as many: whichever records are validated under
\* whichever reference, and whichever outputs are finalized at the same time, a run is completed
\* exactly when those records agree with the ground truth.  So an output that was judged under
\* its own reference is completed only if it is good (finalize, _validate_validation_link,
\* _same_completion_evidence).
CompletionsAreGrounded ==
  \A r \in Runs : completion[r] # NotYet =>
    /\ validation[r] # NotYet
    /\ validation[r].output = completion[r].output
    /\ Size[validation[r].judged] = Size[completion[r].output]
    /\ completion[r].status = "COMPLETED" <=> validation[r].judged \in GoodOutputs

\* Each row of a run has its one audit event, however often a call is repeated.
SyntheticRowsAreAudited ==
  \A r \in Runs :
    /\ audited[r]["request"] = IF runPolicy[r] = "none" THEN 0 ELSE 1
    /\ audited[r]["validation"] = IF validation[r] = NotYet THEN 0 ELSE 1
    /\ audited[r]["completion"] = IF completion[r] = NotYet THEN 0 ELSE 1
=============================================================================
