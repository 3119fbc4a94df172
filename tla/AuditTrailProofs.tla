--------------------------- MODULE AuditTrailProofs ---------------------------
(***************************************************************************)
(* Proofs about AuditTrail, for every set of events, appenders and         *)
(* publishers and every batch limit: the ledger is one unbroken chain and  *)
(* grows only at its end, it tells of committed transactions only, and an  *)
(* outbox row that is done with has its event there.                       *)
(*                                                                         *)
(* The argument is the lock: whoever is between the reads and the commit   *)
(* of append holds it, so the ledger does not move under it; the hash it   *)
(* read is still the last one, and the sequence number it drew is still    *)
(* above every committed one, when it commits.                             *)
(***************************************************************************)
EXTENDS MCQueueAndAudit, JobQueueProofs, TLAPS

InTransaction == {"read", "insert", "commit"}

\* An appender has an event to append, a publisher one of its batch.
EventOK(a) ==
  /\ a \in Publishers /\ position[a] \in InTransaction \cup {"lock"} => event[a] \in batch[a]
  /\ a \in Publishers /\ position[a] = "idle" => batch[a] = {}
  /\ a \in Direct => event[a] = a

Typed == AuditTypeOK /\ \A a \in Appenders : EventOK(a)

\* Committed rows have distinct numbers, all drawn already, and a last one.
LedgerOK ==
  /\ \A r \in ledger : r.seq < nextSeq
  /\ \A r, s \in ledger : r.seq = s.seq => r = s
  /\ ledger # {} => \E r \in ledger : IsLast(r)

\* What an appender knows of the ledger while it holds the lock.
HolderOK(a) ==
  /\ position[a] \in InTransaction => lock = a
  /\ position[a] \in {"insert", "commit"} => IsLastHash(prev[a])
  /\ position[a] = "commit" => seq[a] < nextSeq /\ \A r \in ledger : r.seq < seq[a]

AuditInv == Typed /\ LedgerOK /\ ChainIntact /\ \A a \in Appenders : HolderOK(a)

\* What the constants are.
LEMMA Constants ==
  /\ Nobody \notin Appenders /\ Genesis \notin Events
  /\ Publishers \cap Direct = {} /\ Staged \subseteq Nat
  /\ MaxInserts \in Nat /\ MaxFailures \in Nat
BY AuditAssumption

-----------------------------------------------------------------------------
(* Types *)

LEMMA InitTyped == AuditInit => Typed
<1> SUFFICES ASSUME AuditInit PROVE Typed
  OBVIOUS
<1>1. /\ outbox \in [Staged -> {"none", "open", "rolled back", "PENDING", "PUBLISHED"}]
      /\ position \in [Appenders -> AuditPoints] /\ lock \in Appenders \cup {Nobody}
      /\ prev \in [Appenders -> Events \cup {Genesis}] /\ seq \in [Appenders -> Nat]
  BY DEF AuditInit, AuditPoints
<1>2. event \in [Appenders -> Events \cup {Genesis}]
  BY DEF AuditInit, Events, Appenders
<1>3. /\ batch \in [Publishers -> SUBSET Staged]
      /\ done \in [Publishers -> SUBSET Staged] /\ gaveUp \in [Publishers -> SUBSET Staged]
      /\ \A p \in Publishers : done[p] \cup gaveUp[p] \subseteq batch[p]
  BY DEF AuditInit
<1>4. /\ ledger \subseteq Entry
      /\ nextSeq \in 1..(MaxInserts + 1) /\ failures \in 0..MaxFailures
  BY Constants DEF AuditInit
<1>5. ASSUME NEW a \in Appenders PROVE EventOK(a)
  BY Constants DEF AuditInit, EventOK, InTransaction, Appenders
<1> QED BY <1>1, <1>2, <1>3, <1>4, <1>5 DEF Typed, AuditTypeOK

\* An appender whose event and batch stay the same, and that does not come to be
\* idle or to append an event.
LEMMA EventStays ==
  ASSUME Typed, NEW b \in Appenders, event'[b] = event[b],
         b \in Publishers => batch'[b] = batch[b],
         position'[b] \in InTransaction \cup {"lock"} => position[b] \in InTransaction \cup {"lock"},
         position'[b] = "idle" => position[b] = "idle"
  PROVE  EventOK(b)'
<1>1. EventOK(b)
  BY DEF Typed
<1> QED BY <1>1 DEF EventOK

\* The business transactions write outbox only.
LEMMA BusinessTyped ==
  ASSUME Typed, NEW e \in Staged, Stage(e) \/ EndTransaction(e)
  PROVE  Typed'
<1>1. UNCHANGED <<batch, done, gaveUp, lock, position, event, prev, seq, ledger, nextSeq, failures>>
  BY DEF Stage, EndTransaction, publisher, appender
<1>2. outbox' \in [Staged -> {"none", "open", "rolled back", "PENDING", "PUBLISHED"}]
  BY DEF Stage, EndTransaction, Typed, AuditTypeOK
<1>3. AuditTypeOK'
  BY <1>1, <1>2 DEF Typed, AuditTypeOK
<1>4. \A b \in Appenders : EventOK(b)'
  BY <1>1, EventStays
<1> QED BY <1>3, <1>4 DEF Typed

\* The first steps of append, and the start of a direct one, write neither the
\* batches nor their outcome.
LEMMA BeginTyped ==
  ASSUME Typed, NEW a \in Appenders, Lock(a) \/ Insert(a) \/ (a \in Direct /\ AppendDirect(a))
  PROVE  Typed'
<1>1. UNCHANGED <<outbox, batch, done, gaveUp, event, prev, ledger, failures>>
  BY DEF Lock, Insert, AppendDirect, publisher
<1>2. /\ \A b \in Appenders : b # a => position'[b] = position[b]
      /\ position' \in [Appenders -> AuditPoints]
      /\ position'[a] \in {"read", "commit", "lock"}
      /\ a \in Publishers => position[a] \in {"lock", "insert"}
  BY Constants DEF Typed, AuditTypeOK, Lock, Insert, AppendDirect, AppenderGoto, AuditPoints
<1>3. /\ lock' \in Appenders \cup {Nobody}
      /\ seq' \in [Appenders -> Nat] /\ nextSeq' \in 1..(MaxInserts + 1)
  <2>1. CASE Insert(a)
    <3>1. /\ nextSeq \in 1..(MaxInserts + 1) /\ seq \in [Appenders -> Nat]
          /\ lock \in Appenders \cup {Nobody}
      BY DEF Typed, AuditTypeOK
    <3>2. /\ nextSeq' = nextSeq + 1 /\ nextSeq <= MaxInserts /\ lock' = lock
          /\ seq' = [seq EXCEPT ![a] = nextSeq]
      BY <2>1 DEF Insert
    <3>3. nextSeq \in Nat /\ nextSeq' \in 1..(MaxInserts + 1)
      BY <3>1, <3>2, Constants
    <3> QED BY <3>1, <3>2, <3>3
  <2>2. CASE ~ Insert(a)
    BY <2>2 DEF Lock, AppendDirect, Typed, AuditTypeOK
  <2> QED BY <2>1, <2>2
<1>4. AuditTypeOK'
  BY <1>1, <1>2, <1>3 DEF Typed, AuditTypeOK
<1>5. ASSUME NEW b \in Appenders PROVE EventOK(b)'
  <2>1. CASE b = a
    BY <2>1, <1>1, <1>2 DEF Typed, AuditTypeOK, EventOK, InTransaction
  <2>2. CASE b # a
    BY <2>2, <1>1, <1>2 DEF Typed, AuditTypeOK, EventOK, InTransaction
  <2> QED BY <2>1, <2>2
<1> QED BY <1>4, <1>5 DEF Typed

\* One more event in the set a function gives for one publisher.
LEMMA Grows ==
  ASSUME NEW f \in [Publishers -> SUBSET Staged], NEW a \in Publishers, NEW e \in Staged
  PROVE  /\ [f EXCEPT ![a] = @ \cup {e}] \in [Publishers -> SUBSET Staged]
         /\ \A p \in Publishers : [f EXCEPT ![a] = @ \cup {e}][p] \subseteq f[p] \cup {e}
         /\ \A p \in Publishers : p # a => [f EXCEPT ![a] = @ \cup {e}][p] = f[p]
<1> DEFINE g == [f EXCEPT ![a] = @ \cup {e}]
<1>1. g = [p \in Publishers |-> IF p = a THEN f[a] \cup {e} ELSE f[p]]
  OBVIOUS
<1>2. f[a] \cup {e} \in SUBSET Staged
  OBVIOUS
<1>3. \A p \in Publishers : f[p] \in SUBSET Staged
  OBVIOUS
<1>4. \A p \in Publishers : (IF p = a THEN f[a] \cup {e} ELSE f[p]) \in SUBSET Staged
  BY <1>2, <1>3
<1>5. g \in [Publishers -> SUBSET Staged]
  BY <1>1, <1>4
<1>6. \A p \in Publishers : g[p] = IF p = a THEN f[a] \cup {e} ELSE f[p]
  BY <1>1
<1> HIDE DEF g
<1>7. \A p \in Publishers : g[p] \subseteq f[p] \cup {e} /\ (p # a => g[p] = f[p])
  BY <1>6
<1> QED BY <1>5, <1>7 DEF g

\* However an append ends.
LEMMA EndTyped ==
  ASSUME Typed, NEW a \in Appenders, NEW ok \in BOOLEAN, Ends(a, ok), Unlock(a),
         position[a] \in InTransaction \cup {"lock"},
         ledger' \subseteq Entry, failures' \in 0..MaxFailures,
         UNCHANGED <<outbox, event, prev, seq, nextSeq>>
  PROVE  Typed'
<1>1. /\ position' = [position EXCEPT ![a] = position'[a]] /\ position' \in [Appenders -> AuditPoints]
      /\ position'[a] \in {"publishing", "written", "refused"}
  <2>1. \E p \in {"publishing", "written", "refused"} : position' = [position EXCEPT ![a] = p]
    BY DEF Ends, AppenderGoto
  <2>2. PICK p \in {"publishing", "written", "refused"} : position' = [position EXCEPT ![a] = p]
    BY <2>1
  <2>3. position \in [Appenders -> AuditPoints] /\ p \in AuditPoints
    BY DEF Typed, AuditTypeOK, AuditPoints
  <2> QED BY <2>2, <2>3
<1>2. lock' \in Appenders \cup {Nobody} /\ batch' = batch
  BY DEF Typed, AuditTypeOK, Ends, Unlock, publisher
<1>3. /\ done' \in [Publishers -> SUBSET Staged] /\ gaveUp' \in [Publishers -> SUBSET Staged]
      /\ \A p \in Publishers : done'[p] \cup gaveUp'[p] \subseteq batch'[p]
  <2>1. CASE a \in Publishers
    <3>1. event[a] \in batch[a] /\ event[a] \in Staged
      BY <2>1 DEF Typed, AuditTypeOK, EventOK
    <3>2. /\ done' = done \/ done' = [done EXCEPT ![a] = @ \cup {event[a]}]
          /\ gaveUp' = gaveUp \/ gaveUp' = [gaveUp EXCEPT ![a] = @ \cup {event[a]}]
      BY <2>1 DEF Ends
    <3>3. /\ done \in [Publishers -> SUBSET Staged] /\ gaveUp \in [Publishers -> SUBSET Staged]
          /\ \A p \in Publishers : done[p] \cup gaveUp[p] \subseteq batch[p]
      BY DEF Typed, AuditTypeOK
    <3>4. /\ done' \in [Publishers -> SUBSET Staged]
          /\ \A p \in Publishers : /\ done'[p] \subseteq done[p] \cup {event[a]}
                                   /\ p # a => done'[p] = done[p]
      BY <2>1, <3>1, <3>2, <3>3, Grows
    <3>5. /\ gaveUp' \in [Publishers -> SUBSET Staged]
          /\ \A p \in Publishers : /\ gaveUp'[p] \subseteq gaveUp[p] \cup {event[a]}
                                   /\ p # a => gaveUp'[p] = gaveUp[p]
      BY <2>1, <3>1, <3>2, <3>3, Grows
    <3>6. ASSUME NEW p \in Publishers PROVE done'[p] \cup gaveUp'[p] \subseteq batch'[p]
      <4>1. CASE p = a
        BY <4>1, <1>2, <3>1, <3>3, <3>4, <3>5
      <4>2. CASE p # a
        BY <4>2, <1>2, <3>3, <3>4, <3>5
      <4> QED BY <4>1, <4>2
    <3> QED BY <3>4, <3>5, <3>6
  <2>2. CASE a \notin Publishers
    BY <2>2 DEF Typed, AuditTypeOK, Ends, publisher
  <2> QED BY <2>1, <2>2
<1>4. AuditTypeOK'
  BY <1>1, <1>2, <1>3 DEF Typed, AuditTypeOK
<1>5. ASSUME NEW b \in Appenders PROVE EventOK(b)'
  <2>1. event' = event /\ batch' = batch /\ EventOK(b) /\ position \in [Appenders -> AuditPoints]
    BY <1>2 DEF Typed, AuditTypeOK
  <2>2. CASE b = a
    BY <2>1, <2>2, <1>1 DEF EventOK, InTransaction
  <2>3. CASE b # a
    <3>1. position'[b] = position[b]
      BY <2>1, <2>3, <1>1
    <3> QED BY <2>1, <3>1 DEF EventOK
  <2> QED BY <2>2, <2>3
<1> QED BY <1>4, <1>5 DEF Typed

LEMMA ReadTyped ==
  ASSUME Typed, NEW a \in Appenders, Read(a)
  PROVE  Typed'
<1>1. CASE Recorded(event[a])
  BY <1>1, EndTyped DEF Read, Typed, AuditTypeOK, InTransaction
<1>2. CASE ~ Recorded(event[a])
  <2>1. UNCHANGED <<outbox, batch, done, gaveUp, lock, event, seq, ledger, nextSeq, failures>>
    BY <1>2 DEF Read, publisher
  <2>2. position' = [position EXCEPT ![a] = "insert"] /\ position[a] = "read"
    BY <1>2 DEF Read, AppenderGoto
  <2>3. prev' \in [Appenders -> Events \cup {Genesis}]
    BY <1>2 DEF Read, ReadsLast, Typed, AuditTypeOK
  <2>4. AuditTypeOK'
    BY <2>1, <2>2, <2>3 DEF Typed, AuditTypeOK, AuditPoints
  <2>5. ASSUME NEW b \in Appenders PROVE EventOK(b)'
    <3>1. position \in [Appenders -> AuditPoints]
      BY DEF Typed, AuditTypeOK
    <3>2. position'[b] = position[b] \/ (b = a /\ position'[b] = "insert" /\ position[b] = "read")
      BY <3>1, <2>2
    <3> QED BY <2>1, <3>2, EventStays DEF InTransaction
  <2> QED BY <2>4, <2>5 DEF Typed
<1> QED BY <1>1, <1>2

\* The event an appender appends is an event.
LEMMA EventIsOne ==
  ASSUME Typed, NEW a \in Appenders, position[a] \in InTransaction \cup {"lock"}
  PROVE  event[a] \in Events
<1>1. EventOK(a) /\ batch \in [Publishers -> SUBSET Staged]
  BY DEF Typed, AuditTypeOK
<1>2. CASE a \in Publishers
  <2>1. event[a] \in batch[a] /\ batch[a] \subseteq Staged
    BY <1>1, <1>2 DEF EventOK
  <2> QED BY <2>1 DEF Events
<1>3. CASE a \in Direct
  BY <1>1, <1>3 DEF EventOK, Events
<1> QED BY <1>2, <1>3 DEF Appenders

LEMMA CommitTyped ==
  ASSUME Typed, NEW a \in Appenders, Commit(a)
  PROVE  Typed'
<1>1. event[a] \in Events
  BY EventIsOne DEF Commit, InTransaction
<1>2. [seq |-> seq[a], id |-> event[a], prev |-> prev[a]] \in Entry
  BY <1>1 DEF Typed, AuditTypeOK, Entry
<1>3. ledger' \subseteq Entry
  BY <1>2 DEF Commit, Typed, AuditTypeOK
<1>4. (~ Recorded(event[a])) \in BOOLEAN
  BY DEF Recorded
<1> QED BY <1>3, <1>4, EndTyped DEF Commit, InTransaction, Typed, AuditTypeOK

LEMMA AppendFailsTyped ==
  ASSUME Typed, NEW a \in Appenders, AppendFails(a)
  PROVE  Typed'
<1>1. failures \in 0..MaxFailures /\ failures' = failures + 1 /\ failures < MaxFailures
  BY DEF AppendFails, Typed, AuditTypeOK
<1>2. failures' \in 0..MaxFailures
  BY <1>1, Constants
<1>3. ledger' \subseteq Entry
  BY DEF AppendFails, Typed, AuditTypeOK
<1> QED BY <1>2, <1>3, EndTyped DEF AppendFails, InTransaction

\* A publisher that locks a batch has none yet.
LEMMA SelectTyped ==
  ASSUME Typed, NEW p \in Publishers, SelectPending(p)
  PROVE  Typed'
<1>1. UNCHANGED <<outbox, done, gaveUp, lock, event, prev, seq, ledger, nextSeq, failures>>
  BY DEF SelectPending
<1>2. position' = [position EXCEPT ![p] = "publishing"] /\ position[p] = "idle" /\ p \in Appenders
  BY DEF SelectPending, AppenderGoto, Appenders
<1>3. batch' = [batch EXCEPT ![p] = batch'[p]] /\ batch' \in [Publishers -> SUBSET Staged]
  <2>1. Oldest(Pending) \in SUBSET Staged
    BY DEF Oldest, Pending
  <2> QED BY <2>1 DEF SelectPending, Typed, AuditTypeOK
<1>4. done[p] = {} /\ gaveUp[p] = {}
  BY <1>2 DEF Typed, AuditTypeOK, EventOK
<1>5. ASSUME NEW q \in Publishers PROVE done'[q] \cup gaveUp'[q] \subseteq batch'[q]
  <2>1. CASE q = p
    BY <2>1, <1>1, <1>4
  <2>2. CASE q # p
    BY <2>2, <1>1, <1>3 DEF Typed, AuditTypeOK
  <2> QED BY <2>1, <2>2
<1>6. AuditTypeOK'
  BY <1>1, <1>2, <1>3, <1>5 DEF Typed, AuditTypeOK, AuditPoints
<1>7. ASSUME NEW b \in Appenders PROVE EventOK(b)'
  <2>1. /\ position \in [Appenders -> AuditPoints] /\ batch \in [Publishers -> SUBSET Staged]
        /\ EventOK(b)
    BY DEF Typed, AuditTypeOK
  <2>2. CASE b = p
    <3>1. position'[b] = "publishing"
      BY <2>1, <2>2, <1>1, <1>2
    <3> QED BY <2>1, <3>1, <1>1, <1>2 DEF EventOK, InTransaction
  <2>3. CASE b # p
    <3>1. position'[b] = position[b] /\ event'[b] = event[b] /\ (b \in Publishers => batch'[b] = batch[b])
      BY <2>1, <2>3, <1>1, <1>2, <1>3
    <3> QED BY <3>1, EventStays
  <2> QED BY <2>2, <2>3
<1> QED BY <1>6, <1>7 DEF Typed

LEMMA AppendNextTyped ==
  ASSUME Typed, NEW p \in Publishers, AppendNext(p)
  PROVE  Typed'
<1>1. UNCHANGED <<outbox, batch, done, gaveUp, lock, prev, seq, ledger, nextSeq, failures>>
  BY DEF AppendNext, publisher
<1>2. position' = [position EXCEPT ![p] = "lock"] /\ p \in Appenders /\ p \notin Direct
  BY Constants DEF AppendNext, AppenderGoto, Appenders
<1>3. PICK e \in batch[p] : event' = [event EXCEPT ![p] = e]
  BY DEF AppendNext, Left
<1>4. e \in Events
  BY DEF Typed, AuditTypeOK, Events
<1>5. AuditTypeOK'
  BY <1>1, <1>2, <1>3, <1>4 DEF Typed, AuditTypeOK, AuditPoints
<1>6. ASSUME NEW b \in Appenders PROVE EventOK(b)'
  BY <1>1, <1>2, <1>3 DEF Typed, AuditTypeOK, EventOK, InTransaction
<1> QED BY <1>5, <1>6 DEF Typed

\* However a batch ends.
LEMMA EndBatchTyped ==
  ASSUME Typed, NEW p \in Publishers, EndBatch(p),
         outbox' \in [Staged -> {"none", "open", "rolled back", "PENDING", "PUBLISHED"}],
         lock' \in Appenders \cup {Nobody}, failures' \in 0..MaxFailures,
         UNCHANGED <<event, prev, seq, ledger, nextSeq>>
  PROVE  Typed'
<1>1. position' = [position EXCEPT ![p] = "idle"] /\ p \in Appenders
  BY DEF EndBatch, AppenderGoto, Appenders
<1>2. /\ batch' \in [Publishers -> SUBSET Staged]
      /\ done' \in [Publishers -> SUBSET Staged] /\ gaveUp' \in [Publishers -> SUBSET Staged]
  BY DEF EndBatch, Typed, AuditTypeOK
<1>3. ASSUME NEW q \in Publishers PROVE done'[q] \cup gaveUp'[q] \subseteq batch'[q]
  BY DEF EndBatch, Typed, AuditTypeOK
<1>4. AuditTypeOK'
  BY <1>1, <1>2, <1>3 DEF Typed, AuditTypeOK, AuditPoints
<1>5. ASSUME NEW b \in Appenders PROVE EventOK(b)'
  BY <1>1 DEF EndBatch, Typed, AuditTypeOK, EventOK, InTransaction
<1> QED BY <1>4, <1>5 DEF Typed

LEMMA BatchEndsTyped ==
  ASSUME Typed, NEW p \in Publishers, CommitBatch(p) \/ BatchFails(p)
  PROVE  Typed'
<1>1. CASE CommitBatch(p)
  BY <1>1, EndBatchTyped DEF CommitBatch, Typed, AuditTypeOK
<1>2. CASE BatchFails(p)
  <2>1. failures \in 0..MaxFailures /\ failures' = failures + 1 /\ failures < MaxFailures
    BY <1>2 DEF BatchFails, Typed, AuditTypeOK
  <2>2. failures' \in 0..MaxFailures
    BY <2>1, Constants
  <2>3. lock' \in Appenders \cup {Nobody}
    BY <1>2 DEF BatchFails, Unlock, Typed, AuditTypeOK
  <2> QED BY <1>2, <2>2, <2>3, EndBatchTyped DEF BatchFails, Typed, AuditTypeOK
<1> QED BY <1>1, <1>2

LEMMA TypedIsInductive == Typed /\ [AuditNext]_auditVars => Typed'
<1> SUFFICES ASSUME Typed, [AuditNext]_auditVars PROVE Typed'
  OBVIOUS
<1>1. CASE UNCHANGED auditVars
  BY <1>1 DEF auditVars, publisher, appender, Typed, AuditTypeOK, EventOK
<1>2. CASE AuditNext
  BY <1>2, BusinessTyped, BeginTyped, ReadTyped, CommitTyped, AppendFailsTyped,
             SelectTyped, AppendNextTyped, BatchEndsTyped
  DEF AuditNext, AppendStep, PublishStep, Appenders
<1> QED BY <1>1, <1>2

\* Every variable keeps its type.
THEOREM AuditTypeCorrect == AuditSpec => []AuditTypeOK
<1>1. AuditSpec => []Typed
  BY InitTyped, TypedIsInductive, PTL DEF AuditSpec
<1>2. Typed => AuditTypeOK
  BY DEF Typed
<1> QED BY <1>1, <1>2, PTL

-----------------------------------------------------------------------------
(* The chain *)

LEMMA InitChained == AuditInit => AuditInv
<1> SUFFICES ASSUME AuditInit PROVE AuditInv
  OBVIOUS
<1>1. Typed
  BY InitTyped
<1>2. LedgerOK /\ ChainIntact
  BY DEF AuditInit, LedgerOK, ChainIntact
<1>3. ASSUME NEW a \in Appenders PROVE HolderOK(a)
  BY DEF AuditInit, HolderOK, InTransaction
<1> QED BY <1>1, <1>2, <1>3 DEF AuditInv

\* Sequence numbers are numbers.
LEMMA Numbers ==
  ASSUME AuditInv
  PROVE  /\ nextSeq \in Nat /\ seq \in [Appenders -> Nat]
         /\ \A r \in ledger : r.seq \in Nat
<1>1. nextSeq \in 1..(MaxInserts + 1) /\ seq \in [Appenders -> Nat] /\ ledger \subseteq Entry
  BY DEF AuditInv, Typed, AuditTypeOK
<1>2. nextSeq \in Nat
  BY <1>1, Constants
<1> QED BY <1>1, <1>2 DEF Entry

\* A step that draws a number, or nothing, leaves the ledger sound.
LEMMA LedgerFixed ==
  ASSUME AuditInv, ledger' = ledger, nextSeq' \in {nextSeq, nextSeq + 1}
  PROVE  LedgerOK' /\ ChainIntact'
<1>1. nextSeq \in Nat /\ \A r \in ledger : r.seq \in Nat
  BY Numbers
<1>2. \A r \in ledger' : r.seq < nextSeq'
  BY <1>1 DEF AuditInv, LedgerOK
<1>3. LedgerOK'
  BY <1>2 DEF AuditInv, LedgerOK, IsLast
<1>4. ChainIntact'
  BY DEF AuditInv, ChainIntact, Precedes
<1> QED BY <1>3, <1>4

\* What the holder of the lock knows outlives the steps of the others.
LEMMA OthersHold ==
  ASSUME AuditInv, NEW a, NEW b \in Appenders, b # a,
         ledger' = ledger, nextSeq' \in {nextSeq, nextSeq + 1},
         position'[b] = position[b], prev'[b] = prev[b], seq'[b] = seq[b],
         lock' = lock \/ lock \in {a, Nobody}
  PROVE  HolderOK(b)'
<1>1. HolderOK(b) /\ b # Nobody
  BY Constants DEF AuditInv
<1>2. position'[b] \in InTransaction => lock' = b
  BY <1>1 DEF HolderOK
<1>3. position'[b] \in {"insert", "commit"} => IsLastHash(prev[b])'
  BY <1>1 DEF HolderOK, IsLastHash, IsLast
<1>4. ASSUME position'[b] = "commit" PROVE seq'[b] < nextSeq' /\ \A r \in ledger' : r.seq < seq'[b]
  <2>1. seq[b] < nextSeq /\ \A r \in ledger : r.seq < seq[b]
    BY <1>1, <1>4 DEF HolderOK
  <2>2. nextSeq \in Nat /\ seq[b] \in Nat
    BY Numbers
  <2> QED BY <2>1, <2>2
<1> QED BY <1>2, <1>3, <1>4 DEF HolderOK

\* A step that leaves a outside of the transaction of append.
LEMMA OutsideHolds ==
  ASSUME AuditInv, NEW a \in Appenders, position'[a] \notin InTransaction,
         \A b \in Appenders : b # a => position'[b] = position[b],
         lock' = lock \/ Unlock(a),
         UNCHANGED <<prev, seq, ledger, nextSeq>>
  PROVE  \A b \in Appenders : HolderOK(b)'
<1>1. lock' = lock \/ lock \in {a, Nobody}
  BY DEF Unlock
<1>2. ASSUME NEW b \in Appenders, b # a PROVE HolderOK(b)'
  BY <1>1, <1>2, OthersHold
<1>3. HolderOK(a)'
  BY DEF HolderOK, InTransaction
<1> QED BY <1>2, <1>3

LEMMA BusinessChained ==
  ASSUME AuditInv, NEW e \in Staged, Stage(e) \/ EndTransaction(e)
  PROVE  AuditInv'
<1>1. UNCHANGED <<position, lock, prev, seq, ledger, nextSeq>>
  BY DEF Stage, EndTransaction, appender
<1>2. Typed'
  BY BusinessTyped DEF AuditInv
<1>3. LedgerOK' /\ ChainIntact'
  BY <1>1, LedgerFixed
<1>4. ASSUME NEW b \in Appenders PROVE HolderOK(b)'
  BY <1>1, <1>4 DEF AuditInv, HolderOK, IsLastHash, IsLast
<1> QED BY <1>2, <1>3, <1>4 DEF AuditInv

\* The steps of publish_pending, and whatever lets go of the lock but Commit.
LEMMA OutsideChained ==
  ASSUME AuditInv, NEW a \in Appenders,
         \/ a \in Direct /\ AppendDirect(a)
         \/ AppendFails(a)
         \/ a \in Publishers /\ (PublishStep(a) \/ BatchFails(a))
  PROVE  AuditInv'
<1>1. Typed'
  BY BeginTyped, AppendFailsTyped, SelectTyped, AppendNextTyped, BatchEndsTyped DEF AuditInv,
     PublishStep
<1>2. UNCHANGED <<prev, seq, ledger, nextSeq>> /\ (lock' = lock \/ Unlock(a))
  BY DEF AppendDirect, AppendFails, PublishStep, BatchFails, SelectPending, AppendNext, CommitBatch
<1>3. \E q \in AuditPoints \ InTransaction : position' = [position EXCEPT ![a] = q]
  BY DEF AppendDirect, AppendFails, PublishStep, BatchFails, SelectPending, AppendNext, CommitBatch,
         EndBatch, Ends, AppenderGoto, AuditPoints, InTransaction
<1>4. position'[a] \notin InTransaction /\ \A b \in Appenders : b # a => position'[b] = position[b]
  BY <1>3 DEF AuditInv, Typed, AuditTypeOK
<1>5. LedgerOK' /\ ChainIntact'
  BY <1>2, LedgerFixed
<1>6. \A b \in Appenders : HolderOK(b)'
  BY <1>2, <1>4, OutsideHolds
<1> QED BY <1>1, <1>5, <1>6 DEF AuditInv

LEMMA LockChained ==
  ASSUME AuditInv, NEW a \in Appenders, Lock(a)
  PROVE  AuditInv'
<1>1. UNCHANGED <<prev, seq, ledger, nextSeq>> /\ lock = Nobody /\ lock' = a
  BY DEF Lock
<1>2. position'[a] = "read" /\ \A b \in Appenders : b # a => position'[b] = position[b]
  BY DEF Lock, AppenderGoto, AuditInv, Typed, AuditTypeOK
<1>3. Typed' /\ LedgerOK' /\ ChainIntact'
  BY <1>1, BeginTyped, LedgerFixed DEF AuditInv
<1>4. ASSUME NEW b \in Appenders, b # a PROVE HolderOK(b)'
  BY <1>1, <1>2, <1>4, OthersHold
<1>5. HolderOK(a)'
  BY <1>1, <1>2 DEF HolderOK
<1> QED BY <1>3, <1>4, <1>5 DEF AuditInv

LEMMA ReadChained ==
  ASSUME AuditInv, NEW a \in Appenders, Read(a)
  PROVE  AuditInv'
<1>1. UNCHANGED <<seq, ledger, nextSeq>> /\ position[a] = "read" /\ lock = a
  BY DEF Read, AuditInv, HolderOK, InTransaction
<1>2. Typed' /\ LedgerOK' /\ ChainIntact'
  BY <1>1, ReadTyped, LedgerFixed DEF AuditInv
<1>3. CASE Recorded(event[a])
  <2>1. Unlock(a) /\ prev' = prev /\ \E q \in {"publishing", "written"} : AppenderGoto(a, q)
    BY <1>3 DEF Read, Ends
  <2>2. position'[a] \notin InTransaction /\ \A b \in Appenders : b # a => position'[b] = position[b]
    BY <2>1 DEF AppenderGoto, InTransaction, AuditInv, Typed, AuditTypeOK
  <2> QED BY <1>1, <1>2, <2>1, <2>2, OutsideHolds DEF AuditInv
<1>4. CASE ~ Recorded(event[a])
  <2>1. lock' = lock /\ AppenderGoto(a, "insert")
    BY <1>4 DEF Read
  <2>2. PICK h \in Events \cup {Genesis} : IsLastHash(h) /\ prev' = [prev EXCEPT ![a] = h]
    BY <1>4 DEF Read, ReadsLast
  <2>3. /\ position'[a] = "insert" /\ prev'[a] = h
        /\ \A b \in Appenders : b # a => position'[b] = position[b] /\ prev'[b] = prev[b]
    BY <2>1, <2>2 DEF AppenderGoto, AuditInv, Typed, AuditTypeOK
  <2>4. ASSUME NEW b \in Appenders, b # a PROVE HolderOK(b)'
    BY <1>1, <2>1, <2>3, <2>4, OthersHold
  <2>5. HolderOK(a)'
    BY <1>1, <2>1, <2>2, <2>3 DEF HolderOK, IsLastHash, IsLast
  <2> QED BY <1>2, <2>4, <2>5 DEF AuditInv
<1> QED BY <1>3, <1>4

LEMMA InsertChained ==
  ASSUME AuditInv, NEW a \in Appenders, Insert(a)
  PROVE  AuditInv'
<1>1. /\ UNCHANGED <<lock, prev, ledger>> /\ nextSeq' = nextSeq + 1
      /\ lock = a /\ IsLastHash(prev[a])
  BY DEF Insert, AuditInv, HolderOK, InTransaction
<1>2. /\ position'[a] = "commit" /\ seq'[a] = nextSeq
      /\ \A b \in Appenders : b # a => position'[b] = position[b] /\ seq'[b] = seq[b]
  BY DEF Insert, AppenderGoto, AuditInv, Typed, AuditTypeOK
<1>3. Typed' /\ LedgerOK' /\ ChainIntact'
  BY <1>1, BeginTyped, LedgerFixed DEF AuditInv
<1>4. ASSUME NEW b \in Appenders, b # a PROVE HolderOK(b)'
  BY <1>1, <1>2, <1>4, OthersHold
<1>5. HolderOK(a)'
  <2>1. nextSeq \in Nat /\ \A r \in ledger : r.seq < nextSeq
    BY Numbers DEF AuditInv, LedgerOK
  <2>2. seq'[a] < nextSeq' /\ \A r \in ledger' : r.seq < seq'[a]
    BY <1>1, <1>2, <2>1
  <2>3. IsLastHash(prev[a])'
    BY <1>1 DEF IsLastHash, IsLast
  <2> QED BY <1>1, <1>2, <2>2, <2>3 DEF HolderOK
<1> QED BY <1>3, <1>4, <1>5 DEF AuditInv

\* A row chained to the last one, with a number above it, is the next link.
LEMMA NextLink ==
  ASSUME AuditInv, NEW n \in Entry, IsLastHash(n.prev), \A r \in ledger : r.seq < n.seq,
         n.seq < nextSeq, nextSeq' = nextSeq, ledger' = ledger \cup {n}
  PROVE  LedgerOK' /\ ChainIntact'
<1>1. /\ nextSeq \in Nat /\ n.seq \in Nat
      /\ \A r \in ledger : r.seq \in Nat
  BY Numbers DEF Entry
<1>2. \A r \in ledger' : r.seq <= n.seq /\ (r = n \/ r \in ledger)
  BY <1>1
<1>3. LedgerOK'
  <2>1. \A r \in ledger' : r.seq < nextSeq'
    BY DEF AuditInv, LedgerOK
  <2>2. \A r, s \in ledger' : r.seq = s.seq => r = s
    BY <1>1, <1>2 DEF AuditInv, LedgerOK
  <2>3. \E r \in ledger' : IsLast(r)'
    BY <1>2 DEF IsLast
  <2> QED BY <2>1, <2>2, <2>3 DEF LedgerOK
<1>4. ASSUME NEW s \in ledger', ~ \E r \in ledger' : r.seq < s.seq PROVE s.prev = Genesis
  <2>1. CASE s = n
    <3>1. ledger = {}
      BY <1>4, <2>1
    <3> QED BY <2>1, <3>1 DEF IsLastHash
  <2>2. CASE s # n
    BY <1>4, <2>2 DEF AuditInv, ChainIntact
  <2> QED BY <2>1, <2>2
<1>5. ASSUME NEW s \in ledger', NEW r \in ledger', Precedes(r, s)' PROVE s.prev = r.id
  <2>1. r.seq < s.seq /\ \A q \in ledger' : q.seq <= r.seq \/ s.seq <= q.seq
    BY <1>5 DEF Precedes
  <2>2. r \in ledger
    BY <1>1, <1>2, <2>1
  <2>3. CASE s = n
    <3>1. PICK l \in ledger : IsLast(l) /\ n.prev = l.id
      BY <2>2 DEF IsLastHash
    <3>2. l.seq <= r.seq /\ r.seq <= l.seq
      BY <1>1, <2>1, <2>2, <2>3, <3>1 DEF IsLast
    <3>3. l = r
      BY <1>1, <2>2, <3>2 DEF AuditInv, LedgerOK
    <3> QED BY <2>3, <3>1, <3>3
  <2>4. CASE s # n
    <3>1. s \in ledger /\ Precedes(r, s)
      BY <2>1, <2>4 DEF Precedes
    <3> QED BY <2>1, <2>2, <3>1 DEF AuditInv, ChainIntact
  <2> QED BY <2>3, <2>4
<1>6. ChainIntact'
  BY <1>4, <1>5 DEF ChainIntact, Precedes
<1> QED BY <1>3, <1>6

LEMMA CommitChained ==
  ASSUME AuditInv, NEW a \in Appenders, Commit(a)
  PROVE  AuditInv'
<1> DEFINE n == [seq |-> seq[a], id |-> event[a], prev |-> prev[a]]
<1>1. /\ UNCHANGED <<prev, seq, nextSeq>> /\ Unlock(a) /\ lock = a /\ position[a] = "commit"
      /\ IsLastHash(prev[a]) /\ seq[a] < nextSeq /\ \A r \in ledger : r.seq < seq[a]
  BY DEF Commit, AuditInv, HolderOK, InTransaction
<1>2. Typed'
  BY CommitTyped DEF AuditInv
<1>3. LedgerOK' /\ ChainIntact'
  <2>1. CASE Recorded(event[a])
    BY <1>1, <2>1, LedgerFixed DEF Commit
  <2>2. CASE ~ Recorded(event[a])
    <3>1. event[a] \in Events
      BY <1>1, EventIsOne DEF AuditInv, InTransaction
    <3>2. n \in Entry
      BY <3>1 DEF AuditInv, Typed, AuditTypeOK, Entry
    <3>3. ledger' = ledger \cup {n}
      BY <2>2 DEF Commit
    <3>4. n.seq = seq[a] /\ n.prev = prev[a]
      OBVIOUS
    <3> HIDE DEF n
    <3> QED BY <1>1, <3>2, <3>3, <3>4, NextLink
  <2> QED BY <2>1, <2>2
<1>4. \E q \in AuditPoints \ InTransaction : AppenderGoto(a, q)
  BY DEF Commit, Ends, AuditPoints, InTransaction
<1>5. position'[a] \notin InTransaction /\ \A b \in Appenders : b # a => position'[b] = position[b]
  BY <1>4 DEF AppenderGoto, AuditInv, Typed, AuditTypeOK
<1>6. ASSUME NEW b \in Appenders PROVE HolderOK(b)'
  <2>1. CASE b = a
    BY <1>5, <2>1 DEF HolderOK, InTransaction
  <2>2. CASE b # a
    <3>1. position[b] \notin InTransaction
      BY <1>1, <2>2 DEF AuditInv, HolderOK
    <3> QED BY <1>5, <2>2, <3>1 DEF HolderOK, InTransaction
  <2> QED BY <2>1, <2>2
<1> QED BY <1>2, <1>3, <1>6 DEF AuditInv

LEMMA ChainIsInductive == AuditInv /\ [AuditNext]_auditVars => AuditInv'
<1> SUFFICES ASSUME AuditInv, [AuditNext]_auditVars PROVE AuditInv'
  OBVIOUS
<1>1. CASE UNCHANGED auditVars
  <2>1. Typed'
    BY <1>1, TypedIsInductive DEF AuditInv
  <2>2. UNCHANGED <<lock, position, prev, seq, ledger, nextSeq>>
    BY <1>1 DEF auditVars, appender
  <2>3. LedgerOK' /\ ChainIntact'
    BY <2>2, LedgerFixed
  <2>4. ASSUME NEW b \in Appenders PROVE HolderOK(b)'
    BY <2>2 DEF AuditInv, HolderOK, IsLastHash, IsLast
  <2> QED BY <2>1, <2>3, <2>4 DEF AuditInv
<1>2. CASE AuditNext
  BY <1>2, BusinessChained, OutsideChained, LockChained, ReadChained, InsertChained, CommitChained
  DEF AuditNext, AppendStep, Appenders
<1> QED BY <1>1, <1>2

LEMMA AuditInvariant == AuditSpec => []AuditInv
BY InitChained, ChainIsInductive, PTL DEF AuditSpec

\* verify_integrity succeeds at any time, however many appenders race.
THEOREM ChainHolds == AuditSpec => []ChainIntact
<1>1. AuditInv => ChainIntact
  BY DEF AuditInv
<1> QED BY <1>1, AuditInvariant, PTL

\* The ledger only grows at its end: rows that were read keep their place.
THEOREM HistoryHolds == AuditSpec => HistoryIsStable
<1> DEFINE Grown == /\ ledger \subseteq ledger'
                    /\ \A s \in ledger' \ ledger : \A r \in ledger : r.seq < s.seq
<1>1. ASSUME AuditInv, [AuditNext]_auditVars PROVE [Grown]_auditVars
  <2>1. CASE ledger' = ledger
    BY <2>1
  <2>2. CASE \E a \in Appenders : Commit(a)
    <3>1. PICK a \in Appenders : Commit(a)
      BY <2>2
    <3>2. position[a] = "commit" /\ HolderOK(a)
      BY <1>1, <3>1 DEF Commit, AuditInv
    <3>3. \A r \in ledger : r.seq < seq[a]
      BY <3>2 DEF HolderOK
    <3> QED BY <3>1, <3>3 DEF Commit
  <2>3. ledger' = ledger \/ \E a \in Appenders : Commit(a)
    BY <1>1 DEF AuditNext, AppendStep, PublishStep, Stage, EndTransaction, AppendDirect, Lock, Read,
       Insert, AppendFails, SelectPending, AppendNext, CommitBatch, BatchFails, auditVars
  <2> QED BY <2>1, <2>2, <2>3
<1> QED BY <1>1, AuditInvariant, PTL DEF AuditSpec, HistoryIsStable

-----------------------------------------------------------------------------
(* The outbox and the ledger *)

\* A row that a publisher has locked is PENDING and locked by nobody else, and what
\* the publisher counts as done is in the ledger.
BatchesOK ==
  /\ \A p \in Publishers : \A e \in batch[p] : outbox[e] = "PENDING"
  /\ \A p, q \in Publishers : p # q => batch[p] \cap batch[q] = {}
  /\ \A p \in Publishers : \A e \in done[p] : Recorded(e)

OutboxInv == Typed /\ BatchesOK /\ OnlyCommittedRecorded /\ PublishedIsRecorded

LEMMA InitOutbox == AuditInit => OutboxInv
<1> SUFFICES ASSUME AuditInit PROVE OutboxInv
  OBVIOUS
<1>1. Typed
  BY InitTyped
<1>2. BatchesOK /\ OnlyCommittedRecorded
  BY DEF AuditInit, BatchesOK, OnlyCommittedRecorded
<1>3. PublishedIsRecorded
  BY DEF AuditInit, PublishedIsRecorded
<1> QED BY <1>1, <1>2, <1>3 DEF OutboxInv

\* A step that locks no further row and marks none, and after which what was done
\* is in a ledger that lost nothing and gained at most events of locked rows.
LEMMA LedgerGrows ==
  ASSUME OutboxInv, outbox' = outbox, ledger \subseteq ledger',
         \A p \in Publishers : batch'[p] \subseteq batch[p],
         \A p \in Publishers : \A e \in done'[p] : e \in done[p] \/ Recorded(e)',
         \A r \in ledger' \ ledger : r.id \in Staged => \E p \in Publishers : r.id \in batch[p]
  PROVE  BatchesOK' /\ OnlyCommittedRecorded' /\ PublishedIsRecorded'
<1>1. \A e : Recorded(e) => Recorded(e)'
  BY DEF Recorded
<1>2. BatchesOK'
  <2>1. \A p \in Publishers : \A e \in batch'[p] : outbox'[e] = "PENDING"
    BY DEF OutboxInv, BatchesOK
  <2>2. \A p, q \in Publishers : p # q => batch'[p] \cap batch'[q] = {}
    BY DEF OutboxInv, BatchesOK
  <2>3. \A p \in Publishers : \A e \in done'[p] : Recorded(e)'
    BY <1>1 DEF OutboxInv, BatchesOK
  <2> QED BY <2>1, <2>2, <2>3 DEF BatchesOK, Recorded
<1>3. OnlyCommittedRecorded'
  BY DEF OutboxInv, BatchesOK, OnlyCommittedRecorded
<1>4. PublishedIsRecorded'
  BY <1>1 DEF OutboxInv, PublishedIsRecorded
<1> QED BY <1>2, <1>3, <1>4

\* A business transaction writes its own row only, which nobody has locked or
\* appended before it is PENDING.
LEMMA BusinessOutbox ==
  ASSUME OutboxInv, NEW e \in Staged, Stage(e) \/ EndTransaction(e)
  PROVE  OutboxInv'
<1>1. UNCHANGED <<batch, done, ledger>>
  BY DEF Stage, EndTransaction, publisher
<1>2. /\ outbox[e] \in {"none", "open"} /\ outbox'[e] # "PUBLISHED"
      /\ \A f \in Staged : f # e => outbox'[f] = outbox[f]
  BY DEF Stage, EndTransaction, OutboxInv, Typed, AuditTypeOK
<1>3. batch \in [Publishers -> SUBSET Staged]
  BY DEF OutboxInv, Typed, AuditTypeOK
<1>4. \A p \in Publishers : \A f \in batch[p] : f # e /\ f \in Staged
  BY <1>2, <1>3 DEF OutboxInv, BatchesOK
<1>5. BatchesOK'
  <2>1. \A p \in Publishers : \A f \in batch'[p] : outbox'[f] = "PENDING"
    BY <1>1, <1>2, <1>4 DEF OutboxInv, BatchesOK
  <2> QED BY <2>1, <1>1 DEF OutboxInv, BatchesOK, Recorded
<1>6. OnlyCommittedRecorded'
  BY <1>1, <1>2 DEF OutboxInv, OnlyCommittedRecorded
<1>7. PublishedIsRecorded'
  BY <1>1, <1>2 DEF OutboxInv, PublishedIsRecorded, Recorded
<1>8. Typed'
  BY BusinessTyped DEF OutboxInv
<1> QED BY <1>5, <1>6, <1>7, <1>8 DEF OutboxInv

\* What a publisher counts as done after an append is what it counted before, and
\* the event it appended if that went well.
LEMMA DoneGrows ==
  ASSUME OutboxInv, NEW a \in Appenders, NEW ok \in BOOLEAN, Ends(a, ok)
  PROVE  /\ batch' = batch
         /\ \A p \in Publishers : \A e \in done'[p] : e \in done[p] \/ (ok /\ e = event[a])
<1>1. batch' = batch
  BY DEF Ends, publisher
<1>2. CASE a \in Publishers /\ ok
  <2>1. done' = [done EXCEPT ![a] = @ \cup {event[a]}]
    BY <1>2 DEF Ends
  <2>2. done \in [Publishers -> SUBSET Staged]
    BY DEF OutboxInv, Typed, AuditTypeOK
  <2>3. \A p \in Publishers : done'[p] = IF p = a THEN done[a] \cup {event[a]} ELSE done[p]
    BY <2>1, <2>2
  <2> QED BY <1>1, <1>2, <2>3
<1>3. CASE ~ (a \in Publishers /\ ok)
  BY <1>1, <1>3 DEF Ends, publisher
<1> QED BY <1>2, <1>3

\* The steps of append.
LEMMA AppendOutbox ==
  ASSUME OutboxInv, NEW a \in Appenders, AppendStep(a) \/ AppendFails(a)
  PROVE  OutboxInv'
<1>1. Typed'
  BY BeginTyped, ReadTyped, CommitTyped, AppendFailsTyped DEF OutboxInv, AppendStep
<1>2. outbox' = outbox
  BY DEF AppendStep, AppendFails, Lock, Read, Insert, Commit
<1>3. CASE Lock(a) \/ Insert(a) \/ (Read(a) /\ ~ Recorded(event[a]))
  <2>1. UNCHANGED <<batch, done, ledger>>
    BY <1>3 DEF Lock, Insert, Read, publisher
  <2> QED BY <1>1, <1>2, <2>1, LedgerGrows DEF OutboxInv
<1>4. CASE Read(a) /\ Recorded(event[a])
  <2>1. ledger' = ledger /\ Ends(a, TRUE)
    BY <1>4 DEF Read
  <2>2. Recorded(event[a])'
    BY <1>4, <2>1 DEF Recorded, Read
  <2>3. /\ batch' = batch
        /\ \A p \in Publishers : \A e \in done'[p] : e \in done[p] \/ e = event[a]
    BY <2>1, DoneGrows
  <2>4. event' = event
    BY <1>4 DEF Read
  <2>5. \A p \in Publishers : \A e \in done'[p] : e \in done[p] \/ Recorded(e)'
    BY <2>2, <2>3, <2>4
  <2> QED BY <1>1, <1>2, <2>1, <2>3, <2>5, LedgerGrows DEF OutboxInv
<1>5. CASE AppendFails(a)
  <2>1. ledger' = ledger /\ Ends(a, FALSE)
    BY <1>5 DEF AppendFails
  <2>2. /\ batch' = batch
        /\ \A p \in Publishers : \A e \in done'[p] : e \in done[p]
    BY <2>1, DoneGrows
  <2> QED BY <1>1, <1>2, <2>1, <2>2, LedgerGrows DEF OutboxInv
<1>6. CASE Commit(a)
  <2>1. /\ position[a] = "commit" /\ event' = event /\ Ends(a, ~ Recorded(event[a]))
        /\ ledger \subseteq ledger' /\ \A r \in ledger' \ ledger : r.id = event[a]
    BY <1>6 DEF Commit
  <2>2. Recorded(event[a])'
    BY <1>6, <2>1 DEF Commit, Recorded
  <2>3. event[a] \in Staged => \E p \in Publishers : event[a] \in batch[p]
    <3>1. CASE a \in Publishers
      BY <2>1, <3>1 DEF OutboxInv, Typed, EventOK, InTransaction
    <3>2. CASE a \in Direct
      BY <3>2, AuditAssumption DEF OutboxInv, Typed, EventOK
    <3> QED BY <3>1, <3>2 DEF Appenders
  <2>4. (~ Recorded(event[a])) \in BOOLEAN
    BY DEF Recorded
  <2>5. /\ batch' = batch
        /\ \A p \in Publishers : \A e \in done'[p] : e \in done[p] \/ e = event[a]
    BY <2>1, <2>4, DoneGrows
  <2>6. \A p \in Publishers : \A e \in done'[p] : e \in done[p] \/ Recorded(e)'
    BY <2>1, <2>2, <2>5
  <2> QED BY <1>1, <1>2, <2>1, <2>3, <2>5, <2>6, LedgerGrows DEF OutboxInv
<1> QED BY <1>3, <1>4, <1>5, <1>6 DEF AppendStep

\* Only rows that nobody has locked are locked.
LEMMA SelectOutbox ==
  ASSUME OutboxInv, NEW p \in Publishers, SelectPending(p)
  PROVE  OutboxInv'
<1>1. UNCHANGED <<outbox, done, ledger>>
  BY DEF SelectPending
<1>2. /\ batch' = [batch EXCEPT ![p] = Oldest(Pending)]
      /\ batch \in [Publishers -> SUBSET Staged]
  BY DEF SelectPending, OutboxInv, Typed, AuditTypeOK
<1>3. \A q \in Publishers : batch'[q] = IF q = p THEN Oldest(Pending) ELSE batch[q]
  BY <1>2
<1>4. \A e \in Oldest(Pending) :
        outbox[e] = "PENDING" /\ \A q \in Publishers : e \notin batch[q]
  BY DEF Oldest, Pending, LockedRows
<1>5. BatchesOK'
  <2>1. \A q \in Publishers : \A e \in batch'[q] : outbox'[e] = "PENDING"
    BY <1>1, <1>3, <1>4 DEF OutboxInv, BatchesOK
  <2>2. \A q, r \in Publishers : q # r => batch'[q] \cap batch'[r] = {}
    BY <1>3, <1>4 DEF OutboxInv, BatchesOK
  <2> QED BY <1>1, <2>1, <2>2 DEF OutboxInv, BatchesOK, Recorded
<1>6. OnlyCommittedRecorded' /\ PublishedIsRecorded'
  BY <1>1 DEF OutboxInv, OnlyCommittedRecorded, PublishedIsRecorded, Recorded
<1>7. Typed'
  BY SelectTyped DEF OutboxInv
<1> QED BY <1>5, <1>6, <1>7 DEF OutboxInv

\* The rows of other batches stay as they are, those that are marked are recorded.
LEMMA CommitBatchOutbox ==
  ASSUME OutboxInv, NEW p \in Publishers, CommitBatch(p)
  PROVE  OutboxInv'
<1>1. /\ ledger' = ledger
      /\ outbox' = [e \in Staged |-> IF e \in done[p] THEN "PUBLISHED" ELSE outbox[e]]
      /\ batch' = [batch EXCEPT ![p] = {}] /\ done' = [done EXCEPT ![p] = {}]
  BY DEF CommitBatch, EndBatch
<1>2. /\ batch \in [Publishers -> SUBSET Staged] /\ done \in [Publishers -> SUBSET Staged]
      /\ done[p] \subseteq batch[p]
      /\ outbox \in [Staged -> {"none", "open", "rolled back", "PENDING", "PUBLISHED"}]
  BY DEF OutboxInv, Typed, AuditTypeOK
<1>3. \A q \in Publishers : /\ batch'[q] = IF q = p THEN {} ELSE batch[q]
                            /\ done'[q] = IF q = p THEN {} ELSE done[q]
  BY <1>1, <1>2
<1>4. \A e \in Staged : outbox'[e] = IF e \in done[p] THEN "PUBLISHED" ELSE outbox[e]
  BY <1>1
<1>5. BatchesOK'
  <2>1. ASSUME NEW q \in Publishers, NEW e \in batch'[q] PROVE outbox'[e] = "PENDING"
    <3>1. q # p /\ e \in batch[q] /\ e \in Staged
      BY <1>2, <1>3, <2>1
    <3>2. e \notin done[p] /\ outbox[e] = "PENDING"
      BY <1>2, <3>1 DEF OutboxInv, BatchesOK
    <3> QED BY <1>4, <3>1, <3>2
  <2>2. \A q, r \in Publishers : q # r => batch'[q] \cap batch'[r] = {}
    BY <1>3 DEF OutboxInv, BatchesOK
  <2>3. \A q \in Publishers : \A e \in done'[q] : Recorded(e)'
    BY <1>1, <1>3 DEF OutboxInv, BatchesOK, Recorded
  <2> QED BY <2>1, <2>2, <2>3 DEF BatchesOK
<1>6. OnlyCommittedRecorded'
  BY <1>1, <1>4 DEF OutboxInv, OnlyCommittedRecorded
<1>7. PublishedIsRecorded'
  <2>1. ASSUME NEW e \in Staged, outbox'[e] = "PUBLISHED" PROVE Recorded(e)
    BY <1>4, <2>1 DEF OutboxInv, BatchesOK, PublishedIsRecorded
  <2> QED BY <1>1, <2>1 DEF PublishedIsRecorded, Recorded
<1>8. Typed'
  BY BatchEndsTyped DEF OutboxInv
<1> QED BY <1>5, <1>6, <1>7, <1>8 DEF OutboxInv

\* The other steps of publish_pending, and the start of a direct append.
LEMMA OtherOutbox ==
  ASSUME OutboxInv, NEW a \in Appenders,
         \/ a \in Direct /\ AppendDirect(a)
         \/ a \in Publishers /\ (AppendNext(a) \/ BatchFails(a))
  PROVE  OutboxInv'
<1>1. UNCHANGED <<outbox, ledger>>
  BY DEF AppendDirect, AppendNext, BatchFails
<1>2. \A p \in Publishers : batch'[p] \subseteq batch[p] /\ done'[p] \subseteq done[p]
  <2>1. CASE UNCHANGED <<batch, done>>
    BY <2>1
  <2>2. CASE a \in Publishers /\ BatchFails(a)
    <3>1. batch' = [batch EXCEPT ![a] = {}] /\ done' = [done EXCEPT ![a] = {}]
      BY <2>2 DEF BatchFails, EndBatch
    <3>2. batch \in [Publishers -> SUBSET Staged] /\ done \in [Publishers -> SUBSET Staged]
      BY DEF OutboxInv, Typed, AuditTypeOK
    <3> QED BY <3>1, <3>2
  <2> QED BY <2>1, <2>2 DEF AppendDirect, AppendNext, publisher
<1>3. Typed'
  BY BeginTyped, AppendNextTyped, BatchEndsTyped DEF OutboxInv
<1> QED BY <1>1, <1>2, <1>3, LedgerGrows DEF OutboxInv

LEMMA OutboxIsInductive == OutboxInv /\ [AuditNext]_auditVars => OutboxInv'
<1> SUFFICES ASSUME OutboxInv, [AuditNext]_auditVars PROVE OutboxInv'
  OBVIOUS
<1>1. CASE UNCHANGED auditVars
  <2>1. UNCHANGED <<outbox, batch, done, ledger>>
    BY <1>1 DEF auditVars
  <2>2. Typed'
    BY TypedIsInductive DEF OutboxInv
  <2> QED BY <2>1, <2>2, LedgerGrows DEF OutboxInv
<1>2. CASE AuditNext
  BY <1>2, BusinessOutbox, AppendOutbox, SelectOutbox, CommitBatchOutbox, OtherOutbox
  DEF AuditNext, PublishStep, Appenders
<1> QED BY <1>1, <1>2

LEMMA OutboxHolds == AuditSpec => []OutboxInv
BY InitOutbox, OutboxIsInductive, PTL DEF AuditSpec

\* The ledger never tells of a transaction that did not commit.
THEOREM RecordedIsCommitted == AuditSpec => []OnlyCommittedRecorded
<1>1. OutboxInv => OnlyCommittedRecorded
  BY DEF OutboxInv
<1> QED BY <1>1, OutboxHolds, PTL

\* No event is lost by its row being marked: whatever will not be published again
\* is in the ledger, whoever died in between.
THEOREM MarkedIsRecorded == AuditSpec => []PublishedIsRecorded
<1>1. OutboxInv => PublishedIsRecorded
  BY DEF OutboxInv
<1> QED BY <1>1, OutboxHolds, PTL

-----------------------------------------------------------------------------
(* The queue and the audit trail together *)

\* Every variable of the queue and of the audit trail keeps its type.
THEOREM RecordsTypeCorrect == RecordsSpec => []RecordsTypeOK
<1>1. RecordsInit => IInv /\ Typed
  BY InitEstablishes, InitTyped DEF RecordsInit
<1>2. IInv /\ Typed /\ [RecordsNext]_<<part, vars, auditVars>> => IInv' /\ Typed'
  <2>1. [RecordsNext]_<<part, vars, auditVars>> => [Next]_vars /\ [AuditNext]_auditVars
    BY DEF RecordsNext
  <2> QED BY <2>1, NextKeeps, TypedIsInductive
<1>3. IInv /\ Typed => RecordsTypeOK
  BY IInvImplies DEF Typed, RecordsTypeOK
<1> QED BY <1>1, <1>2, <1>3, PTL DEF RecordsSpec
=============================================================================
