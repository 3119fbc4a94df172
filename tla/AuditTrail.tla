------------------------------ MODULE AuditTrail ------------------------------
(***************************************************************************)
(* The audit trail: the outbox in which a business transaction stages its  *)
(* event (PostgreSQLTransactionalAudit.stage), publish_pending, called by  *)
(* the services after their commits, and the ledger audit_events, to which *)
(* publishers and AuditService.append add one hash-chained row at a time   *)
(* under an advisory lock (PostgreSQLAuditRepository.append).              *)
(*                                                                         *)
(* A publisher holds the rows of its batch locked in one transaction while *)
(* every event is appended in a transaction of its own: an event can be in *)
(* the ledger long before, or without, its outbox row being PUBLISHED.     *)
(*                                                                         *)
(* Event identifiers are unique, so an event stands for its hash: prev is  *)
(* the event whose hash a row was chained to.                              *)
(***************************************************************************)
EXTENDS Naturals, FiniteSets

CONSTANTS
  Staged,       \* events that go through the outbox, numbered as they are staged
  Direct,       \* events that AuditService.append writes
  Publishers,   \* calls of publish_pending that may overlap
  Limit,        \* publish_pending(limit)
  Nobody, Genesis,
  MaxInserts,   \* bound: INSERTs into audit_events
  MaxFailures   \* bound: transactions of publishers and appenders that fail

Events    == Staged \cup Direct
Appenders == Publishers \cup Direct

ASSUME AuditAssumption ==
  /\ Staged \subseteq Nat /\ Staged \cap Direct = {}
  /\ Publishers \cap Direct = {}
  /\ Nobody \notin Appenders /\ Genesis \notin Events
  /\ Limit \in Nat \ {0} /\ MaxInserts \in Nat /\ MaxFailures \in Nat

VARIABLES
  outbox,    \* audit_outbox: the status of each event's row, "open" before commit
  batch,     \* the rows a publisher has locked
  done,      \* the events of its batch that it appended, and
  gaveUp,    \*   those it could not
  lock,      \* who holds the advisory lock
  position,        \* where an appender is in append
  event,     \* the event it appends
  prev,      \* the hash it read as the last one
  seq,       \* the sequence_no its INSERT got
  ledger,    \* audit_events
  nextSeq,
  failures

publisher == <<batch, done, gaveUp>>
appender  == <<position, event, prev, seq>>
auditVars == <<outbox, batch, done, gaveUp, lock, position, event, prev, seq, ledger, nextSeq,
               failures>>

AuditPoints == {"idle", "publishing", "lock", "read", "insert", "commit", "written", "refused"}

Entry == [seq : Nat, id : Events, prev : Events \cup {Genesis}]

AuditInit ==
  /\ outbox = [e \in Staged |-> "none"]
  /\ batch = [p \in Publishers |-> {}]
  /\ done = [p \in Publishers |-> {}] /\ gaveUp = [p \in Publishers |-> {}]
  /\ lock = Nobody
  /\ position = [a \in Appenders |-> "idle"]
  /\ event = [a \in Appenders |-> IF a \in Direct THEN a ELSE Genesis]
  /\ prev = [a \in Appenders |-> Genesis] /\ seq = [a \in Appenders |-> 0]
  /\ ledger = {} /\ nextSeq = 1 /\ failures = 0

-----------------------------------------------------------------------------
(* The business transactions *)

Stage(e) ==
  /\ outbox[e] = "none" /\ \A f \in Staged : f < e => outbox[f] # "none"
  /\ outbox' = [outbox EXCEPT ![e] = "open"]
  /\ UNCHANGED <<publisher, lock, appender, ledger, nextSeq, failures>>

EndTransaction(e) ==
  /\ outbox[e] = "open"
  /\ outbox' \in {[outbox EXCEPT ![e] = "PENDING"], [outbox EXCEPT ![e] = "rolled back"]}
  /\ UNCHANGED <<publisher, lock, appender, ledger, nextSeq, failures>>

-----------------------------------------------------------------------------
(* PostgreSQLAuditRepository.append *)

AppenderGoto(a, p) == position' = [position EXCEPT ![a] = p]

\* Mutant: append takes no lock.
Lock_Shared(a) ==
  /\ position[a] = "lock"
  /\ AppenderGoto(a, "read")
  /\ UNCHANGED <<outbox, publisher, lock, event, prev, seq, ledger, nextSeq, failures>>

Lock(a) ==
  /\ position[a] = "lock" /\ lock = Nobody
  /\ lock' = a
  /\ AppenderGoto(a, "read")
  /\ UNCHANGED <<outbox, publisher, event, prev, seq, ledger, nextSeq, failures>>

Recorded(e) == \E r \in ledger : r.id = e

IsLast(r) == \A s \in ledger : s.seq <= r.seq

IsLastHash(h) ==
  \/ ledger = {} /\ h = Genesis
  \/ \E r \in ledger : IsLast(r) /\ h = r.id

ReadsLast(a) ==
  \E h \in Events \cup {Genesis} : IsLastHash(h) /\ prev' = [prev EXCEPT ![a] = h]

\* Mutant: a session-level lock, which the end of a transaction does not release.
Unlock_Never(a) == lock' = lock

Unlock(a) == lock' = IF lock = a THEN Nobody ELSE lock

\* How an append ends for its caller.
Ends(a, ok) ==
  IF a \in Publishers
  THEN /\ AppenderGoto(a, "publishing")
       /\ done' = IF ok THEN [done EXCEPT ![a] = @ \cup {event[a]}] ELSE done
       /\ gaveUp' = IF ok THEN gaveUp ELSE [gaveUp EXCEPT ![a] = @ \cup {event[a]}]
       /\ UNCHANGED batch
  ELSE AppenderGoto(a, IF ok THEN "written" ELSE "refused") /\ UNCHANGED publisher

\* An event that is in the ledger already is not added again.
Read(a) ==
  /\ position[a] = "read"
  /\ \/ /\ Recorded(event[a])
        /\ Unlock(a) /\ Ends(a, TRUE)
        /\ UNCHANGED prev
     \/ /\ ~ Recorded(event[a])
        /\ ReadsLast(a)
        /\ AppenderGoto(a, "insert")
        /\ UNCHANGED <<lock, publisher>>
  /\ UNCHANGED <<outbox, event, seq, ledger, nextSeq, failures>>

\* The sequence is not transactional: its number is gone even if the row is not
\* committed.
Insert(a) ==
  /\ position[a] = "insert" /\ nextSeq <= MaxInserts
  /\ seq' = [seq EXCEPT ![a] = nextSeq]
  /\ nextSeq' = nextSeq + 1
  /\ AppenderGoto(a, "commit")
  /\ UNCHANGED <<outbox, publisher, lock, event, prev, ledger, failures>>

\* event_id is unique.
Commit(a) ==
  /\ position[a] = "commit"
  /\ ledger' = IF Recorded(event[a]) THEN ledger
               ELSE ledger \cup {[seq |-> seq[a], id |-> event[a], prev |-> prev[a]]}
  /\ Unlock(a) /\ Ends(a, ~ Recorded(event[a]))
  /\ UNCHANGED <<outbox, event, prev, seq, nextSeq, failures>>

AppendFails(a) ==
  /\ position[a] \in {"lock", "read", "insert", "commit"} /\ failures < MaxFailures
  /\ failures' = failures + 1
  /\ Unlock(a) /\ Ends(a, FALSE)
  /\ UNCHANGED <<outbox, event, prev, seq, ledger, nextSeq>>

\* AuditService.append in a mode that fails closed: the caller gets the error.
AppendDirect(d) ==
  /\ position[d] = "idle"
  /\ AppenderGoto(d, "lock")
  /\ UNCHANGED <<outbox, publisher, lock, event, prev, seq, ledger, nextSeq, failures>>

-----------------------------------------------------------------------------
(* PostgreSQLTransactionalAudit.publish_pending *)

LockedRows == UNION {batch[p] : p \in Publishers}

\* Mutant: rows of transactions that have not committed are visible.
Pending_Open == {e \in Staged : outbox[e] \in {"PENDING", "open"}} \ LockedRows

\* FOR UPDATE SKIP LOCKED
Pending == {e \in Staged : outbox[e] = "PENDING"} \ LockedRows

Oldest(S) == {e \in S : Cardinality({f \in S : f < e}) < Limit}

SelectPending(p) ==
  /\ position[p] = "idle" /\ Pending # {}
  /\ batch' = [batch EXCEPT ![p] = Oldest(Pending)]
  /\ AppenderGoto(p, "publishing")
  /\ UNCHANGED <<outbox, done, gaveUp, lock, event, prev, seq, ledger, nextSeq, failures>>

Left(p) == batch[p] \ (done[p] \cup gaveUp[p])

AppendNext(p) ==
  /\ position[p] = "publishing" /\ Left(p) # {}
  /\ \E e \in Left(p) : /\ \A f \in Left(p) : e <= f
                         /\ event' = [event EXCEPT ![p] = e]
  /\ AppenderGoto(p, "lock")
  /\ UNCHANGED <<outbox, publisher, lock, prev, seq, ledger, nextSeq, failures>>

EndBatch(p) ==
  /\ batch' = [batch EXCEPT ![p] = {}]
  /\ done' = [done EXCEPT ![p] = {}]
  /\ gaveUp' = [gaveUp EXCEPT ![p] = {}]
  /\ AppenderGoto(p, "idle")

\* Mutant: an event that could not be appended is marked as well.
CommitBatch_MarksAll(p) ==
  /\ position[p] = "publishing" /\ Left(p) = {}
  /\ outbox' = [e \in Staged |-> IF e \in batch[p] THEN "PUBLISHED" ELSE outbox[e]]
  /\ EndBatch(p)
  /\ UNCHANGED <<lock, event, prev, seq, ledger, nextSeq, failures>>

\* Events that could not be appended stay PENDING, for the next publisher.
CommitBatch(p) ==
  /\ position[p] = "publishing" /\ Left(p) = {}
  /\ outbox' = [e \in Staged |-> IF e \in done[p] THEN "PUBLISHED" ELSE outbox[e]]
  /\ EndBatch(p)
  /\ UNCHANGED <<lock, event, prev, seq, ledger, nextSeq, failures>>

\* The process dies, or its transaction fails: what it appended stays.
BatchFails(p) ==
  /\ position[p] # "idle" /\ failures < MaxFailures
  /\ failures' = failures + 1
  /\ Unlock(p) /\ EndBatch(p)
  /\ UNCHANGED <<outbox, event, prev, seq, ledger, nextSeq>>

-----------------------------------------------------------------------------
AppendStep(a) == Lock(a) \/ Read(a) \/ Insert(a) \/ Commit(a)

PublishStep(p) == SelectPending(p) \/ AppendNext(p) \/ CommitBatch(p)

AuditNext ==
  \/ \E e \in Staged : Stage(e) \/ EndTransaction(e)
  \/ \E d \in Direct : AppendDirect(d)
  \/ \E a \in Appenders : AppendStep(a) \/ AppendFails(a)
  \/ \E p \in Publishers : PublishStep(p) \/ BatchFails(p)

AuditSpec == AuditInit /\ [][AuditNext]_auditVars

\* Services keep calling publish_pending, and a transaction that can go on does.
AuditFairness ==
  /\ \A a \in Appenders : WF_auditVars(AppendStep(a))
  /\ \A p \in Publishers : WF_auditVars(PublishStep(p))

AuditFairSpec == AuditSpec /\ AuditFairness

-----------------------------------------------------------------------------
(* Properties *)

\* Every variable has its type, and only events of a batch have an outcome.
AuditTypeOK ==
  /\ outbox \in [Staged -> {"none", "open", "rolled back", "PENDING", "PUBLISHED"}]
  /\ batch \in [Publishers -> SUBSET Staged]
  /\ done \in [Publishers -> SUBSET Staged] /\ gaveUp \in [Publishers -> SUBSET Staged]
  /\ \A p \in Publishers : done[p] \cup gaveUp[p] \subseteq batch[p]
  /\ lock \in Appenders \cup {Nobody}
  /\ position \in [Appenders -> AuditPoints]
  /\ event \in [Appenders -> Events \cup {Genesis}]
  /\ prev \in [Appenders -> Events \cup {Genesis}] /\ seq \in [Appenders -> Nat]
  /\ ledger \subseteq Entry /\ nextSeq \in 1..(MaxInserts + 1)
  /\ failures \in 0..MaxFailures

Precedes(r, s) == r.seq < s.seq /\ \A q \in ledger : q.seq <= r.seq \/ s.seq <= q.seq

\* verify_integrity succeeds at any time: each row is chained to the row before
\* it, the first one to GENESIS_HASH, however many appenders race.
ChainIntact ==
  \A s \in ledger :
    IF \E r \in ledger : r.seq < s.seq
    THEN \A r \in ledger : Precedes(r, s) => s.prev = r.id
    ELSE s.prev = Genesis

\* The ledger tells of committed transactions only.
OnlyCommittedRecorded ==
  \A r \in ledger : r.id \in Staged => outbox[r.id] \in {"PENDING", "PUBLISHED"}

\* A row that is PUBLISHED will not be published again, so its event is there.
PublishedIsRecorded == \A e \in Staged : outbox[e] = "PUBLISHED" => Recorded(e)

\* The ledger only grows at its end: a page read up to latest_sequence_no shows
\* the same rows when it is read again.
HistoryIsStable ==
  [][ /\ ledger \subseteq ledger'
      /\ \A s \in ledger' \ ledger : \A r \in ledger : r.seq < s.seq ]_auditVars

\* Whatever a business transaction committed is published in the end, even if a
\* publisher died between appending the event and marking its row: as long as nobody
\* stages another event, the outbox drains.
CommittedIsPublished == []<>(\A e \in Staged : outbox[e] # "PENDING")
=============================================================================
