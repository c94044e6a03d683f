---------------------------- MODULE BillingOutbox ----------------------------
(***************************************************************************)
(* The transactional outbox of the billing ledger (model/billing_outbox.go *)
(* and FlushBillingOutbox in service/billing_reconciler.go).  A ledger     *)
(* transaction inserts an outbox row in the main database; workers (the    *)
(* reconciler of every replica, and the flush at shutdown) list a batch of *)
(* unprocessed rows, copy each one to the log database, which is a second  *)
(* database, and only then mark it processed in the main one.  The two     *)
(* writes are two transactions, so a crash, a cancelled context or a       *)
(* failing database may fall between them, and two workers may hold the    *)
(* same row in their batches.                                              *)
(*                                                                         *)
(* Abstractions: an outbox row is its auto-increment id; its event key is  *)
(* unique because BillingLedger never reuses a version (VersionGrows       *)
(* there), so id and key are one.  Attempts and available_at only delay a  *)
(* row, which `available' records.                                         *)
(***************************************************************************)
EXTENDS Integers, FiniteSets

CONSTANTS Ids,        \* the auto-increment ids of outbox rows
          Workers,    \* concurrent callers of ProcessBillingOutboxContext
          Limit,      \* the batch limit
          MaxFaults   \* how many faults (write errors, crashes) may happen

ASSUME IdsAssumption == Ids \subseteq Nat
ASSUME LimitAssumption == Limit \in Nat \ {0}
ASSUME FaultsAssumption == MaxFaults \in Nat

VARIABLES
    outbox,     \* committed outbox rows
    processed,  \* rows with processed_at # 0
    available,  \* rows with available_at <= now
    audit,      \* audit[i]: number of BillingAuditEvent rows for row i
    batch,      \* batch[w]: rows of the listed batch that w has not reached
    current,    \* current[w]: the row w has copied and not yet marked, or {}
    faults      \* faults so far

vars == <<outbox, processed, available, audit, batch, current, faults>>

TypeOK ==
    /\ outbox \subseteq Ids
    /\ processed \subseteq outbox
    /\ available \subseteq outbox
    /\ audit \in [Ids -> Nat]
    /\ batch \in [Workers -> SUBSET Ids]
    /\ current \in [Workers -> SUBSET Ids]
    /\ faults \in 0..MaxFaults

Init ==
    /\ outbox = {}
    /\ processed = {}
    /\ available = {}
    /\ audit = [i \in Ids |-> 0]
    /\ batch = [w \in Workers |-> {}]
    /\ current = [w \in Workers |-> {}]
    /\ faults = 0

-----------------------------------------------------------------------------
\* A query that counts processed rows against the limit.
ListedOfAll ==
    {i \in available \ processed : Cardinality({j \in available : j < i}) < Limit}

\* The query of a pass: unprocessed, available, the Limit lowest ids.
Listed ==
    LET due == available \ processed
    IN  {i \in due : Cardinality({j \in due : j < i}) < Limit}

IsLowest(i, S) == i \in S /\ \A j \in S : i <= j

\* An insertion that ignores the unique event key.
WithAuditEventAgain(a, i) == [a EXCEPT ![i] = @ + 1]

\* Insertion with OnConflict DoNothing on the unique event key.
WithAuditEvent(a, i) == [a EXCEPT ![i] = IF @ = 0 THEN 1 ELSE @]

\* enqueueBillingOutboxTx: a ledger transaction commits an outbox row.  Ids
\* are handed out before the commit, so they may appear out of order.
Enqueue(i) ==
    /\ i \notin outbox
    /\ outbox' = outbox \cup {i}
    /\ available' = available \cup {i}
    /\ UNCHANGED <<processed, audit, batch, current, faults>>

\* A worker begins a pass and lists its batch.
List(w) ==
    /\ batch[w] = {} /\ current[w] = {}
    /\ Listed # {}
    /\ batch' = [batch EXCEPT ![w] = Listed]
    /\ UNCHANGED <<outbox, processed, available, audit, current, faults>>

\* The copy to the log database commits.
WriteAudit(w) ==
    /\ current[w] = {}
    /\ \E i \in batch[w] :
        /\ IsLowest(i, batch[w])
        /\ audit' = WithAuditEvent(audit, i)
        /\ batch' = [batch EXCEPT ![w] = @ \ {i}]
        /\ current' = [current EXCEPT ![w] = {i}]
    /\ UNCHANGED <<outbox, processed, available, faults>>

\* The copy fails and the pass falls through to the mark.
WriteAuditFailsAndMarks(w) ==
    /\ faults < MaxFaults
    /\ faults' = faults + 1
    /\ current[w] = {}
    /\ \E i \in batch[w] :
        /\ IsLowest(i, batch[w])
        /\ batch' = [batch EXCEPT ![w] = @ \ {i}]
        /\ current' = [current EXCEPT ![w] = {i}]
    /\ UNCHANGED <<outbox, processed, available, audit>>

\* The copy fails: the row is put off, unless it has been processed since,
\* and the pass goes on with the next one.
WriteAuditFails(w) ==
    /\ faults < MaxFaults
    /\ faults' = faults + 1
    /\ current[w] = {}
    /\ \E i \in batch[w] :
        /\ IsLowest(i, batch[w])
        /\ batch' = [batch EXCEPT ![w] = @ \ {i}]
        /\ available' = IF i \in processed THEN available ELSE available \ {i}
    /\ UNCHANGED <<outbox, processed, audit, current>>

\* The backoff of a row that was put off ends.
BackoffEnds(i) ==
    /\ i \in outbox \ available
    /\ available' = available \cup {i}
    /\ UNCHANGED <<outbox, processed, audit, batch, current, faults>>

\* The row is marked processed; when another worker did so first the update
\* matches no row.
MarkProcessed(w) ==
    /\ current[w] # {}
    /\ processed' = processed \cup current[w]
    /\ current' = [current EXCEPT ![w] = {}]
    /\ UNCHANGED <<outbox, available, audit, batch, faults>>

\* The pass ends early: the mark fails, the context is cancelled, or the
\* process dies, wherever the worker is.
Abort(w) ==
    /\ faults < MaxFaults
    /\ faults' = faults + 1
    /\ batch[w] # {} \/ current[w] # {}
    /\ batch' = [batch EXCEPT ![w] = {}]
    /\ current' = [current EXCEPT ![w] = {}]
    /\ UNCHANGED <<outbox, processed, available, audit>>

Next ==
    \/ \E i \in Ids : Enqueue(i) \/ BackoffEnds(i)
    \/ \E w \in Workers :
        \/ List(w) \/ WriteAudit(w) \/ WriteAuditFails(w)
        \/ MarkProcessed(w) \/ Abort(w)

\* The ticker of RunBillingReconciler keeps starting passes, a pass that is
\* not cut short goes on, and backoffs end.
Fairness ==
    /\ \A w \in Workers : WF_vars(List(w) \/ WriteAudit(w) \/ MarkProcessed(w))
    /\ \A i \in Ids : WF_vars(BackoffEnds(i))

Spec == Init /\ [][Next]_vars
FairSpec == Spec /\ Fairness

-----------------------------------------------------------------------------
(* Properties *)

\* However often a row is delivered again (a crash between the copy and the
\* mark, two workers holding the same batch), the log database holds at most
\* one audit event for it.
AuditedAtMostOnce == \A i \in Ids : audit[i] <= 1

\* A row that ProcessBillingOutboxContext has marked processed has its event
\* in the log database: no crash or failed write loses an event.
ProcessedIsAudited == \A i \in processed : audit[i] = 1

\* What makes ProcessedIsAudited inductive: a row a worker is about to mark
\* has been copied, by this worker or an earlier one.
CurrentIsAudited == \A w \in Workers : \A i \in current[w] : i \in outbox /\ audit[i] = 1

\* Batches only hold committed rows.
BatchIsCommitted == \A w \in Workers : batch[w] \subseteq outbox

\* The inductive invariant of the safety proof.
OutboxInv ==
    /\ TypeOK
    /\ AuditedAtMostOnce
    /\ ProcessedIsAudited
    /\ CurrentIsAudited
    /\ BatchIsCommitted

\* Every committed event is eventually in the log database and off the
\* outbox, whatever the finitely many faults were.
Delivered == \A i \in Ids : i \in outbox ~> (i \in processed /\ audit[i] = 1)
=============================================================================
