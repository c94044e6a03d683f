------------------------- MODULE BillingOutboxProofs -------------------------
(***************************************************************************)
(* Safety of the billing outbox for every set of rows and workers, every   *)
(* batch limit and every number of faults.                                 *)
(***************************************************************************)
EXTENDS BillingOutbox, TLAPS

\* Every row a pass lists is a committed row.
LEMMA ListedIsCommitted == TypeOK => Listed \subseteq outbox
BY DEF TypeOK, Listed

\* Copying a row leaves exactly one audit event for it and touches no other:
\* the unique event key of BillingAuditEvent.
LEMMA CopyIsIdempotent ==
    ASSUME audit \in [Ids -> Nat], NEW i \in Ids, audit[i] <= 1
    PROVE  /\ WithAuditEvent(audit, i) \in [Ids -> Nat]
           /\ WithAuditEvent(audit, i)[i] = 1
           /\ \A j \in Ids \ {i} : WithAuditEvent(audit, i)[j] = audit[j]
BY DEF WithAuditEvent

\* The inductive invariant holds initially.
LEMMA OutboxInvInit == Init => OutboxInv
BY FaultsAssumption DEF Init, OutboxInv, TypeOK, AuditedAtMostOnce,
    ProcessedIsAudited, CurrentIsAudited, BatchIsCommitted

\* Every step of every worker preserves the inductive invariant.
LEMMA OutboxInvNext == OutboxInv /\ [Next]_vars => OutboxInv'
<1> SUFFICES ASSUME OutboxInv, [Next]_vars PROVE OutboxInv'
    OBVIOUS
<1> USE FaultsAssumption DEF OutboxInv, TypeOK, AuditedAtMostOnce,
    ProcessedIsAudited, CurrentIsAudited, BatchIsCommitted
<1>1. ASSUME NEW i \in Ids, Enqueue(i) PROVE OutboxInv'
    BY <1>1 DEF Enqueue
<1>2. ASSUME NEW i \in Ids, BackoffEnds(i) PROVE OutboxInv'
    BY <1>2 DEF BackoffEnds
<1>3. ASSUME NEW w \in Workers, List(w) PROVE OutboxInv'
    BY <1>3, ListedIsCommitted DEF List
<1>4. ASSUME NEW w \in Workers, WriteAudit(w) PROVE OutboxInv'
    <2>1. PICK i \in batch[w] :
            /\ audit' = WithAuditEvent(audit, i)
            /\ batch' = [batch EXCEPT ![w] = @ \ {i}]
            /\ current' = [current EXCEPT ![w] = {i}]
        BY <1>4 DEF WriteAudit
    <2>2. i \in Ids /\ i \in outbox
        OBVIOUS
    <2>3. /\ audit' \in [Ids -> Nat]
          /\ audit'[i] = 1
          /\ \A j \in Ids \ {i} : audit'[j] = audit[j]
        BY <2>1, <2>2, CopyIsIdempotent
    <2> QED
        BY <1>4, <2>1, <2>2, <2>3 DEF WriteAudit
<1>5. ASSUME NEW w \in Workers, WriteAuditFails(w) PROVE OutboxInv'
    BY <1>5 DEF WriteAuditFails
<1>6. ASSUME NEW w \in Workers, MarkProcessed(w) PROVE OutboxInv'
    BY <1>6 DEF MarkProcessed
<1>7. ASSUME NEW w \in Workers, Abort(w) PROVE OutboxInv'
    BY <1>7 DEF Abort
<1>8. CASE UNCHANGED vars
    BY <1>8 DEF vars
<1> QED
    BY <1>1, <1>2, <1>3, <1>4, <1>5, <1>6, <1>7, <1>8 DEF Next

\* The inductive invariant holds in every reachable state.
THEOREM OutboxInvariant == Spec => []OutboxInv
<1>1. Init => OutboxInv
    BY OutboxInvInit
<1>2. OutboxInv /\ [Next]_vars => OutboxInv'
    BY OutboxInvNext
<1> QED
    BY <1>1, <1>2, PTL DEF Spec

\* No fault between the copy to the log database and the mark loses an audit
\* event: ProcessBillingOutboxContext marks only what it has copied.
THEOREM ProcessedEventsAreAudited == Spec => []ProcessedIsAudited
<1>1. OutboxInv => ProcessedIsAudited
    BY DEF OutboxInv
<1> QED
    BY <1>1, OutboxInvariant, PTL

\* Redelivery never duplicates an audit event.
THEOREM EventsAreAuditedAtMostOnce == Spec => []AuditedAtMostOnce
<1>1. OutboxInv => AuditedAtMostOnce
    BY DEF OutboxInv
<1> QED
    BY <1>1, OutboxInvariant, PTL
=============================================================================
