------------------------ MODULE BillingServiceProofs ------------------------
(***************************************************************************)
(* The processes of BillingService only do what BillingLedger allows, so   *)
(* everything proved of the ledger holds of the running service; and what  *)
(* the sessions of requests, the reconcilers and the pollers do to each    *)
(* other: a reconciler takes back orphans only, the settlement of a        *)
(* synchronous request stands, and only the poller takes back the price of *)
(* an accepted task.  The proofs look at what one step of one process does *)
(* to the row of one request.                                              *)
(***************************************************************************)
EXTENDS BillingService, BillingLedgerSteps

\* A poller that failed to finish a task knows what it wanted.
PollersKnow ==
    \A r \in Requests : poll[r].pc = "finish failed" => poll[r].outcome \in Outcomes

\* The inductive invariant of the service.
ServiceInv == PartsOK /\ ServiceTypeOK /\ PollersKnow

-----------------------------------------------------------------------------
(* Every step of the service is a step of the ledger, or leaves it alone.   *)

\* A list entry names a request, a version and an intent of the right kind.
LEMMA SnapshotFields ==
    ASSUME ServiceTypeOK, NEW w \in Workers, NEW s \in worker[w].batch \cup worker[w].failed
    PROVE  s \in Snapshot /\ s.req \in Requests
  BY DEF ServiceTypeOK, Worker, Snapshot

\* The steps of a BillingSession are transactions of its request.
LEMMA SessionOnLedger ==
    ASSUME ServiceTypeOK, NEW r \in Requests, SessionStep(r)
    PROVE  RequestStep(r) \/ UNCHANGED vars
<1>0. session[r].quota \in Quota /\ session[r].chan \in Channels \cup {None}
  BY DEF ServiceTypeOK, Session
<1>1. CASE Open(r)
  BY <1>1 DEF Open, RequestStep
<1>2. CASE Extend(r)
  BY <1>2 DEF Extend, RequestStep
<1>3. CASE Prepare(r)
  BY <1>3 DEF Prepare, Answered, RequestStep
<1>4. ASSUME NEW q \in Quota, NEW c \in Channels \cup {None}, SessionSettle(r, q, c)
      PROVE  RequestStep(r) \/ UNCHANGED vars
  BY <1>4 DEF SessionSettle, Answered, RequestStep
<1>5. ASSUME NEW q \in Quota, AcknowledgeTask(r, q)
      PROVE  RequestStep(r) \/ UNCHANGED vars
  BY <1>5 DEF AcknowledgeTask, Answered, RequestStep
<1>6. CASE SettleTask(r)
  <2>1. Settle(r, session[r].quota, None) \/ UNCHANGED vars
    BY <1>6 DEF SettleTask, Answered
  <2> QED
    BY <1>0, <2>1 DEF RequestStep
<1>7. ASSUME NEW q \in Quota, NEW st \in Reported, SettleMidjourney(r, q, st)
      PROVE  RequestStep(r) \/ UNCHANGED vars
  BY <1>7 DEF SettleMidjourney, Answered, RequestStep, Reported, TaskStatuses
<1>8. CASE MarkSettle(r)
  <2>1. \/ MarkForReconcile(r, "settled", session[r].quota, session[r].chan)
        \/ UNCHANGED vars
    BY <1>8 DEF MarkSettle
  <2> QED
    BY <1>0, <2>1 DEF RequestStep, Outcomes
<1>9. CASE SessionRefund(r)
  BY <1>9 DEF SessionRefund, Answered, RequestStep
<1>10. CASE MarkRefund(r)
  <2>1. MarkForReconcile(r, "refunded", 0, None) \/ UNCHANGED vars
    BY <1>10 DEF MarkRefund
  <2>2. 0 \in Quota
    BY Bounds DEF Quota
  <2> QED
    BY <2>1, <2>2 DEF RequestStep, Outcomes
<1>11. CASE SessionDies(r)
  BY <1>11 DEF SessionDies
<1> QED
  BY <1>1, <1>2, <1>3, <1>4, <1>5, <1>6, <1>7, <1>8, <1>9, <1>10, <1>11 DEF SessionStep

\* The fences make a reconciler's remembered version the current one.
LEMMA WorkerOnLedger ==
    ASSUME ServiceTypeOK, NEW w \in Workers, WorkerStep(w) \/ WorkerDies(w)
    PROVE  (\E r \in Requests : ReconcilerStep(r)) \/ UNCHANGED vars
<1>1. CASE BeginPhase(w) \/ WorkerDies(w)
  BY <1>1 DEF BeginPhase, WorkerDies
<1>2. ASSUME NEW s \in worker[w].batch, Sweep(w, s)
      PROVE  ReconcilerStep(s.req) \/ UNCHANGED vars
  <2>1. RefundStale(s.req, s.kind, s.version) \/ UNCHANGED vars
    BY <1>2 DEF Sweep, Answered
  <2> QED
    BY <2>1 DEF ReconcilerStep, RefundStale, StaleFence
<1>3. ASSUME NEW s \in worker[w].batch, SweepFailed(w, s)
      PROVE  ReconcilerStep(s.req) \/ UNCHANGED vars
  <2>1. MarkStale(s.req, s.kind, s.version) \/ UNCHANGED vars
    BY <1>3 DEF SweepFailed
  <2> QED
    BY <2>1 DEF ReconcilerStep, MarkStale, StaleFence
<1>4. ASSUME NEW s \in worker[w].batch, Reconcile(w, s)
      PROVE  ReconcilerStep(s.req) \/ UNCHANGED vars
  <2>1. Replay(s.req, s.version, s.desired, s.target) \/ UNCHANGED vars
    BY <1>4 DEF Reconcile, Answered
  <2>2. CASE Replay(s.req, s.version, s.desired, s.target)
    <3>1. /\ s.version = ledger[s.req].version /\ s.desired = ledger[s.req].desired
          /\ s.target = ledger[s.req].target
      BY <2>2 DEF Replay, ReplayFence
    <3>2. Replay(s.req, ledger[s.req].version, ledger[s.req].desired, ledger[s.req].target)
      BY <2>2, <3>1
    <3> QED
      BY <3>2 DEF ReconcilerStep
  <2> QED
    BY <2>1, <2>2
<1>5. ASSUME NEW s \in worker[w].batch, ReconcileFailed(w, s)
      PROVE  ReconcilerStep(s.req) \/ UNCHANGED vars
  <2>1. MarkRetry(s.req, s.version, s.desired, s.target) \/ UNCHANGED vars
    BY <1>5 DEF ReconcileFailed
  <2>2. CASE MarkRetry(s.req, s.version, s.desired, s.target)
    <3>1. /\ s.version = ledger[s.req].version /\ s.desired = ledger[s.req].desired
          /\ s.target = ledger[s.req].target
      BY <2>2 DEF MarkRetry, ReplayFence
    <3>2. MarkRetry(s.req, ledger[s.req].version, ledger[s.req].desired, ledger[s.req].target)
      BY <2>2, <3>1
    <3> QED
      BY <3>2 DEF ReconcilerStep
  <2> QED
    BY <2>1, <2>2
<1>6. \A s \in worker[w].batch : s.req \in Requests
  BY SnapshotFields
<1> QED
  BY <1>1, <1>2, <1>3, <1>4, <1>5, <1>6 DEF WorkerStep

\* The writes of a poller that compare the status.
ComparedWrite(r) ==
    \/ \E st \in {"SUCCESS", "FAILURE"}, up \in BOOLEAN, q \in Quota :
          TaskFinish(r, task[r].status, st, up, q)
    \/ \E st \in Reported, up \in BOOLEAN : UpdateWithStatus(r, task[r].status, st, up)

\* The compare-and-swap makes a poller's remembered status the current one.
LEMMA PollOnTask ==
    ASSUME ServiceTypeOK, PollersKnow, NEW r \in Requests, PollStep(r)
    PROVE  ComparedWrite(r) \/ PollBulkFail(r) \/ RequestStep(r) \/ UNCHANGED vars
<1>0. /\ poll[r].upstream \in BOOLEAN /\ poll[r].quota \in Quota
      /\ poll[r].outcome \in Outcomes \cup {"none"}
  BY DEF ServiceTypeOK, Poll
<1>1. CASE LoadTask(r) \/ PollerDies(r)
  BY <1>1 DEF LoadTask, PollerDies
<1>2. CASE PollProgress(r)
  <2>1. UpdateWithStatus(r, poll[r].status, "RUNNING", poll[r].upstream) \/ UNCHANGED vars
    BY <1>2 DEF PollProgress
  <2>2. CASE UpdateWithStatus(r, poll[r].status, "RUNNING", poll[r].upstream)
    <3>1. poll[r].status = task[r].status /\ "RUNNING" \in Reported
      BY <2>2 DEF UpdateWithStatus, Reported
    <3>2. UpdateWithStatus(r, task[r].status, "RUNNING", poll[r].upstream)
      BY <2>2, <3>1
    <3> QED
      BY <1>0, <3>1, <3>2 DEF ComparedWrite
  <2> QED
    BY <2>1, <2>2
<1>3. ASSUME NEW st \in {"SUCCESS", "FAILURE"}, NEW q \in Quota, PollFinish(r, st, q)
      PROVE  ComparedWrite(r) \/ UNCHANGED vars
  <2>1. TaskFinish(r, poll[r].status, st, poll[r].upstream, q) \/ UNCHANGED vars
    BY <1>3 DEF PollFinish, Answered
  <2>2. CASE TaskFinish(r, poll[r].status, st, poll[r].upstream, q)
    <3>1. poll[r].status = task[r].status
      BY <2>2 DEF TaskFinish
    <3>2. TaskFinish(r, task[r].status, st, poll[r].upstream, q)
      BY <2>2, <3>1
    <3> QED
      BY <1>0, <3>2 DEF ComparedWrite
  <2> QED
    BY <2>1, <2>2
<1>4. CASE PollMark(r)
  <2>1. MarkForReconcile(r, poll[r].outcome, poll[r].quota, None) \/ UNCHANGED vars
    BY <1>4 DEF PollMark
  <2>2. poll[r].outcome \in Outcomes
    BY <1>4 DEF PollMark, PollersKnow
  <2> QED
    BY <1>0, <2>1, <2>2 DEF RequestStep
<1> QED
  BY <1>1, <1>2, <1>3, <1>4 DEF PollStep

\* So a poller's step is one of the ledger's poller steps.
LEMMA PollOnLedger ==
    ASSUME ServiceTypeOK, PollersKnow, NEW r \in Requests, PollStep(r)
    PROVE  PollerStep(r) \/ RequestStep(r) \/ UNCHANGED vars
<1>1. ComparedWrite(r) => PollerStep(r)
  BY DEF ComparedWrite, PollerStep
<1>2. PollBulkFail(r) => PollerStep(r)
  BY DEF PollBulkFail, PollerStep
<1> QED
  BY <1>1, <1>2, PollOnTask

\* So is a step of a user's fetch.
LEMMA FetchOnLedger ==
    ASSUME ServiceTypeOK, NEW r \in Requests, FetchStep(r)
    PROVE  PollerStep(r) \/ UNCHANGED vars
<1>1. CASE FetchLoad(r)
  BY <1>1 DEF FetchLoad
<1>2. ASSUME NEW st \in Reported, FetchWrite(r, st) PROVE PollerStep(r) \/ UNCHANGED vars
  <2>1. UpdateWithStatus(r, fetch[r].status, st, fetch[r].upstream) \/ UNCHANGED vars
    BY <1>2 DEF FetchWrite
  <2>2. CASE UpdateWithStatus(r, fetch[r].status, st, fetch[r].upstream)
    <3>1. fetch[r].status = task[r].status /\ fetch[r].upstream \in BOOLEAN
      BY <2>2 DEF UpdateWithStatus, ServiceTypeOK, TaskRow
    <3>2. UpdateWithStatus(r, task[r].status, st, fetch[r].upstream)
      BY <2>2, <3>1
    <3> QED
      BY <3>1, <3>2 DEF PollerStep
  <2> QED
    BY <2>1, <2>2
<1> QED
  BY <1>1, <1>2 DEF FetchStep

\* A step of the service is a step of the ledger, seen from the database.
LEMMA ServiceOnLedger ==
    ASSUME ServiceTypeOK, PollersKnow, [ServiceNext]_allVars
    PROVE  [Next]_vars
<1>1. ASSUME NEW r \in Requests,
             SessionStep(r) \/ PollStep(r) \/ FetchStep(r) \/ TimePasses(r)
      PROVE  [Next]_vars
  BY <1>1, SessionOnLedger, PollOnLedger, FetchOnLedger DEF TimePasses, Next
<1>2. ASSUME NEW w \in Workers, WorkerStep(w) \/ WorkerDies(w)
      PROVE  [Next]_vars
  BY <1>2, WorkerOnLedger DEF Next
<1>3. CASE Administration /\ UNCHANGED serviceVars
  BY <1>3 DEF Next
<1>4. CASE UNCHANGED allVars
  BY <1>4 DEF allVars
<1> QED
  BY <1>1, <1>2, <1>3, <1>4 DEF ServiceNext

-----------------------------------------------------------------------------
(* The memory of the processes.                                             *)

\* A session stays one when some of its fields are replaced.
LEMMA SessionUpdate ==
    ASSUME NEW s \in Session, NEW q \in Quota, NEW c \in Channels \cup {None},
           NEW pc \in {"idle", "open", "bound", "acknowledged", "settle failed",
                       "refund failed", "failed", "ended"},
           NEW result \in {"none", "settled", "intended", "refunded"}
    PROVE  /\ [s EXCEPT !.pc = "ended", !.quota = q, !.result = result] \in Session
           /\ [s EXCEPT !.pc = pc, !.quota = q, !.chan = c] \in Session
           /\ [s EXCEPT !.pc = pc, !.result = result] \in Session
<1>1. [s EXCEPT !.pc = "ended", !.quota = q, !.result = result] \in Session
  BY DEF Session
<1>2. [s EXCEPT !.pc = pc, !.quota = q, !.chan = c] \in Session
  BY DEF Session
<1>3. [s EXCEPT !.pc = pc, !.result = result] \in Session
  BY DEF Session
<1> QED
  BY <1>1, <1>2, <1>3

\* What the session steps may write into a session.
LEMMA SessionTyped ==
    ASSUME session \in [Requests -> Session], NEW r \in Requests, NEW q \in Quota,
           NEW c \in Channels \cup {None},
           NEW pc \in {"idle", "open", "bound", "acknowledged", "settle failed",
                       "refund failed", "failed", "ended"},
           NEW result \in {"none", "settled", "intended", "refunded"},
           \/ Goes(r, pc) \/ Achieves(r, result, q) \/ Fails(r, pc, q, c)
           \/ session' = [session EXCEPT ![r].pc = pc, ![r].result = result]
    PROVE  session' \in [Requests -> Session]
<1>1. CASE Goes(r, pc)
  BY <1>1, ZenonT(60) DEF Goes, Session
<1>2. CASE Achieves(r, result, q)
  <2> DEFINE n == [session[r] EXCEPT !.pc = "ended", !.quota = q, !.result = result]
  <2>0. session[r] \in Session
    OBVIOUS
  <2>1. n \in Session
    BY <2>0, SessionUpdate, Zenon
  <2>2. session' = [session EXCEPT ![r] = n]
    BY <1>2 DEF Achieves
  <2> HIDE DEF n
  <2> QED
    BY <2>1, <2>2
<1>3. CASE Fails(r, pc, q, c)
  <2> DEFINE n == [session[r] EXCEPT !.pc = pc, !.quota = q, !.chan = c]
  <2>0. session[r] \in Session
    OBVIOUS
  <2>1. n \in Session
    BY <2>0, SessionUpdate, Zenon
  <2>2. session' = [session EXCEPT ![r] = n]
    BY <1>3 DEF Fails
  <2> HIDE DEF n
  <2> QED
    BY <2>1, <2>2
<1>4. CASE session' = [session EXCEPT ![r].pc = pc, ![r].result = result]
  <2> DEFINE n == [session[r] EXCEPT !.pc = pc, !.result = result]
  <2>0. session[r] \in Session
    OBVIOUS
  <2>1. n \in Session
    BY <2>0, SessionUpdate, Zenon
  <2>2. session' = [session EXCEPT ![r] = n]
    BY <1>4
  <2> HIDE DEF n
  <2> QED
    BY <2>1, <2>2
<1> QED
  BY <1>1, <1>2, <1>3, <1>4

\* Faults stay within their bound.
LEMMA FaultTyped ==
    ASSUME faults \in 0..MaxFaults, Fault \/ UNCHANGED faults
    PROVE  faults' \in 0..MaxFaults
  BY FaultsAssumption DEF Fault

\* Sessions keep to their type.
LEMMA SessionType ==
    ASSUME ServiceTypeOK, NEW r \in Requests, SessionStep(r)
    PROVE  /\ session' \in [Requests -> Session] /\ faults' \in 0..MaxFaults
           /\ UNCHANGED <<worker, poll, fetch>>
<1>0. /\ session[r].quota \in Quota /\ session[r].chan \in Channels \cup {None}
      /\ session \in [Requests -> Session] /\ faults \in 0..MaxFaults
      /\ None \in Channels \cup {None}
  BY DEF ServiceTypeOK, Session
<1>00. 0 \in Quota
  BY Bounds DEF Quota
<1> DEFINE Typed == /\ session' \in [Requests -> Session]
                    /\ Fault \/ UNCHANGED faults
                    /\ UNCHANGED <<worker, poll, fetch>>
<1> SUFFICES Typed
  BY <1>0, FaultTyped
<1>1. CASE Open(r)
  <2>1. Goes(r, "open") \/ Goes(r, "ended")
    BY <1>1 DEF Open
  <2> QED
    BY <1>0, <1>1, <2>1, SessionTyped DEF Open
<1>2. CASE Extend(r)
  BY <1>0, <1>2 DEF Extend, serviceVars
<1>3. CASE Prepare(r)
  <2>1. Goes(r, "bound") \/ UNCHANGED session
    BY <1>3 DEF Prepare, Answered
  <2>2. session' \in [Requests -> Session]
    BY <1>0, <2>1, SessionTyped
  <2> QED
    BY <1>3, <2>2 DEF Prepare, Answered
<1>4. ASSUME NEW q \in Quota, NEW c \in Channels \cup {None}, SessionSettle(r, q, c)
      PROVE  Typed
  <2>1. Achieves(r, "settled", q) \/ Fails(r, "settle failed", q, c)
    BY <1>4 DEF SessionSettle, Answered
  <2>2. session' \in [Requests -> Session]
    BY <1>0, <2>1, SessionTyped
  <2> QED
    BY <1>4, <2>2 DEF SessionSettle, Answered
<1>5. ASSUME NEW q \in Quota, AcknowledgeTask(r, q)
      PROVE  Typed
  <2>1. Fails(r, "acknowledged", q, None) \/ Fails(r, "settle failed", q, None)
    BY <1>5 DEF AcknowledgeTask, Answered
  <2>2. session' \in [Requests -> Session]
    BY <1>0, <2>1, SessionTyped
  <2> QED
    BY <1>5, <2>2 DEF AcknowledgeTask, Answered
<1>6. CASE SettleTask(r)
  <2>1. Achieves(r, "settled", session[r].quota) \/ Goes(r, "settle failed")
    BY <1>6 DEF SettleTask, Answered
  <2>2. session' \in [Requests -> Session]
    BY <1>0, <2>1, SessionTyped
  <2> QED
    BY <1>6, <2>2 DEF SettleTask, Answered
<1>7. ASSUME NEW q \in Quota, NEW st \in Reported, SettleMidjourney(r, q, st)
      PROVE  Typed
  <2>1. Achieves(r, "settled", q) \/ Fails(r, "settle failed", q, None)
    BY <1>7 DEF SettleMidjourney, Answered
  <2>2. session' \in [Requests -> Session]
    BY <1>0, <2>1, SessionTyped
  <2> QED
    BY <1>7, <2>2 DEF SettleMidjourney, Answered
<1>8. CASE MarkSettle(r)
  <2>1. PICK pc \in {"failed", "ended"} :
            \/ session' = [session EXCEPT ![r].pc = pc, ![r].result = "intended"]
            \/ Goes(r, pc)
    BY <1>8 DEF MarkSettle
  <2>2. session' \in [Requests -> Session]
    BY <1>0, <2>1, SessionTyped, ZenonT(60)
  <2> QED
    BY <1>8, <2>2 DEF MarkSettle
<1>9. CASE SessionRefund(r)
  <2>1. Achieves(r, "refunded", 0) \/ Goes(r, "refund failed")
    BY <1>9 DEF SessionRefund, Answered
  <2>2. session' \in [Requests -> Session]
    BY <1>0, <1>00, <2>1, SessionTyped
  <2> QED
    BY <1>9, <2>2 DEF SessionRefund, Answered
<1>10. CASE MarkRefund(r)
  <2>1. session' \in [Requests -> Session]
    BY <1>0, <1>10, SessionTyped DEF MarkRefund
  <2> QED
    BY <1>10, <2>1 DEF MarkRefund
<1>11. CASE SessionDies(r)
  <2>1. session' \in [Requests -> Session]
    BY <1>0, <1>11, SessionTyped DEF SessionDies
  <2> QED
    BY <1>11, <2>1 DEF SessionDies
<1> QED
  BY <1>1, <1>2, <1>3, <1>4, <1>5, <1>6, <1>7, <1>8, <1>9, <1>10, <1>11 DEF SessionStep

\* Lists of reconcilers hold snapshots of rows.
LEMMA ListsTyped ==
    ASSUME PartsOK, NEW phase
    PROVE  Listed(phase) \subseteq Snapshot
<1>1. \A r \in Requests : SnapshotOf(r) \in Snapshot
  BY DEF PartsOK, RowsOK, RowInv, LedgerRow, SnapshotOf, Snapshot
<1> QED
  BY <1>1 DEF Listed, ListStale, ListDue

\* Reconcilers keep to their type.
LEMMA WorkerType ==
    ASSUME PartsOK, ServiceTypeOK, NEW w \in Workers, WorkerStep(w) \/ WorkerDies(w)
    PROVE  /\ worker' \in [Workers -> Worker] /\ faults' \in 0..MaxFaults
           /\ UNCHANGED <<session, poll, fetch>>
<1>0. worker \in [Workers -> Worker] /\ faults \in 0..MaxFaults
  BY DEF ServiceTypeOK
<1>1. Idle \in Worker
  BY DEF Idle, Worker
<1>2. NextPhase[worker[w].phase] \in {"idle", "task", "request", "reconcile"}
  BY <1>0 DEF NextPhase, Worker
<1>3. CASE BeginPhase(w)
  <2>1. [phase |-> NextPhase[worker[w].phase], batch |-> Listed(NextPhase[worker[w].phase]),
         failed |-> {}] \in Worker
    BY <1>2, ListsTyped DEF Worker
  <2> QED
    BY <1>0, <1>1, <1>3, <2>1, FaultTyped DEF BeginPhase
<1>4. CASE WorkerDies(w)
  BY <1>0, <1>1, <1>4, FaultTyped DEF WorkerDies
<1>5. ASSUME NEW s \in worker[w].batch, Passes(w, s) \/ IsMarked(w, s)
      PROVE  worker' \in [Workers -> Worker]
  <2>1. s \in Snapshot
    BY SnapshotFields
  <2>2. CASE Passes(w, s)
    BY <1>0, <2>2 DEF Passes, Worker
  <2>3. CASE IsMarked(w, s)
    BY <1>0, <2>1, <2>3 DEF IsMarked, Worker
  <2> QED
    BY <1>5, <2>2, <2>3
<1>6. ASSUME NEW s \in worker[w].batch,
             Sweep(w, s) \/ SweepFailed(w, s) \/ Reconcile(w, s) \/ ReconcileFailed(w, s)
      PROVE  /\ Passes(w, s) \/ IsMarked(w, s)
             /\ Fault \/ UNCHANGED faults
             /\ UNCHANGED <<session, poll, fetch>>
  BY <1>6 DEF Sweep, SweepFailed, Reconcile, ReconcileFailed, Answered
<1> QED
  BY <1>0, <1>3, <1>4, <1>5, <1>6, FaultTyped DEF WorkerStep

\* Pollers keep to their type, and know what they failed to do.
LEMMA PollType ==
    ASSUME PartsOK, ServiceTypeOK, PollersKnow, NEW r \in Requests, PollStep(r)
    PROVE  /\ poll' \in [Requests -> Poll] /\ PollersKnow' /\ faults' \in 0..MaxFaults
           /\ UNCHANGED <<session, worker, fetch>>
<1>0. poll \in [Requests -> Poll] /\ faults \in 0..MaxFaults /\ task[r] \in TaskRow
  BY DEF ServiceTypeOK, PartsOK, TasksOK
<1>1. NoPoll \in Poll /\ NoPoll.pc = "idle"
  BY Bounds DEF NoPoll, Poll, TaskStatuses, Quota
<1>2. ASSUME NEW p \in Poll, p.pc = "finish failed" => p.outcome \in Outcomes,
             poll' = [poll EXCEPT ![r] = p]
      PROVE  poll' \in [Requests -> Poll] /\ PollersKnow'
  BY <1>0, <1>2 DEF PollersKnow
<1>3. CASE LoadTask(r)
  <2> DEFINE p == [NoPoll EXCEPT !.pc = "loaded", !.status = task[r].status,
                                 !.upstream = task[r].upstream]
  <2>1. p \in Poll /\ p.pc = "loaded"
    BY <1>0, <1>1 DEF Poll, TaskRow
  <2>2. poll' = [poll EXCEPT ![r] = p] /\ UNCHANGED <<session, worker, fetch, faults>>
    BY <1>3 DEF LoadTask
  <2> HIDE DEF p
  <2> QED
    BY <1>0, <1>2, <2>1, <2>2
<1>4. CASE \/ PollProgress(r) \/ PollMark(r) \/ PollBulkFail(r) \/ PollerDies(r)
  <2>1. /\ poll' = [poll EXCEPT ![r] = NoPoll]
        /\ Fault \/ UNCHANGED faults
        /\ UNCHANGED <<session, worker, fetch>>
    BY <1>4 DEF PollProgress, PollMark, PollBulkFail, PollerDies
  <2> QED
    <3>1. poll' \in [Requests -> Poll] /\ PollersKnow'
      BY <1>1, <1>2, <2>1
    <3>2. faults' \in 0..MaxFaults
      BY <1>0, <2>1, FaultTyped
    <3> QED
      BY <2>1, <3>1, <3>2
<1>5. ASSUME NEW st \in {"SUCCESS", "FAILURE"}, NEW q \in Quota, PollFinish(r, st, q)
      PROVE  /\ poll' \in [Requests -> Poll] /\ PollersKnow' /\ faults' \in 0..MaxFaults
             /\ UNCHANGED <<session, worker, fetch>>
  <2> DEFINE p == [poll[r] EXCEPT !.pc = "finish failed", !.outcome = OutcomeOf(st),
                                  !.quota = q]
  <2>1. OutcomeOf(st) \in Outcomes
    BY DEF OutcomeOf, Outcomes
  <2>2. p \in Poll /\ p.outcome \in Outcomes
    BY <1>0, <2>1 DEF Poll
  <2>3. /\ \/ poll' = [poll EXCEPT ![r] = NoPoll]
           \/ poll' = [poll EXCEPT ![r].pc = "finish failed",
                                   ![r].outcome = OutcomeOf(st), ![r].quota = q]
        /\ Fault \/ UNCHANGED faults
        /\ UNCHANGED <<session, worker, fetch>>
    BY <1>5 DEF PollFinish, Answered
  <2>4. [poll EXCEPT ![r].pc = "finish failed",
                     ![r].outcome = OutcomeOf(st), ![r].quota = q] = [poll EXCEPT ![r] = p]
    BY <1>0
  <2> HIDE DEF p
  <2>5. poll' = [poll EXCEPT ![r] = NoPoll] \/ poll' = [poll EXCEPT ![r] = p]
    BY <2>3, <2>4
  <2>6. poll' \in [Requests -> Poll] /\ PollersKnow'
    BY <1>1, <1>2, <2>2, <2>5
  <2> QED
    BY <1>0, <2>3, <2>6, FaultTyped
<1> QED
  BY <1>3, <1>4, <1>5 DEF PollStep

\* A fetch keeps a copy of a task row.
LEMMA FetchType ==
    ASSUME PartsOK, ServiceTypeOK, NEW r \in Requests, FetchStep(r)
    PROVE  fetch' \in [Requests -> TaskRow] /\ UNCHANGED <<session, worker, poll, faults>>
<1>1. fetch \in [Requests -> TaskRow] /\ task[r] \in TaskRow /\ NoTask \in TaskRow
  BY DEF ServiceTypeOK, PartsOK, TasksOK, NoTask, TaskRow, TaskStatuses
<1>2. CASE FetchLoad(r)
  BY <1>1, <1>2 DEF FetchLoad
<1>3. ASSUME NEW st, FetchWrite(r, st)
      PROVE  fetch' \in [Requests -> TaskRow] /\ UNCHANGED <<session, worker, poll, faults>>
  BY <1>1, <1>3 DEF FetchWrite
<1> QED
  BY <1>2, <1>3 DEF FetchStep

\* The invariant holds at the start.
LEMMA ServiceInitOK == ServiceInit => ServiceInv
<1> SUFFICES ASSUME ServiceInit PROVE ServiceInv
  OBVIOUS
<1>1. PartsOK
  BY InitOK DEF ServiceInit
<1>2. 0 \in Quota /\ 0 \in 0..MaxFaults
  BY Bounds, FaultsAssumption DEF Quota
<1>3. ServiceTypeOK
  BY <1>2 DEF ServiceInit, ServiceTypeOK, Session, Worker, Poll, Idle, NoPoll, TaskStatuses,
              TaskRow, NoTask
<1>4. PollersKnow
  BY DEF ServiceInit, PollersKnow, NoPoll
<1> QED
  BY <1>1, <1>3, <1>4 DEF ServiceInv

\* Every step of the service keeps the invariant.
LEMMA ServiceNextOK == ServiceInv /\ [ServiceNext]_allVars => ServiceInv'
<1> SUFFICES ASSUME ServiceInv, [ServiceNext]_allVars PROVE ServiceInv'
  OBVIOUS
<1>0. PartsOK /\ ServiceTypeOK /\ PollersKnow
  BY DEF ServiceInv
<1>1. PartsOK'
  BY <1>0, ServiceOnLedger, NextOK
<1>2. ASSUME UNCHANGED serviceVars PROVE ServiceTypeOK' /\ PollersKnow'
  BY <1>0, <1>2 DEF serviceVars, ServiceTypeOK, PollersKnow
<1>3. ASSUME NEW r \in Requests, SessionStep(r) PROVE ServiceTypeOK' /\ PollersKnow'
  BY <1>0, <1>3, SessionType DEF ServiceTypeOK, PollersKnow
<1>4. ASSUME NEW r \in Requests, PollStep(r) PROVE ServiceTypeOK' /\ PollersKnow'
  BY <1>0, <1>4, PollType DEF ServiceTypeOK
<1>7. ASSUME NEW r \in Requests, FetchStep(r) PROVE ServiceTypeOK' /\ PollersKnow'
  BY <1>0, <1>7, FetchType DEF ServiceTypeOK, PollersKnow
<1>5. ASSUME NEW w \in Workers, WorkerStep(w) \/ WorkerDies(w)
      PROVE  ServiceTypeOK' /\ PollersKnow'
  BY <1>0, <1>5, WorkerType DEF ServiceTypeOK, PollersKnow
<1>6. CASE UNCHANGED allVars
  <2>1. UNCHANGED serviceVars
    BY <1>6 DEF allVars
  <2> QED
    BY <1>2, <2>1, <1>1 DEF ServiceInv
<1> QED
  BY <1>1, <1>2, <1>3, <1>4, <1>5, <1>6, <1>7 DEF ServiceNext, TimePasses, ServiceInv

\* The invariant of the service.
LEMMA ServiceInvariant == ServiceSpec => []ServiceInv
  BY ServiceInitOK, ServiceNextOK, PTL DEF ServiceSpec

\* What sessions, reconcilers and pollers remember between two transactions
\* stays of its type.
THEOREM ServiceTypes == ServiceSpec => []ServiceTypeOK
<1>1. ServiceInv => ServiceTypeOK
  BY DEF ServiceInv
<1> QED
  BY <1>1, ServiceInvariant, PTL

\* Seen from the database the running service is the ledger: sessions,
\* reconcilers and pollers, with their stale memories, lost answers and
\* deaths, do nothing that BillingLedger does not allow.
THEOREM ServiceImplementsLedger == ServiceSpec => Spec
<1>1. ServiceInit => Init
  BY DEF ServiceInit
<1>2. ServiceInv /\ [ServiceNext]_allVars => [Next]_vars
  BY ServiceOnLedger DEF ServiceInv
<1> QED
  BY <1>1, <1>2, ServiceInvariant, PTL DEF ServiceSpec, Spec

\* So the service keeps the ledger's invariant.
THEOREM ServiceKeepsLedger == ServiceSpec => []LedgerInv
  BY ServiceImplementsLedger, LedgerInvariant, PTL

\* It conserves what the ledger conserves: no death of a process, no lost
\* answer and no retry of sessions, reconcilers and pollers creates quota,
\* destroys it, counts a request twice or makes a refund impossible.
THEOREM ServiceConserves == ServiceSpec => [](Conserved /\ RefundNeverBlocked)
  BY ServiceImplementsLedger, LedgerConserves, RefundsAreNeverBlocked, PTL

\* Composed with the ledger's refinement: to the user the running service, with
\* all its retries and recoveries, is an escrow account.
THEOREM ServiceImplementsEscrow == ServiceSpec => EscrowSpec
  BY ServiceImplementsLedger, ImplementsEscrow, PTL

-----------------------------------------------------------------------------
(* What single transactions leave in the row they write.                    *)

\* A committed transition leaves its outcome and its quota.
LEMMA TransitLeaves ==
    ASSUME PartsOK, NEW r \in Requests, NEW outcome, NEW q,
           NEW c \in Channels \cup {None}, NEW t, Transit(r, outcome, q, c, t)
    PROVE  /\ ledger'[r].state = outcome /\ ledger'[r].desired = outcome
           /\ ledger'[r].applied = q /\ ledger'[r].target = q
           /\ task' = [task EXCEPT ![r] = t]
<1>1. ledger \in [Requests -> LedgerRow]
  BY DEF PartsOK, RowsOK
<1>2. ledger[r].state # "absent" /\ RowInv(ledger[r])
  BY DEF PartsOK, RowsOK, Transit, Commits
<1>3. WithChannel(ledger[r], c) \in LedgerRow
  BY <1>2, WithChannelRow DEF RowInv
<1>4. ledger'[r] = Finished(WithChannel(ledger[r], c), outcome, q)
  BY <1>1 DEF Transit
<1>5. /\ ledger'[r].state = outcome /\ ledger'[r].desired = outcome
      /\ ledger'[r].applied = q /\ ledger'[r].target = q
  BY <1>3, <1>4 DEF Finished, LedgerRow
<1> QED
  BY <1>5 DEF Transit

\* A mark leaves the intent.
LEMMA MarkLeaves ==
    ASSUME PartsOK, NEW r \in Requests, NEW outcome, NEW q,
           NEW c \in Channels \cup {None}, MarkForReconcile(r, outcome, q, c)
    PROVE  /\ ledger'[r].state = "reconcile_required" /\ ledger'[r].desired = outcome
           /\ ledger'[r].target = q
           /\ UNCHANGED task
<1>1. ledger \in [Requests -> LedgerRow]
  BY DEF PartsOK, RowsOK
<1>0. ledger[r].state # "absent"
  BY DEF MarkForReconcile, WithChannel
<1>2. WithChannel(ledger[r], c) \in LedgerRow
  BY <1>0, WithChannelRow DEF PartsOK, RowsOK, RowInv
<1>3. ledger'[r] = ToReconcile(WithChannel(ledger[r], c), outcome, q, FALSE)
  BY <1>1 DEF MarkForReconcile
<1>4. /\ ledger'[r].state = "reconcile_required" /\ ledger'[r].desired = outcome
      /\ ledger'[r].target = q
  BY <1>2, <1>3 DEF ToReconcile, LedgerRow
<1> QED
  BY <1>4 DEF MarkForReconcile

\* The transactions that keep a row reserved.
LEMMA HoldLeaves ==
    ASSUME PartsOK, NEW r \in Requests, NEW q \in Quota, ReserveMore(r, q) \/ BindTask(r)
    PROVE  ledger'[r].state = "reserved"
<1>1. ledger \in [Requests -> LedgerRow]
  BY DEF PartsOK, RowsOK
<1>2. CASE ReserveMore(r, q)
  BY <1>1, <1>2 DEF ReserveMore, LedgerRow
<1>3. CASE BindTask(r)
  BY <1>1, <1>3 DEF BindTask, LedgerRow
<1> QED
  BY <1>2, <1>3

\* A retry mark and the passing of time keep state, intent and quota.
LEMMA RetryLeaves ==
    ASSUME PartsOK, NEW r \in Requests,
           \/ \E v, o, q : MarkRetry(r, v, o, q)
           \/ GrowStale(r) \/ FallDue(r)
    PROVE  /\ ledger'[r].state = ledger[r].state /\ ledger'[r].desired = ledger[r].desired
           /\ ledger'[r].applied = ledger[r].applied /\ ledger'[r].target = ledger[r].target
           /\ UNCHANGED task
<1>1. ledger \in [Requests -> LedgerRow]
  BY DEF PartsOK, RowsOK
<1>2. ASSUME NEW v, NEW o, NEW q, MarkRetry(r, v, o, q)
      PROVE  /\ ledger'[r].state = ledger[r].state /\ ledger'[r].desired = ledger[r].desired
             /\ ledger'[r].applied = ledger[r].applied
             /\ ledger'[r].target = ledger[r].target
             /\ UNCHANGED task
  BY <1>1, <1>2 DEF MarkRetry, LedgerRow
<1>3. CASE GrowStale(r)
  BY <1>1, <1>3 DEF GrowStale, LedgerRow
<1>4. CASE FallDue(r)
  BY <1>1, <1>4 DEF FallDue, LedgerRow
<1> QED
  BY <1>2, <1>3, <1>4

\* A transaction of one request touches no row of another.
LEMMA OtherLedgerRows ==
    ASSUME PartsOK, PartsOK', NEW r \in Requests, NEW x \in Requests, x # r,
           \/ RequestStep(r) \/ ReconcilerStep(r) \/ PollerStep(r)
           \/ GrowStale(r) \/ FallDue(r)
    PROVE  ledger'[x] = ledger[x]
<1>1. (\E n : Effect(r, n)) \/ NoEffect
  BY RequestEffect
<1>2. CASE NoEffect
  BY <1>2 DEF NoEffect
<1>3. ASSUME NEW n, Effect(r, n) PROVE ledger'[x] = ledger[x]
  BY <1>3, EffectRows
<1> QED
  BY <1>1, <1>2, <1>3

\* Neither does it touch the task row of another.
LEMMA OtherTaskRows ==
    ASSUME PartsOK, NEW r \in Requests, NEW x \in Requests, x # r,
           \/ RequestStep(r) \/ ReconcilerStep(r) \/ PollerStep(r)
           \/ GrowStale(r) \/ FallDue(r)
    PROVE  task'[x] = task[x]
<1>0. task \in [Requests -> TaskRow]
  BY DEF PartsOK, TasksOK
<1>1. ASSUME NEW outcome, NEW q, NEW c, NEW t, Transit(r, outcome, q, c, t)
      PROVE  task'[x] = task[x]
  BY <1>0, <1>1 DEF Transit
<1>2. CASE RequestStep(r)
  <2>1. ASSUME NEW m, NEW src, NEW t, NEW c, NEW q, Reserve(r, m, src, t, c, q)
        PROVE  UNCHANGED task
    BY <2>1 DEF Reserve, ReserveWallet, ReserveSubscription
  <2>2. ASSUME NEW q, ReserveMore(r, q) PROVE UNCHANGED task
    BY <2>2 DEF ReserveMore
  <2>3. CASE BindTask(r)
    BY <1>0, <2>3 DEF BindTask
  <2>4. ASSUME NEW q, NEW c, Settle(r, q, c) PROVE task'[x] = task[x]
    BY <1>1, <2>4 DEF Settle
  <2>5. ASSUME NEW q, NEW st, SettleWithTask(r, q, st) PROVE task'[x] = task[x]
    BY <1>1, <2>5 DEF SettleWithTask
  <2>6. CASE Refund(r)
    BY <1>1, <2>6 DEF Refund
  <2>7. ASSUME NEW q, Acknowledge(r, q) PROVE task'[x] = task[x]
    BY <1>0, <2>7 DEF Acknowledge
  <2>8. ASSUME NEW o, NEW q, NEW c, MarkForReconcile(r, o, q, c) PROVE UNCHANGED task
    BY <2>8 DEF MarkForReconcile
  <2> QED
    BY <1>2, <2>1, <2>2, <2>3, <2>4, <2>5, <2>6, <2>7, <2>8 DEF RequestStep
<1>3. CASE ReconcilerStep(r)
  <2>1. \/ \E outcome, q, c, t : Transit(r, outcome, q, c, t)
        \/ UNCHANGED task
    BY <1>3 DEF ReconcilerStep, RefundStale, Refund, MarkStale, Replay, MarkRetry
  <2> QED
    BY <1>1, <2>1
<1>4. CASE PollerStep(r)
  <2>1. \/ \E outcome, q, c, t : Transit(r, outcome, q, c, t)
        \/ \E t : task' = [task EXCEPT ![r] = t]
    BY <1>0, <1>4 DEF PollerStep, TaskFinish, UpdateWithStatus, TaskBulkFail
  <2> QED
    BY <1>0, <1>1, <2>1
<1>5. CASE GrowStale(r) \/ FallDue(r)
  BY <1>5 DEF GrowStale, FallDue
<1> QED
  BY <1>2, <1>3, <1>4, <1>5

-----------------------------------------------------------------------------
(* A reconciler takes back orphans only.                                    *)

\* A session that refunds its request moves on.
LEMMA SessionRefundsMove ==
    ASSUME ServiceInv, NEW r \in Requests, SessionStep(r),
           ledger'[r].state = "refunded", ledger[r].state # "refunded"
    PROVE  session'[r] # session[r]
<1>0. PartsOK /\ session \in [Requests -> Session]
  BY DEF ServiceInv, ServiceTypeOK
<1>1. CASE Extend(r)
  BY <1>0, <1>1, HoldLeaves DEF Extend
<1>2. CASE Prepare(r)
  <2>1. BindTask(r) \/ UNCHANGED vars
    BY <1>2 DEF Prepare, Answered
  <2>2. 0 \in Quota
    BY Bounds DEF Quota
  <2>3. CASE UNCHANGED vars
    BY <2>3 DEF vars
  <2> QED
    BY <1>0, <2>1, <2>2, <2>3, HoldLeaves
<1>3. ASSUME NEW pc, NEW q, NEW c, NEW result, pc # session[r].pc,
             \/ Goes(r, pc)
             \/ Achieves(r, result, q) /\ pc = "ended"
             \/ Fails(r, pc, q, c)
             \/ session' = [session EXCEPT ![r].pc = pc, ![r].result = result]
      PROVE  session'[r] # session[r]
  <2>1. session'[r].pc = pc
    BY <1>0, <1>3, ZenonT(60) DEF Goes, Achieves, Fails, Session
  <2> QED
    BY <1>3, <2>1
<1>4. CASE Open(r)
  <2>1. (Goes(r, "open") \/ Goes(r, "ended")) /\ session[r].pc = "idle"
    BY <1>4 DEF Open
  <2> QED
    BY <1>3, <2>1
<1>5. ASSUME NEW q \in Quota, NEW c \in Channels \cup {None}, SessionSettle(r, q, c)
      PROVE  session'[r] # session[r]
  <2>1. /\ Achieves(r, "settled", q) \/ Fails(r, "settle failed", q, c)
        /\ session[r].pc = "open"
    BY <1>5 DEF SessionSettle, Answered
  <2> QED
    BY <1>3, <2>1
<1>6. ASSUME NEW q \in Quota, AcknowledgeTask(r, q)
      PROVE  session'[r] # session[r]
  <2>1. /\ Fails(r, "acknowledged", q, None) \/ Fails(r, "settle failed", q, None)
        /\ session[r].pc = "bound"
    BY <1>6 DEF AcknowledgeTask, Answered
  <2> QED
    BY <1>3, <2>1
<1>7. CASE SettleTask(r)
  <2>1. /\ Achieves(r, "settled", session[r].quota) \/ Goes(r, "settle failed")
        /\ session[r].pc = "acknowledged"
    BY <1>7 DEF SettleTask, Answered
  <2> QED
    BY <1>3, <2>1
<1>8. ASSUME NEW q \in Quota, NEW st \in Reported, SettleMidjourney(r, q, st)
      PROVE  session'[r] # session[r]
  <2>1. /\ Achieves(r, "settled", q) \/ Fails(r, "settle failed", q, None)
        /\ session[r].pc = "open"
    BY <1>8 DEF SettleMidjourney, Answered
  <2> QED
    BY <1>3, <2>1
<1>9. CASE MarkSettle(r)
  <2>1. PICK pc \in {"failed", "ended"} :
            \/ session' = [session EXCEPT ![r].pc = pc, ![r].result = "intended"]
            \/ Goes(r, pc)
    BY <1>9 DEF MarkSettle
  <2>2. session[r].pc = "settle failed"
    BY <1>9 DEF MarkSettle
  <2> QED
    BY <1>3, <2>1, <2>2
<1>10. CASE SessionRefund(r)
  <2>1. /\ Achieves(r, "refunded", 0) \/ Goes(r, "refund failed")
        /\ session[r].pc \in {"open", "bound", "failed"}
    BY <1>10 DEF SessionRefund, Answered
  <2> QED
    BY <1>3, <2>1
<1>11. CASE MarkRefund(r) \/ SessionDies(r)
  <2>1. Goes(r, "ended") /\ session[r].pc # "ended"
    BY <1>11 DEF MarkRefund, SessionDies
  <2> QED
    BY <1>3, <2>1
<1> QED
  BY <1>1, <1>2, <1>4, <1>5, <1>6, <1>7, <1>8, <1>9, <1>10, <1>11 DEF SessionStep

\* Every step of a poller moves it on.
LEMMA PollersMove ==
    ASSUME ServiceInv, NEW r \in Requests, PollStep(r)
    PROVE  poll'[r] # poll[r]
<1>0. poll \in [Requests -> Poll] /\ NoPoll.pc = "idle"
  BY DEF ServiceInv, ServiceTypeOK, NoPoll
<1>1. CASE LoadTask(r)
  <2>1. poll'[r].pc = "loaded" /\ poll[r].pc = "idle"
    BY <1>0, <1>1 DEF LoadTask, NoPoll
  <2> QED
    BY <2>1
<1>2. CASE PollProgress(r) \/ PollMark(r) \/ PollBulkFail(r) \/ PollerDies(r)
  <2>1. poll' = [poll EXCEPT ![r] = NoPoll] /\ poll[r].pc # "idle"
    BY <1>2 DEF PollProgress, PollMark, PollBulkFail, PollerDies
  <2> QED
    BY <1>0, <2>1
<1>3. ASSUME NEW st \in {"SUCCESS", "FAILURE"}, NEW q \in Quota, PollFinish(r, st, q)
      PROVE  poll'[r] # poll[r]
  <2>1. /\ poll[r].pc = "loaded"
        /\ \/ poll' = [poll EXCEPT ![r] = NoPoll]
           \/ poll' = [poll EXCEPT ![r].pc = "finish failed",
                                   ![r].outcome = OutcomeOf(st), ![r].quota = q]
    BY <1>3 DEF PollFinish, Answered
  <2>2. CASE poll' = [poll EXCEPT ![r] = NoPoll]
    BY <1>0, <2>1, <2>2
  <2>3. CASE poll' = [poll EXCEPT ![r].pc = "finish failed",
                                  ![r].outcome = OutcomeOf(st), ![r].quota = q]
    <3>1. poll'[r].pc = "finish failed"
      BY <1>0, <2>3 DEF Poll
    <3> QED
      BY <2>1, <3>1
  <2> QED
    BY <2>1, <2>2, <2>3
<1> QED
  BY <1>1, <1>2, <1>3 DEF PollStep

\* A fetch writes no row of the ledger.
LEMMA FetchKeepsLedger ==
    ASSUME NEW r \in Requests, FetchStep(r)
    PROVE  UNCHANGED ledger
  BY DEF FetchStep, FetchLoad, FetchWrite, UpdateWithStatus, vars

\* A reconciler refunds an old reservation or carries out a refund intent.
LEMMA ReconcilerRefunds ==
    ASSUME PartsOK, NEW r \in Requests, ReconcilerStep(r),
           ledger'[r].state = "refunded", ledger[r].state # "refunded"
    PROVE  \/ ledger[r].state = "reserved" /\ ledger[r].stale
           \/ ledger[r].state = "reconcile_required" /\ ledger[r].desired = "refunded"
<1> DEFINE l == ledger[r]
<1>0. ledger \in [Requests -> LedgerRow]
  BY DEF PartsOK, RowsOK
<1>1. CASE RefundStale(r, l.kind, l.version)
  BY <1>1 DEF RefundStale, StaleFence
<1>2. CASE MarkStale(r, l.kind, l.version)
  BY <1>2 DEF MarkStale, StaleFence
<1>3. CASE Replay(r, l.version, l.desired, l.target)
  <2>1. PICK t : Transit(r, l.desired, l.target, None, t)
    BY <1>3 DEF Replay
  <2>2. ledger'[r].state = l.desired
    BY <2>1, TransitLeaves
  <2> QED
    BY <1>3, <2>2 DEF Replay, ReplayFence
<1>4. CASE MarkRetry(r, l.version, l.desired, l.target)
  BY <1>4, RetryLeaves
<1> QED
  BY <1>1, <1>2, <1>3, <1>4 DEF ReconcilerStep

\* A reconciler takes back what a request holds only if the request was not
\* heard of for the whole timeout or its refund was intended, whatever the
\* request, its poller and other reconcilers did since the list was read.
THEOREM ReconcilersSweepOrphans == ServiceSpec => OnlyOrphansAreSwept
<1> DEFINE Orphan(x) == \/ ledger[x].state = "reserved" /\ ledger[x].stale
                        \/ ledger[x].state = "reconcile_required"
                           /\ ledger[x].desired = "refunded"
<1>1. ASSUME ServiceInv, [ServiceNext]_allVars, NEW x \in Requests,
             ledger'[x].state = "refunded", ledger[x].state # "refunded",
             session'[x] = session[x], poll'[x] = poll[x]
      PROVE  Orphan(x)
  <2>0. PartsOK /\ PartsOK' /\ ServiceTypeOK /\ PollersKnow
    BY <1>1, ServiceNextOK DEF ServiceInv
  <2>1. ASSUME NEW r \in Requests, SessionStep(r) PROVE Orphan(x)
    <3>1. r # x
      BY <1>1, <2>1, SessionRefundsMove
    <3>2. RequestStep(r) \/ UNCHANGED vars
      BY <2>0, <2>1, SessionOnLedger
    <3> QED
      BY <1>1, <2>0, <3>1, <3>2, OtherLedgerRows DEF vars
  <2>2. ASSUME NEW r \in Requests, PollStep(r) PROVE Orphan(x)
    <3>1. r # x
      BY <1>1, <2>2, PollersMove
    <3>2. PollerStep(r) \/ RequestStep(r) \/ UNCHANGED vars
      BY <2>0, <2>2, PollOnLedger
    <3> QED
      BY <1>1, <2>0, <3>1, <3>2, OtherLedgerRows DEF vars
  <2>7. ASSUME NEW r \in Requests, FetchStep(r) PROVE Orphan(x)
    <3>1. UNCHANGED ledger
      BY <2>7, FetchKeepsLedger
    <3> QED
      BY <1>1, <3>1
  <2>3. ASSUME NEW r \in Requests, TimePasses(r) PROVE Orphan(x)
    <3>1. GrowStale(r) \/ FallDue(r)
      BY <2>3 DEF TimePasses
    <3>2. CASE r = x
      BY <1>1, <2>0, <3>1, <3>2, RetryLeaves
    <3>3. CASE r # x
      BY <1>1, <2>0, <3>1, <3>3, OtherLedgerRows
    <3> QED
      BY <3>2, <3>3
  <2>4. ASSUME NEW w \in Workers, WorkerStep(w) \/ WorkerDies(w) PROVE Orphan(x)
    <3>1. CASE UNCHANGED vars
      BY <1>1, <3>1 DEF vars
    <3>2. ASSUME NEW r \in Requests, ReconcilerStep(r) PROVE Orphan(x)
      <4>1. CASE r = x
        BY <1>1, <2>0, <3>2, <4>1, ReconcilerRefunds
      <4>2. CASE r # x
        BY <1>1, <2>0, <3>2, <4>2, OtherLedgerRows
      <4> QED
        BY <4>1, <4>2
    <3> QED
      BY <2>0, <2>4, <3>1, <3>2, WorkerOnLedger
  <2>5. CASE Administration
    <3>1. UNCHANGED ledger
      BY <2>0, <2>5, AdministrationEffect DEF NoEffect
    <3> QED
      BY <1>1, <3>1
  <2>6. CASE UNCHANGED allVars
    <3>1. UNCHANGED vars
      BY <2>6 DEF allVars
    <3> QED
      BY <1>1, <3>1 DEF vars
  <2> QED
    BY <1>1, <2>1, <2>2, <2>3, <2>4, <2>5, <2>6, <2>7 DEF ServiceNext
<1>2. ServiceInv /\ [ServiceNext]_allVars =>
        [\A r \in Requests :
            /\ ledger'[r].state = "refunded" /\ ledger[r].state # "refunded"
            /\ session'[r] = session[r] /\ poll'[r] = poll[r]
            => \/ ledger[r].state = "reserved" /\ ledger[r].stale
               \/ ledger[r].state = "reconcile_required"
                  /\ ledger[r].desired = "refunded"]_allVars
  BY <1>1
<1> QED
  BY <1>2, ServiceInvariant, PTL DEF ServiceSpec, OnlyOrphansAreSwept

-----------------------------------------------------------------------------
(* The settlement of a synchronous request stands.                          *)

\* The charge stands at what the session of r achieved or intended.
Stands(r) ==
    /\ ledger[r].state \in {"settled", "reconcile_required"}
    /\ ledger[r].desired = "settled" /\ ledger[r].target = session[r].quota
    /\ session[r].result = "settled" =>
         ledger[r].state = "settled" /\ ledger[r].applied = session[r].quota

\* Synchronous requests have no task, no poller and no fetch, and a session with a
\* settlement has ended: nobody is left to change the row but reconcilers.
SyncOK(r) ==
    /\ task[r].status = "none"
    /\ poll[r].pc = "idle" /\ fetch[r] = NoTask
    /\ session[r].result \in {"settled", "intended"} => session[r].pc = "ended" /\ Stands(r)

SyncInv == \A r \in Requests \ AsyncRequests : SyncOK(r)

\* What the session of a synchronous request does.
LEMMA SyncSession ==
    ASSUME ServiceInv, NEW r \in Requests \ AsyncRequests, SyncOK(r), SessionStep(r)
    PROVE  SyncOK(r)'
<1>0. /\ PartsOK /\ session \in [Requests -> Session] /\ task \in [Requests -> TaskRow]
      /\ session[r].chan \in Channels \cup {None} /\ None \in Channels \cup {None}
      /\ task[r].status = "none" /\ poll[r].pc = "idle" /\ fetch[r] = NoTask
      /\ r \in Requests /\ r \notin AsyncRequests /\ r \notin MidjourneyRequests
  BY MidjourneyAssumption DEF ServiceInv, ServiceTypeOK, PartsOK, TasksOK, SyncOK, Session
<1>1. session[r].pc # "ended" /\ UNCHANGED <<poll, fetch>>
  BY DEF SessionStep, Open, Extend, Prepare, SessionSettle, AcknowledgeTask, SettleTask,
         SettleMidjourney, MarkSettle, SessionRefund, MarkRefund, SessionDies, serviceVars
<1>2. session[r].result \notin {"settled", "intended"}
  BY <1>1 DEF SyncOK
<1>3. ASSUME NEW q, NEW c \in Channels \cup {None},
             Settle(r, q, c) \/ (SettleIdle(r, q) /\ UNCHANGED vars)
      PROVE  /\ ledger'[r].state = "settled" /\ ledger'[r].desired = "settled"
             /\ ledger'[r].target = q /\ ledger'[r].applied = q
             /\ task'[r].status = "none"
  <2>1. CASE Settle(r, q, c)
    BY <1>0, <2>1, TransitLeaves DEF Settle
  <2>2. CASE SettleIdle(r, q) /\ UNCHANGED vars
    <3>1. ledger[r].desired = "settled" /\ ledger[r].target = ledger[r].applied
      BY <1>0, <2>2 DEF PartsOK, RowsOK, RowInv, SettleIdle, AlreadySettled, Outcomes
    <3> QED
      BY <1>0, <2>2, <3>1 DEF vars, SettleIdle, AlreadySettled
  <2> QED
    BY <1>3, <2>1, <2>2
<1>4. ASSUME NEW q, Achieves(r, "settled", q), task'[r].status = "none",
             ledger'[r].state = "settled", ledger'[r].desired = "settled",
             ledger'[r].target = q, ledger'[r].applied = q
      PROVE  SyncOK(r)'
  <2>1. session'[r].pc = "ended" /\ session'[r].quota = q
    BY <1>0, <1>4 DEF Achieves, Session
  <2> QED
    BY <1>0, <1>1, <1>4, <2>1 DEF SyncOK, Stands
<1>5. ASSUME NEW pc, NEW q, NEW c, task'[r].status = "none",
             Goes(r, pc) \/ Fails(r, pc, q, c) \/ Achieves(r, "refunded", q) \/ UNCHANGED session
      PROVE  SyncOK(r)'
  <2>1. session'[r].result = session[r].result \/ session'[r].result = "refunded"
    <3>1. CASE Goes(r, pc)
      BY <1>0, <3>1 DEF Goes, Session
    <3>2. CASE Fails(r, pc, q, c)
      BY <1>0, <3>2 DEF Fails, Session
    <3>3. CASE Achieves(r, "refunded", q)
      BY <1>0, <3>3 DEF Achieves, Session
    <3> QED
      BY <1>5, <3>1, <3>2, <3>3
  <2> QED
    BY <1>0, <1>1, <1>2, <1>5, <2>1 DEF SyncOK
<1>6. ASSUME UNCHANGED vars PROVE task'[r].status = "none"
  BY <1>0, <1>6 DEF vars
<1>7. CASE Open(r)
  <2>1. UNCHANGED task /\ (Goes(r, "open") \/ Goes(r, "ended"))
    BY <1>7 DEF Open, Reserve, ReserveWallet, ReserveSubscription
  <2> QED
    BY <1>0, <1>5, <2>1
<1>8. CASE Extend(r)
  <2>1. UNCHANGED task /\ UNCHANGED session
    BY <1>8 DEF Extend, ReserveMore, serviceVars
  <2> QED
    BY <1>0, <1>5, <2>1
<1>9. ASSUME NEW q \in Quota, NEW c \in Channels \cup {None}, SessionSettle(r, q, c)
      PROVE  SyncOK(r)'
  <2>1. \/ /\ Settle(r, q, c) \/ (SettleIdle(r, q) /\ UNCHANGED vars)
           /\ Achieves(r, "settled", q) \/ Fails(r, "settle failed", q, c)
        \/ UNCHANGED vars /\ Fails(r, "settle failed", q, c)
    BY <1>9 DEF SessionSettle, Answered
  <2>2. CASE UNCHANGED vars /\ Fails(r, "settle failed", q, c)
    BY <1>5, <1>6, <2>2
  <2>3. CASE /\ Settle(r, q, c) \/ (SettleIdle(r, q) /\ UNCHANGED vars)
             /\ Achieves(r, "settled", q) \/ Fails(r, "settle failed", q, c)
    BY <1>3, <1>4, <1>5, <2>3
  <2> QED
    BY <2>1, <2>2, <2>3
<1>10. ASSUME NEW q \in Quota, AcknowledgeTask(r, q) PROVE SyncOK(r)'
  <2>1. /\ UNCHANGED vars
        /\ Fails(r, "acknowledged", q, None) \/ Fails(r, "settle failed", q, None)
    BY <1>0, <1>10 DEF AcknowledgeTask, Answered, Acknowledge
  <2> QED
    BY <1>5, <1>6, <2>1
<1>11. CASE SettleTask(r)
  <2> DEFINE q == session[r].quota
  <2>1. \/ /\ Settle(r, q, None) \/ (SettleIdle(r, q) /\ UNCHANGED vars)
           /\ Achieves(r, "settled", q) \/ Goes(r, "settle failed")
        \/ UNCHANGED vars /\ Goes(r, "settle failed")
    BY <1>11 DEF SettleTask, Answered
  <2>2. CASE UNCHANGED vars /\ Goes(r, "settle failed")
    BY <1>5, <1>6, <2>2
  <2>3. CASE /\ Settle(r, q, None) \/ (SettleIdle(r, q) /\ UNCHANGED vars)
             /\ Achieves(r, "settled", q) \/ Goes(r, "settle failed")
    BY <1>0, <1>3, <1>4, <1>5, <2>3
  <2> QED
    BY <2>1, <2>2, <2>3
<1>12. CASE MarkSettle(r)
  <2>1. \/ /\ MarkForReconcile(r, "settled", session[r].quota, session[r].chan)
           /\ session' = [session EXCEPT ![r].pc = "ended", ![r].result = "intended"]
        \/ UNCHANGED vars /\ Goes(r, "ended")
    BY <1>0, <1>12 DEF MarkSettle
  <2>2. CASE UNCHANGED vars /\ Goes(r, "ended")
    BY <1>5, <1>6, <2>2
  <2>3. CASE /\ MarkForReconcile(r, "settled", session[r].quota, session[r].chan)
             /\ session' = [session EXCEPT ![r].pc = "ended", ![r].result = "intended"]
    <3>1. /\ ledger'[r].state = "reconcile_required" /\ ledger'[r].desired = "settled"
          /\ ledger'[r].target = session[r].quota /\ UNCHANGED task
      BY <1>0, <2>3, MarkLeaves
    <3>2. /\ session'[r].pc = "ended" /\ session'[r].result = "intended"
          /\ session'[r].quota = session[r].quota
      BY <1>0, <2>3 DEF Session
    <3> QED
      BY <1>0, <1>1, <3>1, <3>2 DEF SyncOK, Stands
  <2> QED
    BY <2>1, <2>2, <2>3
<1>13. CASE SessionRefund(r)
  <2>1. /\ Refund(r) \/ UNCHANGED vars
        /\ Achieves(r, "refunded", 0) \/ Goes(r, "refund failed")
    BY <1>13 DEF SessionRefund, Answered
  <2>2. Refund(r) => task'[r].status = "none"
    BY <1>0, TransitLeaves DEF Refund, FailedIfNotStarted
  <2> QED
    BY <1>5, <1>6, <2>1, <2>2
<1>14. CASE MarkRefund(r)
  <2>1. MarkForReconcile(r, "refunded", 0, None) \/ UNCHANGED vars
    BY <1>14 DEF MarkRefund
  <2>2. task'[r].status = "none"
    BY <1>0, <1>6, <2>1, MarkLeaves
  <2> QED
    BY <1>5, <1>14, <2>2 DEF MarkRefund
<1>15. CASE SessionDies(r)
  BY <1>5, <1>6, <1>15 DEF SessionDies
<1>16. ~Prepare(r)
  BY <1>0 DEF Prepare
<1>17. \A q \in Quota, st \in Reported : ~SettleMidjourney(r, q, st)
  BY <1>0 DEF SettleMidjourney
<1> QED
  BY <1>7, <1>8, <1>9, <1>10, <1>11, <1>12, <1>13, <1>14, <1>15, <1>16, <1>17 DEF SessionStep

\* What a reconciler does to the row of a synchronous request.
LEMMA SyncReconciler ==
    ASSUME ServiceInv, NEW r \in Requests \ AsyncRequests, SyncOK(r), ReconcilerStep(r),
           UNCHANGED <<session, poll, fetch>>
    PROVE  SyncOK(r)'
<1> DEFINE l == ledger[r]
<1>0. /\ PartsOK /\ task[r].status = "none" /\ task \in [Requests -> TaskRow] /\ r \in Requests
      /\ None \in Channels \cup {None}
  BY DEF ServiceInv, PartsOK, TasksOK, SyncOK
<1>1. CASE RefundStale(r, l.kind, l.version) \/ MarkStale(r, l.kind, l.version)
  <2>1. l.state = "reserved"
    BY <1>1 DEF RefundStale, MarkStale, StaleFence
  <2>2. session[r].result \notin {"settled", "intended"}
    BY <2>1 DEF SyncOK, Stands
  <2>3. task'[r].status = "none"
    <3>1. CASE RefundStale(r, l.kind, l.version)
      <4>1. Transit(r, "refunded", 0, None, task[r])
        BY <1>0, <3>1 DEF RefundStale, Refund, FailedIfNotStarted
      <4> QED
        BY <1>0, <4>1, TransitLeaves
    <3>2. CASE MarkStale(r, l.kind, l.version)
      BY <1>0, <3>2 DEF MarkStale
    <3> QED
      BY <1>1, <3>1, <3>2
  <2> QED
    BY <2>2, <2>3 DEF SyncOK
<1>2. CASE Replay(r, l.version, l.desired, l.target)
  <2>1. l.state = "reconcile_required"
    BY <1>2 DEF Replay, ReplayFence
  <2>2. /\ ledger'[r].state = l.desired /\ ledger'[r].desired = l.desired
        /\ ledger'[r].target = l.target /\ ledger'[r].applied = l.target
        /\ task'[r].status = "none"
    BY <1>0, <1>2, TransitLeaves DEF Replay, FailedIfNotStarted
  <2> QED
    BY <2>1, <2>2 DEF SyncOK, Stands
<1>3. CASE MarkRetry(r, l.version, l.desired, l.target)
  <2>1. /\ ledger'[r].state = l.state /\ ledger'[r].desired = l.desired
        /\ ledger'[r].applied = l.applied /\ ledger'[r].target = l.target
        /\ UNCHANGED task
    BY <1>0, <1>3, RetryLeaves
  <2> QED
    BY <1>0, <2>1 DEF SyncOK, Stands
<1> QED
  BY <1>1, <1>2, <1>3 DEF ReconcilerStep

\* A process that works on another request leaves everything of r alone.
LEMMA SyncFrame ==
    ASSUME NEW r \in Requests, SyncOK(r), ledger'[r] = ledger[r], task'[r] = task[r],
           session'[r] = session[r], poll'[r] = poll[r], fetch'[r] = fetch[r]
    PROVE  SyncOK(r)'
  BY DEF SyncOK, Stands

\* The steps of one session or poller leave the others alone.
LEMMA OtherSessions ==
    ASSUME ServiceInv, NEW r \in Requests, NEW x \in Requests, x # r
    PROVE  /\ SessionStep(r) => session'[x] = session[x] /\ UNCHANGED <<poll, fetch>>
           /\ PollStep(r) => poll'[x] = poll[x] /\ UNCHANGED <<session, fetch>>
           /\ FetchStep(r) => fetch'[x] = fetch[x] /\ UNCHANGED <<session, poll>>
<1>0. session \in [Requests -> Session] /\ poll \in [Requests -> Poll]
  BY DEF ServiceInv, ServiceTypeOK
<1>1. ASSUME SessionStep(r) PROVE session'[x] = session[x] /\ UNCHANGED <<poll, fetch>>
  <2>1. UNCHANGED <<poll, fetch>>
    BY <1>1, SessionType DEF ServiceInv
  <2>2. ASSUME NEW pc, NEW q, NEW c, NEW result,
               \/ Goes(r, pc) \/ Achieves(r, result, q) \/ Fails(r, pc, q, c)
               \/ session' = [session EXCEPT ![r].pc = pc, ![r].result = result]
               \/ UNCHANGED session
        PROVE  session'[x] = session[x]
    BY <1>0, <2>2 DEF Goes, Achieves, Fails
  <2>3. CASE Open(r) \/ Extend(r) \/ Prepare(r)
    <3>1. Goes(r, "open") \/ Goes(r, "ended") \/ Goes(r, "bound") \/ UNCHANGED session
      BY <2>3 DEF Open, Extend, Prepare, Answered, serviceVars
    <3> QED
      BY <2>1, <2>2, <3>1
  <2>4. ASSUME NEW q \in Quota, NEW c \in Channels \cup {None}, SessionSettle(r, q, c)
        PROVE  session'[x] = session[x]
    <3>1. Achieves(r, "settled", q) \/ Fails(r, "settle failed", q, c)
      BY <2>4 DEF SessionSettle, Answered
    <3> QED
      BY <2>2, <3>1
  <2>5. ASSUME NEW q \in Quota, AcknowledgeTask(r, q) PROVE session'[x] = session[x]
    <3>1. Fails(r, "acknowledged", q, None) \/ Fails(r, "settle failed", q, None)
      BY <2>5 DEF AcknowledgeTask, Answered
    <3> QED
      BY <2>2, <3>1
  <2>6. ASSUME NEW q \in Quota, NEW st \in Reported, SettleMidjourney(r, q, st)
        PROVE  session'[x] = session[x]
    <3>1. Achieves(r, "settled", q) \/ Fails(r, "settle failed", q, None)
      BY <2>6 DEF SettleMidjourney, Answered
    <3> QED
      BY <2>2, <3>1
  <2>7. CASE SettleTask(r) \/ SessionRefund(r) \/ MarkRefund(r) \/ SessionDies(r)
    <3>1. \/ Achieves(r, "settled", session[r].quota) \/ Goes(r, "settle failed")
          \/ Achieves(r, "refunded", 0) \/ Goes(r, "refund failed") \/ Goes(r, "ended")
      BY <2>7 DEF SettleTask, SessionRefund, MarkRefund, SessionDies, Answered
    <3> QED
      BY <2>1, <2>2, <3>1
  <2>8. CASE MarkSettle(r)
    <3>1. PICK pc \in {"failed", "ended"} :
              \/ session' = [session EXCEPT ![r].pc = pc, ![r].result = "intended"]
              \/ Goes(r, pc)
      BY <2>8 DEF MarkSettle
    <3> QED
      BY <2>1, <2>2, <3>1
  <2> QED
    BY <1>1, <2>1, <2>3, <2>4, <2>5, <2>6, <2>7, <2>8 DEF SessionStep
<1>2. ASSUME PollStep(r) PROVE poll'[x] = poll[x] /\ UNCHANGED <<session, fetch>>
  <2>1. UNCHANGED <<session, fetch>>
    BY <1>2, PollType DEF ServiceInv
  <2>2. ASSUME NEW st \in {"SUCCESS", "FAILURE"}, NEW q \in Quota, PollFinish(r, st, q)
        PROVE  poll'[x] = poll[x]
    <3>1. \/ poll' = [poll EXCEPT ![r] = NoPoll]
          \/ poll' = [poll EXCEPT ![r].pc = "finish failed",
                                  ![r].outcome = OutcomeOf(st), ![r].quota = q]
      BY <2>2 DEF PollFinish, Answered
    <3> QED
      BY <1>0, <3>1
  <2>3. CASE LoadTask(r)
    BY <1>0, <2>1, <2>3 DEF LoadTask
  <2>4. CASE PollProgress(r) \/ PollMark(r) \/ PollBulkFail(r) \/ PollerDies(r)
    <3>1. poll' = [poll EXCEPT ![r] = NoPoll]
      BY <2>4 DEF PollProgress, PollMark, PollBulkFail, PollerDies
    <3> QED
      BY <1>0, <2>1, <3>1
  <2> QED
    BY <1>2, <2>1, <2>2, <2>3, <2>4 DEF PollStep
<1>3. ASSUME FetchStep(r) PROVE fetch'[x] = fetch[x] /\ UNCHANGED <<session, poll>>
  <2>1. fetch \in [Requests -> TaskRow]
    BY DEF ServiceInv, ServiceTypeOK
  <2>2. \E t : fetch' = [fetch EXCEPT ![r] = t]
    BY <1>3 DEF FetchStep, FetchLoad, FetchWrite
  <2> QED
    BY <1>3, <2>1, <2>2, FetchType DEF ServiceInv
<1> QED
  BY <1>1, <1>2, <1>3

\* No poller and no fetch works on a synchronous request.
LEMMA SyncNotPolled ==
    ASSUME NEW r \in Requests, SyncOK(r)
    PROVE  ~PollStep(r) /\ ~FetchStep(r)
<1>1. ~PollStep(r)
  BY DEF SyncOK, PollStep, LoadTask, PollProgress, PollFinish, PollMark, PollBulkFail,
         PollerDies, Unfinished
<1>2. ~FetchStep(r)
  BY DEF SyncOK, FetchStep, FetchLoad, FetchWrite
<1> QED
  BY <1>1, <1>2

\* Every step of the service keeps SyncInv.
LEMMA SyncNext == ServiceInv /\ SyncInv /\ [ServiceNext]_allVars => SyncInv'
<1> SUFFICES ASSUME ServiceInv, SyncInv, [ServiceNext]_allVars,
                    NEW x \in Requests \ AsyncRequests
             PROVE  SyncOK(x)'
  BY DEF SyncInv
<1>0. PartsOK /\ PartsOK' /\ ServiceTypeOK /\ PollersKnow /\ SyncOK(x) /\ x \in Requests
  BY ServiceNextOK DEF ServiceInv, SyncInv
<1>1. ASSUME NEW r \in Requests, SessionStep(r) PROVE SyncOK(x)'
  <2>1. CASE r = x
    BY <1>0, <1>1, <2>1, SyncSession
  <2>2. CASE r # x
    <3>1. RequestStep(r) \/ UNCHANGED vars
      BY <1>0, <1>1, SessionOnLedger
    <3>2. ledger'[x] = ledger[x] /\ task'[x] = task[x]
      BY <1>0, <2>2, <3>1, OtherLedgerRows, OtherTaskRows DEF vars
    <3>3. session'[x] = session[x] /\ poll'[x] = poll[x] /\ fetch'[x] = fetch[x]
      BY <1>0, <1>1, <2>2, OtherSessions
    <3> QED
      BY <1>0, <3>2, <3>3, SyncFrame
  <2> QED
    BY <2>1, <2>2
<1>2. ASSUME NEW r \in Requests, PollStep(r) \/ FetchStep(r) PROVE SyncOK(x)'
  <2>1. r # x
    BY <1>0, <1>2, SyncNotPolled
  <2>2. PollerStep(r) \/ RequestStep(r) \/ UNCHANGED vars
    BY <1>0, <1>2, PollOnLedger, FetchOnLedger
  <2>3. ledger'[x] = ledger[x] /\ task'[x] = task[x]
    BY <1>0, <2>1, <2>2, OtherLedgerRows, OtherTaskRows DEF vars
  <2>4. session'[x] = session[x] /\ poll'[x] = poll[x] /\ fetch'[x] = fetch[x]
    BY <1>0, <1>2, <2>1, OtherSessions
  <2> QED
    BY <1>0, <2>3, <2>4, SyncFrame
<1>3. ASSUME NEW r \in Requests, TimePasses(r) PROVE SyncOK(x)'
  <2>1. (GrowStale(r) \/ FallDue(r)) /\ UNCHANGED <<session, poll, fetch>>
    BY <1>3 DEF TimePasses, serviceVars
  <2>2. CASE r = x
    <3>1. /\ ledger'[x].state = ledger[x].state /\ ledger'[x].desired = ledger[x].desired
          /\ ledger'[x].applied = ledger[x].applied /\ ledger'[x].target = ledger[x].target
          /\ UNCHANGED task
      BY <1>0, <2>1, <2>2, RetryLeaves
    <3> QED
      BY <1>0, <2>1, <3>1 DEF SyncOK, Stands
  <2>3. CASE r # x
    <3>1. ledger'[x] = ledger[x] /\ task'[x] = task[x]
      BY <1>0, <2>1, <2>3, OtherLedgerRows, OtherTaskRows
    <3> QED
      BY <1>0, <2>1, <3>1, SyncFrame
  <2> QED
    BY <2>2, <2>3
<1>4. ASSUME NEW w \in Workers, WorkerStep(w) \/ WorkerDies(w) PROVE SyncOK(x)'
  <2>1. UNCHANGED <<session, poll, fetch>>
    BY <1>0, <1>4, WorkerType
  <2>2. CASE UNCHANGED vars
    BY <1>0, <2>1, <2>2, SyncFrame DEF vars
  <2>3. ASSUME NEW r \in Requests, ReconcilerStep(r) PROVE SyncOK(x)'
    <3>1. CASE r = x
      BY <1>0, <2>1, <2>3, <3>1, SyncReconciler
    <3>2. CASE r # x
      <4>1. ledger'[x] = ledger[x] /\ task'[x] = task[x]
        BY <1>0, <2>3, <3>2, OtherLedgerRows, OtherTaskRows
      <4> QED
        BY <1>0, <2>1, <4>1, SyncFrame
    <3> QED
      BY <3>1, <3>2
  <2> QED
    BY <1>0, <1>4, <2>2, <2>3, WorkerOnLedger
<1>5. CASE Administration /\ UNCHANGED serviceVars
  <2>1. UNCHANGED ledger
    BY <1>0, <1>5, AdministrationEffect DEF NoEffect
  <2>2. UNCHANGED task
    BY <1>5 DEF Administration, Credit, EditToken, DeleteToken, DeleteChannel, PeriodEnds,
                ResetSubscription, EndSubscription, CleanRecord
  <2>3. UNCHANGED <<session, poll, fetch>>
    BY <1>5 DEF serviceVars
  <2> QED
    BY <1>0, <2>1, <2>2, <2>3, SyncFrame
<1>6. CASE UNCHANGED allVars
  <2>1. UNCHANGED <<ledger, task, session, poll, fetch>>
    BY <1>6 DEF allVars, vars, serviceVars
  <2> QED
    BY <1>0, <2>1, SyncFrame
<1> QED
  BY <1>1, <1>2, <1>3, <1>4, <1>5, <1>6 DEF ServiceNext

\* The settlement of a synchronous request, achieved or left to the
\* reconciler, is never taken back: not by a sweep that began before it, not
\* by the replay of an older intent, not by a retry of either.
THEOREM SettlementsStand == ServiceSpec => []SettlementStands
<1>1. ServiceInit => SyncInv
  <2> SUFFICES ASSUME ServiceInit, NEW r \in Requests \ AsyncRequests PROVE SyncOK(r)
    BY DEF SyncInv
  <2>1. task[r].status = "none"
    BY DEF ServiceInit, Init, NoTask
  <2>2. poll[r].pc = "idle" /\ fetch[r] = NoTask /\ session[r].result = "none"
    BY DEF ServiceInit, NoPoll
  <2> QED
    BY <2>1, <2>2 DEF SyncOK
<1>2. SyncInv => SettlementStands
  BY DEF SyncInv, SyncOK, Stands, SettlementStands
<1> QED
  BY <1>1, <1>2, SyncNext, ServiceInvariant, PTL DEF ServiceSpec

-----------------------------------------------------------------------------
(* Only the poller takes back the price of an accepted task.                *)

\* The task of r is accepted, or a process that holds a copy of its row
\* believes so.
Accepted(r) == task[r].upstream \/ poll[r].upstream \/ fetch[r].upstream

\* The reservation of r is over, and its session is past calling Refund.
Committed(r) ==
    /\ ledger[r].state \notin {"absent", "reserved"}
    /\ session[r].pc \in {"acknowledged", "settle failed", "ended"}

ChargedOK(r) == session[r].pc # "failed" /\ (Accepted(r) => Committed(r))

PlainTasks == AsyncRequests \ MidjourneyRequests

ChargedInv == \A r \in PlainTasks : ChargedOK(r)

\* A row that is no longer a reservation does not become one again.
LEMMA ReservedOnce ==
    ASSUME PartsOK, NEW r \in Requests, ledger[r].state \notin {"absent", "reserved"},
           \/ RequestStep(r) \/ ReconcilerStep(r) \/ PollerStep(r)
           \/ GrowStale(r) \/ FallDue(r)
    PROVE  ledger'[r].state \notin {"absent", "reserved"}
<1> DEFINE l == ledger[r]
<1>0. /\ ledger \in [Requests -> LedgerRow] /\ RowInv(l) /\ None \in Channels \cup {None}
  BY DEF PartsOK, RowsOK
<1>1. ASSUME NEW o \in Outcomes, NEW q, NEW c \in Channels \cup {None}, NEW t,
             Transit(r, o, q, c, t)
      PROVE  ledger'[r].state \notin {"absent", "reserved"}
  BY <1>1, TransitLeaves DEF Outcomes
<1>2. CASE RequestStep(r)
  <2>1. ASSUME NEW m, NEW src, NEW t, NEW c, NEW q, Reserve(r, m, src, t, c, q)
        PROVE  FALSE
    BY <2>1 DEF Reserve, ReserveWallet, ReserveSubscription
  <2>2. ASSUME NEW q, ReserveMore(r, q) PROVE FALSE
    BY <2>2 DEF ReserveMore
  <2>3. ~BindTask(r)
    BY DEF BindTask
  <2>4. ASSUME NEW q \in Quota, NEW c \in Channels \cup {None}, Settle(r, q, c)
        PROVE  ledger'[r].state \notin {"absent", "reserved"}
    BY <1>1, <2>4 DEF Settle, Outcomes
  <2>5. ASSUME NEW q \in Quota, NEW st, SettleWithTask(r, q, st)
        PROVE  ledger'[r].state \notin {"absent", "reserved"}
    BY <1>0, <1>1, <2>5 DEF SettleWithTask, Outcomes
  <2>6. CASE Refund(r)
    BY <1>0, <1>1, <2>6 DEF Refund, Outcomes
  <2>7. ASSUME NEW q \in Quota, Acknowledge(r, q)
        PROVE  ledger'[r].state \notin {"absent", "reserved"}
    <3>1. CASE UNCHANGED ledger
      BY <3>1
    <3>2. CASE ledger' = [ledger EXCEPT ![r] =
                   [ToReconcile(l, "settled", q, TRUE) EXCEPT !.kind = "task"]]
      BY <1>0, <3>2 DEF ToReconcile, LedgerRow
    <3> QED
      BY <2>7, <3>1, <3>2 DEF Acknowledge
  <2>8. ASSUME NEW o, NEW q, NEW c \in Channels \cup {None}, MarkForReconcile(r, o, q, c)
        PROVE  ledger'[r].state \notin {"absent", "reserved"}
    BY <2>8, MarkLeaves
  <2> QED
    BY <1>2, <2>1, <2>2, <2>3, <2>4, <2>5, <2>6, <2>7, <2>8 DEF RequestStep
<1>3. CASE ReconcilerStep(r)
  <2>1. ~RefundStale(r, l.kind, l.version) /\ ~MarkStale(r, l.kind, l.version)
    BY DEF RefundStale, MarkStale, StaleFence
  <2>2. ASSUME Replay(r, l.version, l.desired, l.target)
        PROVE  ledger'[r].state \notin {"absent", "reserved"}
    <3>1. l.desired \in Outcomes
      BY <1>0, <2>2 DEF Replay, ReplayFence, RowInv, Outcomes
    <3>2. \E t : Transit(r, l.desired, l.target, None, t)
      BY <2>2 DEF Replay
    <3> QED
      BY <1>0, <1>1, <3>1, <3>2
  <2>3. ASSUME MarkRetry(r, l.version, l.desired, l.target)
        PROVE  ledger'[r].state \notin {"absent", "reserved"}
    BY <2>3, RetryLeaves
  <2> QED
    BY <1>3, <2>1, <2>2, <2>3 DEF ReconcilerStep
<1>4. CASE PollerStep(r)
  <2>1. ASSUME NEW from, NEW st, NEW up, NEW q, TaskFinish(r, from, st, up, q)
        PROVE  ledger'[r].state \notin {"absent", "reserved"}
    <3>1. OutcomeOf(st) \in Outcomes
      BY DEF OutcomeOf, Outcomes
    <3>2. UNCHANGED ledger \/ \E t : Transit(r, OutcomeOf(st), q, None, t)
      BY <2>1 DEF TaskFinish
    <3> QED
      BY <1>0, <1>1, <3>1, <3>2
  <2>2. ASSUME NEW from, NEW st, NEW up, UpdateWithStatus(r, from, st, up)
        PROVE  UNCHANGED ledger
    BY <2>2 DEF UpdateWithStatus
  <2>3. TaskBulkFail(r) => UNCHANGED ledger
    BY DEF TaskBulkFail
  <2> QED
    BY <1>4, <2>1, <2>2, <2>3 DEF PollerStep
<1>5. CASE GrowStale(r) \/ FallDue(r)
  BY <1>5, RetryLeaves
<1> QED
  BY <1>2, <1>3, <1>4, <1>5

\* A step that accepts nothing and leaves the session alone keeps ChargedOK.
LEMMA ChargedFrame ==
    ASSUME NEW r \in Requests, ChargedOK(r), session'[r] = session[r],
           Accepted(r)' => Accepted(r),
           ledger[r].state \notin {"absent", "reserved"} =>
               ledger'[r].state \notin {"absent", "reserved"}
    PROVE  ChargedOK(r)'
  BY DEF ChargedOK, Committed

\* What the session of a task does: it takes no accepted task back, and the
\* transaction that accepts one ends the reservation.
LEMMA ChargedSession ==
    ASSUME ServiceInv, NEW r \in Requests, r \in PlainTasks, ChargedOK(r), SessionStep(r)
    PROVE  /\ ChargedOK(r)'
           /\ task[r].upstream /\ ledger[r].desired # "refunded" =>
                ledger'[r].desired # "refunded"
<1>0. /\ PartsOK /\ session \in [Requests -> Session] /\ task \in [Requests -> TaskRow]
      /\ ServiceTypeOK /\ ledger \in [Requests -> LedgerRow]
      /\ session[r].chan \in Channels \cup {None} /\ None \in Channels \cup {None}
      /\ r \in AsyncRequests /\ r \notin MidjourneyRequests
  BY DEF ServiceInv, ServiceTypeOK, PartsOK, TasksOK, RowsOK, Session, PlainTasks
<1>1. UNCHANGED <<poll, fetch>>
  BY <1>0, SessionType
<1>2. RequestStep(r) \/ UNCHANGED vars
  BY <1>0, SessionOnLedger
<1>3. ledger[r].state \notin {"absent", "reserved"} =>
        ledger'[r].state \notin {"absent", "reserved"}
  BY <1>0, <1>2, ReservedOnce DEF vars
<1>4. ASSUME NEW pc, NEW q, NEW c, NEW result,
             \/ Goes(r, pc)
             \/ Achieves(r, result, q) /\ pc = "ended"
             \/ Fails(r, pc, q, c)
             \/ session' = [session EXCEPT ![r].pc = pc, ![r].result = result]
      PROVE  session'[r].pc = pc
  BY <1>0, <1>4, ZenonT(60) DEF Goes, Achieves, Fails, Session
<1>5. CASE Committed(r)
  <2>1. SettleTask(r) \/ MarkSettle(r) \/ SessionDies(r)
    BY <1>5 DEF Committed, SessionStep, Open, Extend, Prepare, SessionSettle,
                AcknowledgeTask, SettleMidjourney, SessionRefund, MarkRefund
  <2>2. session'[r].pc \in {"settle failed", "ended"}
    <3>1. CASE SettleTask(r)
      <4>1. Achieves(r, "settled", session[r].quota) \/ Goes(r, "settle failed")
        BY <3>1 DEF SettleTask, Answered
      <4> QED
        BY <1>4, <4>1
    <3>2. CASE MarkSettle(r)
      <4>1. \/ session' = [session EXCEPT ![r].pc = "ended", ![r].result = "intended"]
            \/ Goes(r, "ended")
        BY <1>0, <3>2 DEF MarkSettle
      <4> QED
        BY <1>4, <4>1
    <3>3. CASE SessionDies(r)
      BY <1>4, <3>3 DEF SessionDies
    <3> QED
      BY <2>1, <3>1, <3>2, <3>3
  <2>3. \/ Settle(r, session[r].quota, None)
        \/ MarkForReconcile(r, "settled", session[r].quota, session[r].chan)
        \/ UNCHANGED vars
    BY <2>1 DEF SettleTask, MarkSettle, SessionDies, Answered
  <2>4. ledger'[r].desired # "refunded" \/ ledger'[r] = ledger[r]
    BY <1>0, <2>3, TransitLeaves, MarkLeaves DEF Settle, vars
  <2> QED
    BY <1>3, <1>5, <2>2, <2>4 DEF ChargedOK, Committed
<1>6. CASE ~Committed(r)
  <2>0. /\ task[r].upstream = FALSE /\ ~poll[r].upstream /\ ~fetch[r].upstream
    BY <1>0, <1>6 DEF ChargedOK, Accepted, TaskRow
  <2>1. ASSUME NEW q \in Quota, AcknowledgeTask(r, q) PROVE ChargedOK(r)'
    <3>1. Fails(r, "acknowledged", q, None) \/ Fails(r, "settle failed", q, None)
      BY <2>1 DEF AcknowledgeTask, Answered
    <3>2. session'[r].pc \in {"acknowledged", "settle failed"}
      BY <1>4, <3>1
    <3>3. Acknowledge(r, q) \/ UNCHANGED vars
      BY <2>1 DEF AcknowledgeTask, Answered
    <3>4. CASE UNCHANGED vars
      BY <1>1, <2>0, <3>2, <3>4 DEF ChargedOK, Accepted, vars
    <3>5. CASE Acknowledge(r, q)
      <4>1. ledger'[r].state \notin {"absent", "reserved"}
        <5>1. CASE AlreadySettled(ledger[r], q) /\ UNCHANGED ledger
          BY <5>1 DEF AlreadySettled
        <5>2. CASE ledger' = [ledger EXCEPT ![r] =
                   [ToReconcile(ledger[r], "settled", q, TRUE) EXCEPT !.kind = "task"]]
          BY <1>0, <5>2 DEF ToReconcile, LedgerRow
        <5> QED
          BY <3>5, <5>1, <5>2 DEF Acknowledge
      <4> QED
        BY <3>2, <4>1 DEF ChargedOK, Committed
    <3> QED
      BY <3>3, <3>4, <3>5
  <2>2. ASSUME \A q \in Quota : ~AcknowledgeTask(r, q) PROVE ChargedOK(r)'
    <3>1. task'[r].upstream = FALSE
      <4>1. CASE Open(r) \/ Extend(r)
        <5>1. UNCHANGED task
          <6>1. CASE Open(r)
            BY <6>1 DEF Open, Reserve, ReserveWallet, ReserveSubscription
          <6>2. CASE Extend(r)
            BY <6>2 DEF Extend, ReserveMore
          <6> QED
            BY <4>1, <6>1, <6>2
        <5> QED
          BY <2>0, <5>1
      <4>2. CASE Prepare(r)
        BY <1>0, <2>0, <4>2 DEF Prepare, Answered, BindTask, vars
      <4>3. CASE SettleTask(r) \/ MarkSettle(r) \/ MarkRefund(r) \/ SessionDies(r)
        <5>1. \/ Transit(r, "settled", session[r].quota, None, task[r])
              \/ \E o, q, c : MarkForReconcile(r, o, q, c)
              \/ UNCHANGED vars
          BY <4>3 DEF SettleTask, Settle, MarkSettle, MarkRefund, SessionDies, Answered
        <5> QED
          BY <1>0, <2>0, <5>1 DEF Transit, MarkForReconcile, vars
      <4>4. CASE SessionRefund(r)
        <5>1. Transit(r, "refunded", 0, None, FailedIfNotStarted(task[r])) \/ UNCHANGED vars
          BY <4>4 DEF SessionRefund, Refund, Answered
        <5>2. FailedIfNotStarted(task[r]).upstream = FALSE
          BY <1>0, <2>0 DEF FailedIfNotStarted, TaskRow
        <5> QED
          BY <1>0, <2>0, <5>1, <5>2 DEF Transit, vars
      <4> QED
        BY <1>0, <2>2, <4>1, <4>2, <4>3, <4>4 DEF SessionStep, SessionSettle, SettleMidjourney
    <3>2. session'[r].pc # "failed"
      <4>1. CASE Extend(r)
        BY <4>1 DEF Extend, serviceVars, ChargedOK
      <4>2. \/ Extend(r) \/ UNCHANGED session
            \/ \E pc \in {"open", "ended", "bound", "settle failed", "refund failed"} :
                  \/ Goes(r, pc)
                  \/ session' = [session EXCEPT ![r].pc = pc, ![r].result = "intended"]
            \/ \E q, result : Achieves(r, result, q)
        BY <1>0, <2>2 DEF SessionStep, Open, Prepare, SessionSettle, SettleTask,
               SettleMidjourney, MarkSettle, SessionRefund, MarkRefund, SessionDies, Answered
      <4> QED
        BY <1>4, <4>1, <4>2 DEF ChargedOK
    <3> QED
      BY <1>1, <2>0, <3>1, <3>2 DEF ChargedOK, Accepted
  <2> QED
    BY <2>0, <2>1, <2>2
<1> QED
  BY <1>5, <1>6

\* A poller writes back what it loaded and accepts nothing.
LEMMA ChargedPoll ==
    ASSUME ServiceInv, NEW r \in Requests, ChargedOK(r), PollStep(r)
    PROVE  ChargedOK(r)'
<1>0. /\ PartsOK /\ ServiceTypeOK /\ PollersKnow /\ poll \in [Requests -> Poll]
      /\ task \in [Requests -> TaskRow]
  BY DEF ServiceInv, ServiceTypeOK, PartsOK, TasksOK
<1>1. UNCHANGED <<session, fetch>>
  BY <1>0, PollType
<1>2. PollerStep(r) \/ RequestStep(r) \/ UNCHANGED vars
  BY <1>0, PollOnLedger
<1>3. ledger[r].state \notin {"absent", "reserved"} =>
        ledger'[r].state \notin {"absent", "reserved"}
  BY <1>0, <1>2, ReservedOnce DEF vars
<1>4. CASE LoadTask(r)
  <2>1. UNCHANGED task /\ poll'[r].upstream = task[r].upstream
    BY <1>0, <1>4 DEF LoadTask, NoPoll, vars
  <2> QED
    BY <1>1, <1>3, <2>1, ChargedFrame DEF Accepted
<1>5. ASSUME poll'[r] = NoPoll \/ poll'[r].upstream = poll[r].upstream,
             task'[r].upstream = task[r].upstream \/ task'[r].upstream = poll[r].upstream
      PROVE  ChargedOK(r)'
  <2>1. NoPoll.upstream = FALSE
    BY DEF NoPoll
  <2> QED
    BY <1>1, <1>3, <1>5, <2>1, ChargedFrame DEF Accepted
<1>6. CASE PollProgress(r) \/ PollMark(r) \/ PollBulkFail(r) \/ PollerDies(r)
  <2>1. poll'[r] = NoPoll
    BY <1>0, <1>6 DEF PollProgress, PollMark, PollBulkFail, PollerDies
  <2>2. \/ UpdateWithStatus(r, poll[r].status, "RUNNING", poll[r].upstream)
        \/ MarkForReconcile(r, poll[r].outcome, poll[r].quota, None)
        \/ TaskBulkFail(r) \/ UNCHANGED vars
    BY <1>6 DEF PollProgress, PollMark, PollBulkFail, PollerDies
  <2>3. task'[r].upstream = task[r].upstream \/ task'[r].upstream = poll[r].upstream
    <3>1. CASE UpdateWithStatus(r, poll[r].status, "RUNNING", poll[r].upstream)
      BY <1>0, <3>1 DEF UpdateWithStatus
    <3>2. CASE TaskBulkFail(r)
      <4>1. task'[r] = [task[r] EXCEPT !.status = "FAILURE"] /\ task[r] \in TaskRow
        BY <1>0, <3>2 DEF TaskBulkFail
      <4> QED
        BY <4>1 DEF TaskRow
    <3>3. CASE MarkForReconcile(r, poll[r].outcome, poll[r].quota, None) \/ UNCHANGED vars
      BY <3>3 DEF MarkForReconcile, vars
    <3> QED
      BY <2>2, <3>1, <3>2, <3>3
  <2> QED
    BY <1>5, <2>1, <2>3
<1>7. ASSUME NEW st \in {"SUCCESS", "FAILURE"}, NEW q \in Quota, PollFinish(r, st, q)
      PROVE  ChargedOK(r)'
  <2>1. \/ poll' = [poll EXCEPT ![r] = NoPoll]
        \/ poll' = [poll EXCEPT ![r].pc = "finish failed",
                                ![r].outcome = OutcomeOf(st), ![r].quota = q]
    BY <1>7 DEF PollFinish, Answered
  <2>2. poll'[r] = NoPoll \/ poll'[r].upstream = poll[r].upstream
    <3>1. CASE poll' = [poll EXCEPT ![r] = NoPoll]
      BY <1>0, <3>1
    <3>2. CASE poll' = [poll EXCEPT ![r].pc = "finish failed",
                                    ![r].outcome = OutcomeOf(st), ![r].quota = q]
      <4>1. /\ poll[r] \in Poll
            /\ poll'[r] = [poll[r] EXCEPT !.pc = "finish failed",
                                          !.outcome = OutcomeOf(st), !.quota = q]
        BY <1>0, <3>2
      <4> QED
        BY <4>1 DEF Poll
    <3> QED
      BY <2>1, <3>1, <3>2
  <2>3. TaskFinish(r, poll[r].status, st, poll[r].upstream, q) \/ UNCHANGED vars
    BY <1>7 DEF PollFinish, Answered
  <2>4. task'[r].upstream = task[r].upstream \/ task'[r].upstream = poll[r].upstream
    BY <1>0, <2>3 DEF TaskFinish, Transit, vars
  <2> QED
    BY <1>5, <2>2, <2>4
<1> QED
  BY <1>4, <1>6, <1>7 DEF PollStep

\* Neither does a fetch.
LEMMA ChargedFetch ==
    ASSUME ServiceInv, NEW r \in Requests, ChargedOK(r), FetchStep(r)
    PROVE  ChargedOK(r)'
<1>0. /\ PartsOK /\ ServiceTypeOK /\ fetch \in [Requests -> TaskRow]
      /\ task \in [Requests -> TaskRow]
  BY DEF ServiceInv, ServiceTypeOK, PartsOK, TasksOK
<1>1. UNCHANGED <<session, poll, ledger>>
  BY <1>0, FetchType, FetchKeepsLedger
<1>2. CASE FetchLoad(r)
  <2>1. fetch'[r] = task[r] /\ UNCHANGED task
    BY <1>0, <1>2 DEF FetchLoad, vars
  <2> QED
    BY <1>1, <2>1, ChargedFrame DEF Accepted
<1>3. ASSUME NEW st \in Reported, FetchWrite(r, st) PROVE ChargedOK(r)'
  <2>1. fetch'[r].upstream = FALSE
    BY <1>0, <1>3 DEF FetchWrite, NoTask
  <2>2. task'[r].upstream = fetch[r].upstream \/ UNCHANGED task
    BY <1>0, <1>3 DEF FetchWrite, UpdateWithStatus, vars
  <2> QED
    BY <1>1, <2>1, <2>2, ChargedFrame DEF Accepted
<1> QED
  BY <1>2, <1>3 DEF FetchStep

\* A reconciler has nothing to sweep of a row whose reservation is over, and
\* replays the intent that stands.
LEMMA ChargedReconciler ==
    ASSUME ServiceInv, NEW r \in Requests, ChargedOK(r), ReconcilerStep(r),
           UNCHANGED <<session, poll, fetch>>
    PROVE  /\ ChargedOK(r)'
           /\ task[r].upstream /\ ledger[r].desired # "refunded" =>
                ledger'[r].desired # "refunded"
<1> DEFINE l == ledger[r]
<1>0. /\ PartsOK /\ task \in [Requests -> TaskRow] /\ None \in Channels \cup {None}
  BY DEF ServiceInv, PartsOK, TasksOK
<1>1. ledger[r].state \notin {"absent", "reserved"} =>
        ledger'[r].state \notin {"absent", "reserved"}
  BY <1>0, ReservedOnce
<1>2. task'[r].upstream = task[r].upstream
  <2>1. \/ \E o, q : Transit(r, o, q, None, task[r])
        \/ \E o, q : Transit(r, o, q, None, FailedIfNotStarted(task[r]))
        \/ UNCHANGED task
    BY DEF ReconcilerStep, RefundStale, Refund, MarkStale, Replay, MarkRetry
  <2>2. FailedIfNotStarted(task[r]).upstream = task[r].upstream
    BY <1>0 DEF FailedIfNotStarted, TaskRow
  <2> QED
    BY <1>0, <2>1, <2>2 DEF Transit
<1>3. ASSUME task[r].upstream, l.desired # "refunded" PROVE ledger'[r].desired # "refunded"
  <2>1. l.state # "reserved"
    BY <1>3 DEF ChargedOK, Accepted, Committed
  <2>2. ~RefundStale(r, l.kind, l.version) /\ ~MarkStale(r, l.kind, l.version)
    BY <2>1 DEF RefundStale, MarkStale, StaleFence
  <2>3. CASE Replay(r, l.version, l.desired, l.target)
    <3>1. \E t : Transit(r, l.desired, l.target, None, t)
      BY <2>3 DEF Replay
    <3> QED
      BY <1>0, <1>3, <3>1, TransitLeaves
  <2>4. CASE MarkRetry(r, l.version, l.desired, l.target)
    BY <1>0, <1>3, <2>4, RetryLeaves
  <2> QED
    BY <2>2, <2>3, <2>4 DEF ReconcilerStep
<1> QED
  BY <1>1, <1>2, <1>3, ChargedFrame DEF Accepted

\* A process that works on another request leaves everything of r alone.
LEMMA ChargedOther ==
    ASSUME NEW r \in Requests, ChargedOK(r), ledger'[r] = ledger[r], task'[r] = task[r],
           session'[r] = session[r], poll'[r] = poll[r], fetch'[r] = fetch[r]
    PROVE  ChargedOK(r)'
  BY DEF ChargedOK, Accepted, Committed

\* Every step of the service keeps ChargedOK, and if it turns the charge of an
\* accepted task into a refund it moves the poller.
LEMMA ChargedNext ==
    ASSUME ServiceInv, ChargedInv, [ServiceNext]_allVars, NEW x \in PlainTasks
    PROVE  /\ ChargedOK(x)'
           /\ /\ task[x].upstream
              /\ ledger[x].desired # "refunded" /\ ledger'[x].desired = "refunded"
              => poll'[x] # poll[x]
<1> DEFINE Good == /\ ChargedOK(x)'
                   /\ /\ task[x].upstream
                      /\ ledger[x].desired # "refunded" /\ ledger'[x].desired = "refunded"
                      => poll'[x] # poll[x]
<1>0. /\ PartsOK /\ PartsOK' /\ ServiceTypeOK /\ PollersKnow /\ ChargedOK(x) /\ x \in Requests
  BY ServiceNextOK, AsyncAssumption DEF ServiceInv, ChargedInv, PlainTasks
<1>1. ASSUME ledger'[x] = ledger[x], task'[x] = task[x], session'[x] = session[x],
             poll'[x] = poll[x], fetch'[x] = fetch[x]
      PROVE  Good
  BY <1>0, <1>1, ChargedOther
<1>2. ASSUME NEW r \in Requests, r # x, SessionStep(r) \/ PollStep(r) \/ FetchStep(r)
      PROVE  Good
  <2>1. RequestStep(r) \/ PollerStep(r) \/ UNCHANGED vars
    BY <1>0, <1>2, SessionOnLedger, PollOnLedger, FetchOnLedger
  <2>2. ledger'[x] = ledger[x] /\ task'[x] = task[x]
    BY <1>0, <1>2, <2>1, OtherLedgerRows, OtherTaskRows DEF vars
  <2>3. session'[x] = session[x] /\ poll'[x] = poll[x] /\ fetch'[x] = fetch[x]
    BY <1>0, <1>2, OtherSessions
  <2> QED
    BY <1>1, <2>2, <2>3
<1>3. ASSUME SessionStep(x) PROVE Good
  BY <1>0, <1>3, ChargedSession
<1>4. ASSUME PollStep(x) PROVE Good
  BY <1>0, <1>4, ChargedPoll, PollersMove
<1>5. ASSUME FetchStep(x) PROVE Good
  <2>1. UNCHANGED ledger
    BY <1>0, <1>5, FetchKeepsLedger
  <2> QED
    BY <1>0, <1>5, <2>1, ChargedFetch
<1>6. ASSUME NEW r \in Requests, TimePasses(r) PROVE Good
  <2>1. (GrowStale(r) \/ FallDue(r)) /\ UNCHANGED <<session, poll, fetch>>
    BY <1>6 DEF TimePasses, serviceVars
  <2>2. CASE r = x
    <3>1. /\ ledger'[x].state = ledger[x].state /\ ledger'[x].desired = ledger[x].desired
          /\ UNCHANGED task
      BY <1>0, <2>1, <2>2, RetryLeaves
    <3> QED
      BY <1>0, <2>1, <3>1, ChargedFrame DEF Accepted
  <2>3. CASE r # x
    <3>1. ledger'[x] = ledger[x] /\ task'[x] = task[x]
      BY <1>0, <2>1, <2>3, OtherLedgerRows, OtherTaskRows
    <3> QED
      BY <1>1, <2>1, <3>1
  <2> QED
    BY <2>2, <2>3
<1>7. ASSUME NEW w \in Workers, WorkerStep(w) \/ WorkerDies(w) PROVE Good
  <2>1. UNCHANGED <<session, poll, fetch>>
    BY <1>0, <1>7, WorkerType
  <2>2. CASE UNCHANGED vars
    BY <1>1, <2>1, <2>2 DEF vars
  <2>3. ASSUME NEW r \in Requests, ReconcilerStep(r) PROVE Good
    <3>1. CASE r = x
      BY <1>0, <2>1, <2>3, <3>1, ChargedReconciler
    <3>2. CASE r # x
      <4>1. ledger'[x] = ledger[x] /\ task'[x] = task[x]
        BY <1>0, <2>3, <3>2, OtherLedgerRows, OtherTaskRows
      <4> QED
        BY <1>1, <2>1, <4>1
    <3> QED
      BY <3>1, <3>2
  <2> QED
    BY <1>0, <1>7, <2>2, <2>3, WorkerOnLedger
<1>8. CASE Administration /\ UNCHANGED serviceVars
  <2>1. UNCHANGED ledger
    BY <1>0, <1>8, AdministrationEffect DEF NoEffect
  <2>2. UNCHANGED task
    BY <1>8 DEF Administration, Credit, EditToken, DeleteToken, DeleteChannel, PeriodEnds,
                ResetSubscription, EndSubscription, CleanRecord
  <2> QED
    BY <1>1, <1>8, <2>1, <2>2 DEF serviceVars
<1>9. CASE UNCHANGED allVars
  BY <1>1, <1>9 DEF allVars, vars, serviceVars
<1> QED
  BY <1>2, <1>3, <1>4, <1>5, <1>6, <1>7, <1>8, <1>9 DEF ServiceNext

\* Once the upstream has accepted a task, only its poller turns the charge into
\* a refund: not the session, whatever answers it lost, not a sweep, and not the
\* replay of an intent.
THEOREM AcceptedTasksAreCharged == ServiceSpec => AcceptedTaskIsCharged
<1>1. ServiceInit => ChargedInv
  <2> SUFFICES ASSUME ServiceInit, NEW r \in PlainTasks PROVE ChargedOK(r)
    BY DEF ChargedInv
  <2>1. r \in Requests
    BY AsyncAssumption DEF PlainTasks
  <2>2. ~task[r].upstream
    BY <2>1 DEF ServiceInit, Init, NoTask
  <2>3. ~poll[r].upstream /\ ~fetch[r].upstream /\ session[r].pc = "idle"
    BY <2>1 DEF ServiceInit, NoPoll, NoTask
  <2> QED
    BY <2>2, <2>3 DEF ChargedOK, Accepted
<1>2. ServiceInv /\ ChargedInv /\ [ServiceNext]_allVars => ChargedInv'
  BY ChargedNext DEF ChargedInv
<1>3. ServiceInv /\ ChargedInv /\ [ServiceNext]_allVars =>
        [\A r \in AsyncRequests \ MidjourneyRequests :
            /\ task[r].upstream
            /\ ledger[r].desired # "refunded" /\ ledger'[r].desired = "refunded"
            => poll'[r] # poll[r]]_allVars
  BY ChargedNext DEF PlainTasks
<1> QED
  BY <1>1, <1>2, <1>3, ServiceInvariant, PTL DEF ServiceSpec, AcceptedTaskIsCharged

=============================================================================
