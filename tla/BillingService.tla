--------------------------- MODULE BillingService ---------------------------
(***************************************************************************)
(* The processes that drive the billing ledger: the BillingSession of a    *)
(* request (service/billing_session.go), the reconcilers of the replicas   *)
(* (service/billing_reconciler.go) and the task pollers                    *)
(* (service/task_billing.go, service/task_polling.go).  Each keeps what it *)
(* read or was told in memory between two database transactions, and the   *)
(* others run in between.                                                  *)
(*                                                                         *)
(* A transaction answers its caller, or it fails: because the ledger       *)
(* rejects it, because the database rolls it back, or because the answer   *)
(* of a committed transaction is lost.  The last two, and the death of a   *)
(* process, are faults; MaxFaults bounds them.                             *)
(*                                                                         *)
(* The lists of the reconciler are not cut at the batch size, and its last *)
(* phase, the outbox, is BillingOutbox.                                    *)
(***************************************************************************)
EXTENDS BillingLedger

CONSTANTS
    MidjourneyRequests, \* the asynchronous requests of the midjourney handlers
    Workers,            \* reconcilers, one per replica
    MaxFaults           \* bound: faults of the database and of processes

ASSUME MidjourneyAssumption == MidjourneyRequests \subseteq AsyncRequests
ASSUME FaultsAssumption == MaxFaults \in Nat

VARIABLES
    session, \* by request: where its BillingSession stands
    worker,  \* reconcilers
    poll,    \* by request: the poller that is working on its task
    fetch,   \* by request: the row a user's fetch of its task works on
    faults   \* faults so far

serviceVars == <<session, worker, poll, fetch, faults>>
allVars == <<vars, serviceVars>>

-----------------------------------------------------------------------------
\* "failed": the handler is about to call Refund.  result is what the session
\* knows it has achieved, quota and chan what it asked for.
Session ==
    [pc : {"idle", "open", "bound", "acknowledged", "settle failed",
           "refund failed", "failed", "ended"},
     quota : Quota, chan : Channels \cup {None},
     result : {"none", "settled", "intended", "refunded"}]

\* What a reconciler keeps of a listed row.
Snapshot ==
    [req : Requests, kind : {"request", "task"}, version : 0..MaxVersion,
     desired : Outcomes \cup {"none"}, target : Quota]

\* batch: the rest of the list; failed: the row whose transaction has just
\* failed and is to be marked.
Worker ==
    [phase : {"idle", "task", "request", "reconcile"},
     batch : SUBSET Snapshot, failed : SUBSET Snapshot]

\* The copy of a task row in a poller, and the outcome it failed to commit.
Poll ==
    [pc : {"idle", "loaded", "finish failed"}, status : TaskStatuses,
     upstream : BOOLEAN, outcome : Outcomes \cup {"none"}, quota : Quota]

\* What the processes remember is of its type; a remembered version is one
\* that a row can have.
ServiceTypeOK ==
    /\ session \in [Requests -> Session]
    /\ worker \in [Workers -> Worker]
    /\ poll \in [Requests -> Poll]
    /\ fetch \in [Requests -> TaskRow]
    /\ faults \in 0..MaxFaults

Idle == [phase |-> "idle", batch |-> {}, failed |-> {}]

NoPoll == [pc |-> "idle", status |-> "none", upstream |-> FALSE,
           outcome |-> "none", quota |-> 0]

ServiceInit ==
    /\ Init
    /\ session = [r \in Requests |->
           [pc |-> "idle", quota |-> 0, chan |-> None, result |-> "none"]]
    /\ worker = [w \in Workers |-> Idle]
    /\ poll = [r \in Requests |-> NoPoll]
    /\ fetch = [r \in Requests |-> NoTask]
    /\ faults = 0

Fault == faults < MaxFaults /\ faults' = faults + 1

-----------------------------------------------------------------------------
(* How a transaction ends for its caller.                                   *)

\* tx is the transaction; it changes nothing and succeeds if idle, it is
\* rejected if rejects; ok and failed are what the caller does next.
Answered(tx, idle, rejects, ok, failed) ==
    \/ tx /\ ok /\ UNCHANGED faults
    \/ tx /\ failed /\ Fault
    \/ idle /\ ok /\ UNCHANGED <<vars, faults>>
    \/ rejects /\ failed /\ UNCHANGED <<vars, faults>>
    \/ failed /\ Fault /\ UNCHANGED vars

\* SettleBillingLedger and its variants.
SettleIdle(r, q) == AlreadySettled(ledger[r], q)
SettleRejects(r, q, c) == ~SettleIdle(r, q) /\ ~Commits(r, "settled", q, c)

\* RefundBillingLedger.
RefundIdle(r) == ledger[r].state = "refunded"
RefundRejects(r) == ~RefundIdle(r) /\ ~Commits(r, "refunded", 0, None)

-----------------------------------------------------------------------------
(* The session of a request.  Its mutex is held from a failed transaction   *)
(* to the mark that follows, so its steps are those of one process.         *)

Goes(r, pc) == session' = [session EXCEPT ![r].pc = pc]

Achieves(r, result, q) ==
    session' = [session EXCEPT ![r].pc = "ended", ![r].quota = q, ![r].result = result]

Fails(r, pc, q, c) ==
    session' = [session EXCEPT ![r].pc = pc, ![r].quota = q, ![r].chan = c]

\* preConsume.  Asynchronous handlers set ForcePreConsume, a trusted session
\* reserves nothing.  A caller that gets an error has no session.
Open(r) ==
    /\ session[r].pc = "idle"
    /\ \E m \in Modes, src \in Sources, t \in Tokens \cup {None},
          c \in Channels \cup {None}, q \in Quota : Reserve(r, m, src, t, c, q)
    /\ \/ Goes(r, "open") /\ UNCHANGED faults
       \/ Goes(r, "ended") /\ Fault
    /\ UNCHANGED <<worker, poll, fetch>>

\* BillingSession.Reserve; an error leaves the session as it is.
Extend(r) ==
    /\ session[r].pc = "open"
    /\ \E q \in Quota : ReserveMore(r, q)
    /\ UNCHANGED serviceVars

\* prepareTask.  A task bound by an earlier call whose answer was lost is
\* found again.
Prepare(r) ==
    /\ session[r].pc = "open"
    /\ r \in AsyncRequests \ MidjourneyRequests
    /\ Answered(BindTask(r),
                ledger[r].state = "reserved" /\ task[r].status # "none",
                ledger[r].state # "reserved",
                Goes(r, "bound"), UNCHANGED session)
    /\ UNCHANGED <<worker, poll, fetch>>

\* BillingSession.Settle, with the channel that produced the response.
SessionSettle(r, q, c) ==
    /\ session[r].pc = "open" /\ r \notin AsyncRequests
    /\ Answered(Settle(r, q, c), SettleIdle(r, q), SettleRejects(r, q, c),
                Achieves(r, "settled", q), Fails(r, "settle failed", q, c))
    /\ UNCHANGED <<worker, poll, fetch>>

\* settleWithTask, first transaction: the upstream has accepted the task.
AcknowledgeTask(r, q) ==
    /\ session[r].pc = "bound"
    /\ Answered(Acknowledge(r, q), FALSE,
                ledger[r].state = "refunded" \/ task[r].status = "none",
                Fails(r, "acknowledged", q, None), Fails(r, "settle failed", q, None))
    /\ UNCHANGED <<worker, poll, fetch>>

\* settleWithTask, second transaction.
SettleTask(r) ==
    LET q == session[r].quota IN
    /\ session[r].pc = "acknowledged"
    /\ Answered(Settle(r, q, None), SettleIdle(r, q), SettleRejects(r, q, None),
                Achieves(r, "settled", q), Goes(r, "settle failed"))
    /\ UNCHANGED <<worker, poll, fetch>>

\* settleWithMidjourney: the handler inserts its row with the settlement.  Of a
\* task the upstream knows already it takes over the status, FAILURE too.
SettleMidjourney(r, q, status) ==
    /\ session[r].pc = "open" /\ r \in MidjourneyRequests
    /\ Answered(SettleWithTask(r, q, status), FALSE, SettleRejects(r, q, None),
                Achieves(r, "settled", q), Fails(r, "settle failed", q, None))
    /\ UNCHANGED <<worker, poll, fetch>>

\* After its error the session leaves the settlement to the reconciler.  The
\* error of this transaction is dropped: the settlement is then lost.  Of the
\* callers only the midjourney handlers go on to call Refund.
MarkSettle(r) ==
    LET s == session[r]
        l == ledger[r]
        next == IF r \in MidjourneyRequests THEN "failed" ELSE "ended"
        marks == /\ l.state # "refunded" /\ ~AlreadySettled(l, s.quota)
                 /\ ChannelAssignable(l, s.chan)
    IN
    /\ s.pc = "settle failed"
    /\ \/ /\ MarkForReconcile(r, "settled", s.quota, s.chan)
          /\ session' = [session EXCEPT ![r].pc = next, ![r].result = "intended"]
          /\ UNCHANGED faults
       \/ ~marks /\ Goes(r, next) /\ UNCHANGED <<vars, faults>>
       \/ Goes(r, next) /\ Fault /\ UNCHANGED vars
    /\ UNCHANGED <<worker, poll, fetch>>

\* BillingSession.Refund: the request failed.
SessionRefund(r) ==
    /\ session[r].pc \in {"open", "bound", "failed"}
    /\ Answered(Refund(r), RefundIdle(r), RefundRejects(r),
                Achieves(r, "refunded", 0), Goes(r, "refund failed"))
    /\ UNCHANGED <<worker, poll, fetch>>

MarkRefund(r) ==
    /\ session[r].pc = "refund failed"
    /\ \/ MarkForReconcile(r, "refunded", 0, None) /\ UNCHANGED faults
       \/ ledger[r].state = "refunded" /\ UNCHANGED <<vars, faults>>
       \/ Fault /\ UNCHANGED vars
    /\ Goes(r, "ended")
    /\ UNCHANGED <<worker, poll, fetch>>

\* The process of an open session dies.
SessionDies(r) ==
    /\ session[r].pc \notin {"idle", "ended"}
    /\ Fault
    /\ Goes(r, "ended")
    /\ UNCHANGED <<vars, worker, poll, fetch>>

SessionStep(r) ==
    \/ Open(r) \/ Extend(r) \/ Prepare(r)
    \/ \E q \in Quota, c \in Channels \cup {None} : SessionSettle(r, q, c)
    \/ \E q \in Quota : AcknowledgeTask(r, q)
    \/ SettleTask(r)
    \/ \E q \in Quota, st \in Reported : SettleMidjourney(r, q, st)
    \/ MarkSettle(r) \/ SessionRefund(r) \/ MarkRefund(r)
    \/ SessionDies(r)

-----------------------------------------------------------------------------
(* A pass of the reconciler (ReconcileBillingOnce): three lists, each read  *)
(* when its phase begins and worked off row by row.                         *)

SnapshotOf(r) ==
    [req |-> r, kind |-> ledger[r].kind, version |-> ledger[r].version,
     desired |-> ledger[r].desired, target |-> ledger[r].target]

\* ListStaleReservedBillingLedgersContext and
\* ListBillingLedgersForReconcileContext.
ListStale(kind) ==
    {SnapshotOf(r) : r \in {x \in Requests :
        /\ ledger[x].kind = kind /\ ledger[x].state = "reserved"
        /\ ledger[x].stale}}

ListDue ==
    {SnapshotOf(r) : r \in {x \in Requests :
        ledger[x].state = "reconcile_required" /\ ledger[x].due}}

\* A pass that only replays intents.
NextPhaseNoSweep == [idle |-> "reconcile", task |-> "request",
                     request |-> "reconcile", reconcile |-> "idle"]

NextPhase == [idle |-> "task", task |-> "request", request |-> "reconcile",
              reconcile |-> "idle"]

Listed(phase) ==
    CASE phase \in {"task", "request"} -> ListStale(phase)
      [] phase = "reconcile" -> ListDue
      [] OTHER -> {}

\* A list that cannot be read ends the pass.
BeginPhase(w) ==
    LET phase == NextPhase[worker[w].phase] IN
    /\ worker[w].batch = {}
    /\ \/ /\ worker' = [worker EXCEPT ![w] =
                 [phase |-> phase, batch |-> Listed(phase), failed |-> {}]]
          /\ UNCHANGED faults
       \/ worker' = [worker EXCEPT ![w] = Idle] /\ Fault
    /\ UNCHANGED <<vars, session, poll, fetch>>

\* The row is done, whatever came of it.
Passes(w, s) ==
    worker' = [worker EXCEPT ![w].batch = @ \ {s}, ![w].failed = {}]

IsMarked(w, s) == worker' = [worker EXCEPT ![w].failed = {s}]

\* The refund of an orphaned reservation.
Sweep(w, s) ==
    LET fence == StaleFence(s.req, s.kind, s.version) IN
    /\ worker[w].phase \in {"task", "request"}
    /\ s \in worker[w].batch /\ worker[w].failed = {}
    /\ Answered(RefundStale(s.req, s.kind, s.version), ~fence,
                fence /\ RefundRejects(s.req), Passes(w, s), IsMarked(w, s))
    /\ UNCHANGED <<session, poll, fetch>>

\* Its error is dropped.  The version bound stands for a failing mark.
SweepFailed(w, s) ==
    /\ worker[w].phase \in {"task", "request"} /\ s \in worker[w].failed
    /\ Passes(w, s)
    /\ \/ MarkStale(s.req, s.kind, s.version) /\ UNCHANGED faults
       \/ /\ ~StaleFence(s.req, s.kind, s.version) \/ ledger[s.req].version = MaxVersion
          /\ UNCHANGED <<vars, faults>>
       \/ Fault /\ UNCHANGED vars
    /\ UNCHANGED <<session, poll, fetch>>

ReplayRejects(s) ==
    /\ ReplayFence(s.req, s.version, s.desired, s.target)
    /\ \/ ~Commits(s.req, s.desired, s.target, None)
       \/ ledger[s.req].version = MaxVersion

\* The replay of an intent.
Reconcile(w, s) ==
    /\ worker[w].phase = "reconcile"
    /\ s \in worker[w].batch /\ worker[w].failed = {}
    /\ Answered(Replay(s.req, s.version, s.desired, s.target),
                ~ReplayFence(s.req, s.version, s.desired, s.target),
                ReplayRejects(s), Passes(w, s), IsMarked(w, s))
    /\ UNCHANGED <<session, poll, fetch>>

ReconcileFailed(w, s) ==
    /\ worker[w].phase = "reconcile" /\ s \in worker[w].failed
    /\ Passes(w, s)
    /\ \/ MarkRetry(s.req, s.version, s.desired, s.target) /\ UNCHANGED faults
       \/ /\ \/ ~ReplayFence(s.req, s.version, s.desired, s.target)
             \/ ledger[s.req].version = MaxVersion
          /\ UNCHANGED <<vars, faults>>
       \/ Fault /\ UNCHANGED vars
    /\ UNCHANGED <<session, poll, fetch>>

WorkerDies(w) ==
    /\ worker[w] # Idle
    /\ Fault
    /\ worker' = [worker EXCEPT ![w] = Idle]
    /\ UNCHANGED <<vars, session, poll, fetch>>

WorkerStep(w) ==
    \/ BeginPhase(w)
    \/ \E s \in worker[w].batch :
        Sweep(w, s) \/ SweepFailed(w, s) \/ Reconcile(w, s) \/ ReconcileFailed(w, s)

-----------------------------------------------------------------------------
(* The poller of a task: it loads the row, asks the upstream, and writes    *)
(* the copy back.  A row without an upstream id is polled under its own id, *)
(* under which no upstream reports success.                                 *)

LoadTask(r) ==
    /\ poll[r].pc = "idle" /\ Unfinished(task[r].status)
    /\ poll' = [poll EXCEPT ![r] =
           [NoPoll EXCEPT !.pc = "loaded", !.status = task[r].status,
                          !.upstream = task[r].upstream]]
    /\ UNCHANGED <<vars, session, worker, fetch, faults>>

\* UpdateWithStatus.
PollProgress(r) ==
    /\ poll[r].pc = "loaded"
    /\ \/ UpdateWithStatus(r, poll[r].status, "RUNNING", poll[r].upstream)
       \/ task[r].status # poll[r].status /\ UNCHANGED vars
    /\ poll' = [poll EXCEPT ![r] = NoPoll]
    /\ UNCHANGED <<session, worker, fetch, faults>>

\* FinalizeTaskBillingTransition and FinalizeMidjourneyBillingTransition;
\* sweepTimedOutTasks comes here with FAILURE.  Midjourney tasks and most
\* others keep their quota, so q is the quota or an adjusted one.
PollFinish(r, status, q) ==
    LET p == poll[r]
        outcome == OutcomeOf(status)
    IN
    /\ p.pc = "loaded"
    /\ outcome = "refunded" => q = 0
    /\ outcome = "settled" => p.upstream
    /\ Answered(TaskFinish(r, p.status, status, p.upstream, q),
                task[r].status # p.status,
                /\ task[r].status = p.status
                /\ ~OutcomeReached(ledger[r], outcome, q)
                /\ ~Commits(r, outcome, q, None),
                poll' = [poll EXCEPT ![r] = NoPoll],
                poll' = [poll EXCEPT ![r].pc = "finish failed",
                                     ![r].outcome = outcome, ![r].quota = q])
    /\ UNCHANGED <<session, worker, fetch>>

PollMark(r) ==
    LET p == poll[r] IN
    /\ p.pc = "finish failed"
    /\ poll' = [poll EXCEPT ![r] = NoPoll]
    /\ \/ MarkForReconcile(r, p.outcome, p.quota, None) /\ UNCHANGED faults
       \/ OutcomeReached(ledger[r], p.outcome, p.quota) /\ UNCHANGED <<vars, faults>>
       \/ Fault /\ UNCHANGED vars
    /\ UNCHANGED <<session, worker, fetch>>

\* TaskBulkUpdateByID, on a list loaded before: CacheGetChannel fails, because
\* the channel is deleted, is not cached yet, or the database is not read.
PollBulkFail(r) ==
    /\ poll[r].pc = "loaded"
    /\ TaskBulkFail(r)
    /\ poll' = [poll EXCEPT ![r] = NoPoll]
    /\ UNCHANGED <<session, worker, fetch, faults>>

PollerDies(r) ==
    /\ poll[r].pc # "idle"
    /\ Fault
    /\ poll' = [poll EXCEPT ![r] = NoPoll]
    /\ UNCHANGED <<vars, session, worker, fetch>>

PollStep(r) ==
    \/ LoadTask(r) \/ PollProgress(r)
    \/ \E st \in {"SUCCESS", "FAILURE"}, q \in Quota : PollFinish(r, st, q)
    \/ PollMark(r) \/ PollBulkFail(r) \/ PollerDies(r)

-----------------------------------------------------------------------------
(* tryRealtimeFetch: a user who fetches a task of Gemini or Vertex asks the  *)
(* upstream himself.  A row is fetched whatever its status, by one user at a *)
(* time.                                                                    *)

FetchLoad(r) ==
    /\ r \in AsyncRequests \ MidjourneyRequests
    /\ fetch[r] = NoTask /\ task[r].status # "none"
    /\ fetch' = [fetch EXCEPT ![r] = task[r]]
    /\ UNCHANGED <<vars, session, worker, poll, faults>>

\* The answer is written with UpdateWithStatus and never billed; an error of
\* any step ends the fetch.  An upstream does not take back a success.
FetchWrite(r, status) ==
    LET t == fetch[r] IN
    /\ t # NoTask
    /\ status = "SUCCESS" => t.upstream
    /\ t.status = "SUCCESS" => status = "SUCCESS"
    /\ UpdateWithStatus(r, t.status, status, t.upstream) \/ UNCHANGED vars
    /\ fetch' = [fetch EXCEPT ![r] = NoTask]
    /\ UNCHANGED <<session, worker, poll, faults>>

FetchStep(r) == FetchLoad(r) \/ \E st \in Reported : FetchWrite(r, st)

-----------------------------------------------------------------------------
TimePasses(r) == (GrowStale(r) \/ FallDue(r)) /\ UNCHANGED serviceVars

ServiceNext ==
    \/ \E r \in Requests : SessionStep(r) \/ PollStep(r) \/ FetchStep(r) \/ TimePasses(r)
    \/ \E w \in Workers : WorkerStep(w) \/ WorkerDies(w)
    \/ Administration /\ UNCHANGED serviceVars

ServiceSpec == ServiceInit /\ [][ServiceNext]_allVars

\* The reconcilers run on a ticker and time passes; nothing is assumed of
\* sessions, pollers and administrators.
Fairness ==
    /\ \A w \in Workers : WF_allVars(WorkerStep(w))
    /\ \A r \in Requests : WF_allVars(TimePasses(r))

FairServiceSpec == ServiceSpec /\ Fairness

-----------------------------------------------------------------------------
(* Properties.                                                              *)

\* Once the session of a synchronous request has settled it, or has left the
\* settlement to the reconciler, the charge stands at that quota: no sweep
\* begun before and no replay of an older intent takes it back.
SettlementStands ==
    \A r \in Requests \ AsyncRequests :
        session[r].result \in {"settled", "intended"} =>
            /\ ledger[r].state \in {"settled", "reconcile_required"}
            /\ ledger[r].desired = "settled" /\ ledger[r].target = session[r].quota
            /\ session[r].result = "settled" =>
                 ledger[r].state = "settled" /\ ledger[r].applied = session[r].quota

\* A reconciler takes back what a request holds only if the request was not
\* heard of for the whole timeout, or a refund was intended: not a request
\* that was extended, bound or acknowledged after the reconciler's list was
\* read.
OnlyOrphansAreSwept ==
    [][\A r \in Requests :
        /\ ledger'[r].state = "refunded" /\ ledger[r].state # "refunded"
        /\ session'[r] = session[r] /\ poll'[r] = poll[r]
        => \/ ledger[r].state = "reserved" /\ ledger[r].stale
           \/ ledger[r].state = "reconcile_required"
              /\ ledger[r].desired = "refunded"]_allVars

\* A settlement whose price the user cannot pay.
Unpayable(r) ==
    LET l == ledger[r] IN
    /\ l.state = "reconcile_required" /\ l.desired = "settled"
    /\ ~BalancesMove(l, l.target - l.applied)

\* No reservation and no intent is forgotten: whatever sessions, pollers and
\* reconcilers die, a row is settled or refunded in the end, unless it waits
\* for a user who cannot pay.
Recovers ==
    \A r \in Requests :
        ledger[r].state \in {"reserved", "reconcile_required"} ~>
            ledger[r].state \in Outcomes \/ Unpayable(r)

\* Once the upstream has accepted a task, only its poller turns the charge into
\* a refund: no sweep of the reservation, no refund intended before and replayed
\* late, and no session whose answer was lost takes back the price of a task that
\* may still be delivered.  (The midjourney handlers do: they refund a settlement
\* whose answer they lost.)
AcceptedTaskIsCharged ==
    [][\A r \in AsyncRequests \ MidjourneyRequests :
        /\ task[r].upstream
        /\ ledger[r].desired # "refunded" /\ ledger'[r].desired = "refunded"
        => poll'[r] # poll[r]]_allVars

\* The charge of a failed task is returned sooner or later.
FailuresAreReturned ==
    \A r \in Requests :
        task[r].status = "FAILURE" ~>
            ledger[r].applied = 0 \/ task[r].status # "FAILURE"

\* The quota at which the poller finished a task is its price: nobody charges
\* another one afterwards.
PriceIsFinal ==
    [][\A r \in Requests :
        task[r].status = "SUCCESS" /\ task'[r].status = "SUCCESS" /\ ledger[r].state = "settled"
            => ledger'[r].applied = ledger[r].applied]_allVars

\* What docs/ARCHITECTURE.md promises: failed requests and orphaned
\* reservations are recovered by the reconciler.
RefundsRecover ==
    \A r \in Requests :
        (ledger[r].state = "reconcile_required" /\ ledger[r].desired = "refunded") ~>
            ledger[r].state \in Outcomes
=============================================================================
