---------------------------- MODULE BillingLedger ----------------------------
(***************************************************************************)
(* The durable billing ledger (model/billing_ledger.go) and the rows its   *)
(* transactions touch: the wallet of a user, API tokens, subscriptions,    *)
(* usage counters, asynchronous task rows and the outbox.  Every exported  *)
(* function of the source is one database transaction that locks the       *)
(* ledger row, so every action below is one committed transaction; a       *)
(* transaction that returns an error rolls back and is a stuttering step.  *)
(*                                                                         *)
(* Here the transactions are called by anybody in any order, so whatever   *)
(* holds of this module holds of every caller.  BillingService puts the    *)
(* real callers (sessions, reconcilers) on top.                            *)
(*                                                                         *)
(* Abstractions: one user; a row's seconds (updated_at, next_retry_at) are *)
(* the two booleans `stale' (old enough for the orphan sweep) and `due'    *)
(* (its retry time has come); columns no code reads (reserved and actual   *)
(* quota, attempts, last error, the component states, the copy of state    *)
(* and version in task rows) are left out, and so is the quota of a task   *)
(* row: a poller may finish a task at any quota.                           *)
(***************************************************************************)
EXTENDS Integers, FiniteSets, Functions

CONSTANTS
    Requests,      \* request ids; billing_ledgers.request_id is unique
    AsyncRequests, \* the requests that submit an asynchronous task
    Tokens,        \* API tokens
    Subs,          \* the user's subscriptions, in the order of their end time
    Channels,      \* upstream channels
    None,          \* no token (playground), no channel, no subscription
    Modes,         \* the BILLING_LEDGER_MODE values in use
    Sources,       \* the funding sources in use
    MaxQuota,      \* bound: quota of one request
    MaxVersion,    \* bound: version of a row
    MaxWallet,     \* bound: what is ever credited to the wallet
    InitialWallet, \* the user's quota at the start
    InitialRemain, \* remain_quota of every token at the start
    SubTotal,      \* amount_total of every subscription; 0 is unlimited
    Admin          \* the administrative acts that happen, of AdminActs

AdminActs == {"credit", "edit token", "delete token", "delete channel",
              "reset subscription", "end subscription", "clean records"}

\* request_id is a varchar(64), so there are finitely many.
ASSUME RequestsAssumption == IsFiniteSet(Requests)
ASSUME AsyncAssumption == AsyncRequests \subseteq Requests
ASSUME AdminAssumption == Admin \subseteq AdminActs
ASSUME ModesAssumption == Modes \subseteq {"off", "shadow", "enforce"}
ASSUME SourcesAssumption == Sources \subseteq {"wallet", "subscription"}
ASSUME SubsAssumption == Subs \subseteq Nat
ASSUME NoneAssumption == None \notin Tokens \cup Subs \cup Channels
ASSUME BoundsAssumption ==
    /\ MaxQuota \in Nat /\ MaxVersion \in Nat \ {0}
    /\ MaxWallet \in Nat /\ InitialWallet \in 0..MaxWallet
    /\ InitialRemain \in Nat /\ SubTotal \in Nat

VARIABLES
    ledger,   \* billing_ledgers by request id
    wallet,   \* users.quota
    credited, \* history: everything ever put into the wallet
    token,    \* tokens
    sub,      \* user_subscriptions
    stats,    \* users.used_quota and users.request_count, the enforce part
    channel,  \* channels
    task,     \* the task or midjourney row with this billing_ledger_id
    record,   \* subscription_pre_consume_records.status
    outbox    \* event keys of billing_outboxes

balances == <<wallet, credited, token, sub>>
vars == <<ledger, balances, stats, channel, task, record, outbox>>

-----------------------------------------------------------------------------
Quota == 0..MaxQuota
Outcomes == {"settled", "refunded"}

\* The transient states "settling" and "compensating" are never committed.
States == {"absent", "reserved", "settled", "refunded", "reconcile_required"}

LedgerRow ==
    [kind : {"request", "task"}, mode : Modes \cup {"off"}, state : States,
     desired : Outcomes \cup {"none"}, source : Sources \cup {"wallet"},
     token : Tokens \cup {None}, chan : Channels \cup {None},
     sub : Subs \cup {None}, applied : Quota, target : Quota,
     counted : Quota, requestCounted : BOOLEAN, version : 0..MaxVersion,
     due : BOOLEAN, stale : BOOLEAN]

TokenRow == [remain : Nat, used : Nat, unlimited : BOOLEAN, deleted : BOOLEAN]
\* waived is what period resets have set back, which the database does not keep.
SubRow ==
    [used : Nat, waived : Nat, status : {"active", "expired", "deleted"},
     resetDue : BOOLEAN]
ChannelRow == [used : Nat, deleted : BOOLEAN]
StatsRow == [used : Nat, requests : Nat]

\* "RUNNING" stands for every status of a row that is still being polled,
\* but NOT_START.
TaskStatuses == {"none", "NOT_START", "RUNNING", "SUCCESS", "FAILURE"}
\* What an upstream says of a task.
Reported == {"RUNNING", "SUCCESS", "FAILURE"}
TaskRow == [status : TaskStatuses, upstream : BOOLEAN]

EventTypes == {"reserved", "task_bound", "settled", "refunded"}
Event == [req : Requests, type : EventTypes, version : 0..MaxVersion]

TypeOK ==
    /\ ledger \in [Requests -> LedgerRow]
    /\ wallet \in Nat
    /\ credited \in 0..MaxWallet
    /\ token \in [Tokens -> TokenRow]
    /\ sub \in [Subs -> SubRow]
    /\ stats \in StatsRow
    /\ channel \in [Channels -> ChannelRow]
    /\ task \in [Requests -> TaskRow]
    /\ record \in [Requests -> {"none", "consumed", "refunded"}]
    /\ outbox \subseteq Event

NoRow ==
    [kind |-> "request", mode |-> "off", state |-> "absent", desired |-> "none",
     source |-> "wallet", token |-> None, chan |-> None, sub |-> None,
     applied |-> 0, target |-> 0, counted |-> 0, requestCounted |-> FALSE,
     version |-> 0, due |-> FALSE, stale |-> FALSE]

NoTask == [status |-> "none", upstream |-> FALSE]

Init ==
    /\ ledger = [r \in Requests |-> NoRow]
    /\ wallet = InitialWallet
    /\ credited = InitialWallet
    /\ token = [t \in Tokens |-> [remain |-> InitialRemain, used |-> 0,
                                  unlimited |-> FALSE, deleted |-> FALSE]]
    /\ sub = [s \in Subs |-> [used |-> 0, waived |-> 0, status |-> "active",
                              resetDue |-> FALSE]]
    /\ stats = [used |-> 0, requests |-> 0]
    /\ channel = [c \in Channels |-> [used |-> 0, deleted |-> FALSE]]
    /\ task = [r \in Requests |-> NoTask]
    /\ record = [r \in Requests |-> "none"]
    /\ outbox = {}

-----------------------------------------------------------------------------
(* The balance legs of a transaction.  A positive delta charges, a negative *)
(* one returns.                                                             *)

\* A return that is not checked against what is used.
FundingMovesBelowZero(l, d) ==
    d # 0 =>
        IF l.source = "wallet" THEN wallet >= d
        ELSE /\ sub[l.sub].status # "deleted"
             /\ SubTotal > 0 => sub[l.sub].used + d <= SubTotal

\* adjustWalletQuotaTx and adjustSubscriptionQuotaTx: may the funding leg of
\* row l move by d?  A deleted subscription is not found.
FundingMoves(l, d) ==
    d # 0 =>
        IF l.source = "wallet" THEN wallet >= d
        ELSE /\ sub[l.sub].status # "deleted"
             /\ sub[l.sub].used + d >= 0
             /\ SubTotal > 0 => sub[l.sub].used + d <= SubTotal

\* A refund checked against the remaining quota.
TokenMovesByRemain(l, d) ==
    d # 0 /\ l.token # None =>
        /\ ~token[l.token].deleted
        /\ d > 0 => token[l.token].unlimited \/ token[l.token].remain >= d
        /\ d < 0 => token[l.token].remain >= -d

\* adjustTokenQuotaTx: a soft-deleted token matches no row.
TokenMoves(l, d) ==
    d # 0 /\ l.token # None =>
        /\ ~token[l.token].deleted
        /\ d > 0 => token[l.token].unlimited \/ token[l.token].remain >= d
        /\ d < 0 => token[l.token].used >= -d

\* The wallet leg forgotten when quota is returned.
WalletAfterChargesOnly(l, d) ==
    IF l.source = "wallet" /\ d > 0 THEN wallet - d ELSE wallet

WalletAfter(l, d) == IF l.source = "wallet" THEN wallet - d ELSE wallet

SubAfter(l, d) ==
    IF l.source = "subscription" /\ d # 0
    THEN [sub EXCEPT ![l.sub].used = @ + d] ELSE sub

\* The token leg forgotten when quota is returned.
TokenAfterChargesOnly(l, d) ==
    IF l.token = None \/ d < 0 THEN token
    ELSE [token EXCEPT ![l.token].used = @ + d,
                       ![l.token].remain =
                           IF token[l.token].unlimited THEN @ ELSE @ - d]

TokenAfter(l, d) ==
    IF l.token = None THEN token
    ELSE [token EXCEPT ![l.token].used = @ + d,
                       ![l.token].remain =
                           IF token[l.token].unlimited THEN @ ELSE @ - d]

\* adjustLedgerBalancesTx: both legs or an error.
BalancesMove(l, d) == FundingMoves(l, d) /\ TokenMoves(l, d)

AdjustBalances(l, d) ==
    /\ BalancesMove(l, d)
    /\ wallet' = WalletAfter(l, d)
    /\ sub' = SubAfter(l, d)
    /\ token' = TokenAfter(l, d)
    /\ UNCHANGED credited

\* updateBillingCountersTx, called in enforce mode only: do the counters of
\* the user and of the row's channel move to the quota q?
CountersMove(l, q) ==
    LET d == q - l.counted IN
    l.mode = "enforce" /\ d # 0 =>
        /\ stats.used + d >= 0
        /\ l.chan # None =>
            ~channel[l.chan].deleted /\ channel[l.chan].used + d >= 0

\* A counter that adds the whole quota again at every transition.
UpdateCountersAgain(l, q) ==
    IF l.mode # "enforce" THEN UNCHANGED <<stats, channel>>
    ELSE /\ stats' = [used |-> stats.used + q, requests |-> stats.requests]
         /\ channel' = IF l.chan = None THEN channel
                       ELSE [channel EXCEPT ![l.chan].used = @ + q]

UpdateCounters(l, q) ==
    LET d == q - l.counted
        n == IF ~l.requestCounted /\ q > 0 THEN 1 ELSE 0
    IN  IF l.mode # "enforce" THEN UNCHANGED <<stats, channel>>
        ELSE /\ stats' = [used |-> stats.used + d, requests |-> stats.requests + n]
             /\ channel' = IF l.chan = None THEN channel
                           ELSE [channel EXCEPT ![l.chan].used = @ + d]

\* Event keys without the version: OnConflict drops the second event.
EmitOncePerType(r, type, version) ==
    outbox' = IF \E e \in outbox : e.req = r /\ e.type = type THEN outbox
              ELSE outbox \cup {[req |-> r, type |-> type, version |-> version]}

\* enqueueBillingOutboxTx: the event key is request, type and version.
Emit(r, type, version) ==
    outbox' = outbox \cup {[req |-> r, type |-> type, version |-> version]}

-----------------------------------------------------------------------------
(* The transitions of one ledger row.                                       *)

\* A channel chosen at any time.
ChannelAssignableAlways(l, c) == TRUE

\* assignBillingSettlementChannel: a counted row keeps its channel.
ChannelAssignable(l, c) ==
    c \notin {None, l.chan} => ~l.requestCounted /\ l.counted = 0

WithChannel(l, c) == IF c = None THEN l ELSE [l EXCEPT !.chan = c]

AlreadySettled(l, q) == l.state = "settled" /\ l.applied = q

\* mutateLockedBillingLedgerTx saves this row; l carries its settlement
\* channel already.
Finished(l, outcome, q) ==
    [l EXCEPT !.state = outcome, !.desired = outcome, !.applied = q, !.target = q,
              !.counted = IF l.mode = "enforce" THEN q ELSE @,
              !.requestCounted = @ \/ (l.mode = "enforce" /\ q > 0),
              !.version = @ + 1, !.due = FALSE, !.stale = FALSE]

\* An intent recorded without a new version.
ToReconcileSameVersion(l, outcome, q, due) ==
    [l EXCEPT !.state = "reconcile_required", !.desired = outcome, !.target = q,
              !.due = due, !.stale = FALSE]

\* A refund intent that keeps the target of the reservation.
ToReconcileKeepsTarget(l, outcome, q, due) ==
    [l EXCEPT !.state = "reconcile_required", !.desired = outcome,
              !.target = IF outcome = "refunded" THEN @ ELSE q,
              !.version = @ + 1, !.due = due, !.stale = FALSE]

\* The row saved by every function that records an intent for the
\* reconciler; due tells whether it may be replayed at once.
ToReconcile(l, outcome, q, due) ==
    [l EXCEPT !.state = "reconcile_required", !.desired = outcome, !.target = q,
              !.version = @ + 1, !.due = due, !.stale = FALSE]

\* A transition that takes a refunded row back.
CommitsAnyState(r, outcome, q, c) ==
    LET l == ledger[r] IN
    /\ l.state # "absent"
    /\ ~(outcome = "settled" /\ AlreadySettled(l, q))
    /\ BalancesMove(l, q - l.applied)
    /\ ChannelAssignable(l, c)
    /\ CountersMove(WithChannel(l, c), q)

\* Does mutateLockedBillingLedgerTx commit a change?
Commits(r, outcome, q, c) ==
    LET l == ledger[r] IN
    /\ l.state \notin {"absent", "refunded"}
    /\ ~(outcome = "settled" /\ AlreadySettled(l, q))
    /\ BalancesMove(l, q - l.applied)
    /\ ChannelAssignable(l, c)
    /\ CountersMove(WithChannel(l, c), q)

\* The record forgotten.
RecordAfterForgets(r, outcome) == record

\* markSubscriptionPreConsumeRefundedTx.
RecordAfter(r, outcome) ==
    IF outcome = "refunded" /\ ledger[r].source = "subscription" /\ record[r] # "none"
    THEN [record EXCEPT ![r] = "refunded"] ELSE record

\* mutateLockedBillingLedgerTx, with the task row t its hook leaves.
Transit(r, outcome, q, c, t) ==
    LET l == WithChannel(ledger[r], c) IN
    /\ Commits(r, outcome, q, c)
    /\ l.version < MaxVersion
    /\ AdjustBalances(l, q - l.applied)
    /\ UpdateCounters(l, q)
    /\ ledger' = [ledger EXCEPT ![r] = Finished(l, outcome, q)]
    /\ record' = RecordAfter(r, outcome)
    /\ task' = [task EXCEPT ![r] = t]
    /\ Emit(r, outcome, l.version + 1)

\* The hook of every refund: a task that has not started fails.
FailedIfNotStarted(t) ==
    IF t.status = "NOT_START" THEN [t EXCEPT !.status = "FAILURE"] ELSE t

-----------------------------------------------------------------------------
(* Reservations.                                                            *)

\* maybeResetUserSubscriptionWithPlanTx.
Reset(u) ==
    IF u.resetDue
    THEN [u EXCEPT !.used = 0, !.waived = u.waived + u.used, !.resetDue = FALSE]
    ELSE u

HasRoom(s, q) == SubTotal > 0 => Reset(sub[s]).used + q <= SubTotal

\* reserveSubscriptionQuotaTx takes the first active subscription with room.
FirstWithRoom(s, q) ==
    /\ sub[s].status = "active" /\ HasRoom(s, q)
    /\ \A x \in Subs : x < s /\ sub[x].status = "active" => ~HasRoom(x, q)

\* Every subscription it visits on the way is reset if that is due.
SubAfterReserve(s, q) ==
    [x \in Subs |->
        IF x <= s /\ sub[x].status = "active"
        THEN [Reset(sub[x]) EXCEPT !.used = IF x = s THEN @ + q ELSE @]
        ELSE sub[x]]

NewRow(m, src, t, c, s, q) ==
    [NoRow EXCEPT !.mode = m, !.state = "reserved", !.source = src, !.token = t,
                  !.chan = c, !.sub = s, !.applied = q, !.target = q, !.version = 1]

\* ReserveBillingLedger with wallet funding.  A known request id changes
\* nothing: the caller rejects it as a duplicate.
ReserveWallet(r, m, t, c, q) ==
    LET l == NewRow(m, "wallet", t, c, None, q) IN
    /\ ledger[r].state = "absent"
    /\ AdjustBalances(l, q)
    /\ ledger' = [ledger EXCEPT ![r] = l]
    /\ Emit(r, "reserved", 1)
    /\ UNCHANGED <<stats, channel, task, record>>

\* ReserveBillingLedger with subscription funding.
ReserveSubscription(r, m, t, c, q) ==
    /\ ledger[r].state = "absent"
    /\ q > 0
    /\ \E s \in Subs :
        LET l == NewRow(m, "subscription", t, c, s, q) IN
        /\ FirstWithRoom(s, q)
        /\ TokenMoves(l, q)
        /\ sub' = SubAfterReserve(s, q)
        /\ token' = TokenAfter(l, q)
        /\ ledger' = [ledger EXCEPT ![r] = l]
    /\ record' = [record EXCEPT ![r] = "consumed"]
    /\ Emit(r, "reserved", 1)
    /\ UNCHANGED <<wallet, credited, stats, channel, task>>

Reserve(r, m, src, t, c, q) ==
    \/ src = "wallet" /\ ReserveWallet(r, m, t, c, q)
    \/ src = "subscription" /\ ReserveSubscription(r, m, t, c, q)

\* ReserveMoreBillingLedger: a smaller target changes nothing.
ReserveMore(r, q) ==
    LET l == ledger[r] IN
    /\ l.state = "reserved" /\ q > l.applied
    /\ l.version < MaxVersion
    /\ AdjustBalances(l, q - l.applied)
    /\ ledger' = [ledger EXCEPT ![r] =
           [l EXCEPT !.applied = q, !.target = q, !.version = @ + 1, !.stale = FALSE]]
    /\ Emit(r, "reserved", l.version + 1)
    /\ UNCHANGED <<stats, channel, task, record>>

\* BindBillingLedgerTask: a task row is persisted before the upstream call.
BindTask(r) ==
    LET l == ledger[r] IN
    /\ r \in AsyncRequests
    /\ l.state = "reserved" /\ task[r].status = "none"
    /\ l.version < MaxVersion
    /\ ledger' = [ledger EXCEPT ![r] =
           [l EXCEPT !.kind = "task", !.version = @ + 1, !.stale = FALSE]]
    /\ task' = [task EXCEPT ![r] =
           [status |-> "NOT_START", upstream |-> FALSE]]
    /\ Emit(r, "task_bound", l.version + 1)
    /\ UNCHANGED <<balances, stats, channel, record>>

-----------------------------------------------------------------------------
(* Terminal transitions.                                                    *)

\* SettleBillingLedger.
Settle(r, q, c) == Transit(r, "settled", q, c, task[r])

\* SettleBillingLedgerWithTask (NOT_START) and
\* SettleBillingLedgerWithMidjourney (RUNNING, SUCCESS for an upload, or the
\* status of a task the upstream knows already): the task row is inserted by the settling transaction.
SettleWithTask(r, q, status) ==
    /\ r \in AsyncRequests /\ task[r].status = "none"
    /\ Transit(r, "settled", q, None,
               [status |-> status, upstream |-> TRUE])

\* RefundBillingLedger.
Refund(r) == Transit(r, "refunded", 0, None, FailedIfNotStarted(task[r]))

\* AcknowledgeBillingLedgerTask: the upstream accepted the task.  The task
\* that RelayTask passes comes from InitTask, so its status is NOT_START.  A
\* row settled at this quota is not reopened.
Acknowledge(r, q) ==
    LET l == ledger[r]
        t == [status |-> "NOT_START", upstream |-> TRUE]
    IN
    /\ l.state \notin {"absent", "refunded"} /\ task[r].status # "none"
    /\ task' = [task EXCEPT ![r] = t]
    /\ \/ AlreadySettled(l, q) /\ UNCHANGED ledger
       \/ /\ ~AlreadySettled(l, q)
          /\ l.version < MaxVersion
          /\ ledger' = [ledger EXCEPT ![r] =
                 [ToReconcile(l, "settled", q, TRUE) EXCEPT !.kind = "task"]]
    /\ UNCHANGED <<balances, stats, channel, record, outbox>>

\* A mark that reopens a refunded row.
MarkForReconcileAnyState(r, outcome, q, c) ==
    LET l == WithChannel(ledger[r], c) IN
    /\ l.state # "absent"
    /\ outcome = "refunded" => q = 0 /\ c = None
    /\ l.version < MaxVersion
    /\ ledger' = [ledger EXCEPT ![r] = ToReconcile(l, outcome, q, FALSE)]
    /\ UNCHANGED <<balances, stats, channel, task, record, outbox>>

\* MarkBillingLedgerForReconcile: the intent of a caller whose transaction
\* failed.  Callers pass quota 0 with a refund, and no channel.
MarkForReconcile(r, outcome, q, c) ==
    LET l == WithChannel(ledger[r], c) IN
    /\ l.state \notin {"absent", "refunded"}
    /\ ~(outcome = "settled" /\ AlreadySettled(l, q))
    /\ outcome = "refunded" => q = 0 /\ c = None
    /\ ChannelAssignable(ledger[r], c)
    /\ l.version < MaxVersion
    /\ ledger' = [ledger EXCEPT ![r] = ToReconcile(l, outcome, q, FALSE)]
    /\ UNCHANGED <<balances, stats, channel, task, record, outbox>>

-----------------------------------------------------------------------------
(* Transactions of the reconciler, each fenced by what the reconciler read. *)

\* The fence without the version.
StaleFenceNoVersion(r, kind, version) ==
    ledger[r].kind = kind /\ ledger[r].state = "reserved"

StaleFence(r, kind, version) ==
    LET l == ledger[r] IN
    l.kind = kind /\ l.state = "reserved" /\ l.version = version /\ l.stale

\* RefundStaleReservedBillingLedgerContext.
RefundStale(r, kind, version) == StaleFence(r, kind, version) /\ Refund(r)

\* MarkStaleReservedBillingLedgerForReconcileContext.
MarkStale(r, kind, version) ==
    /\ StaleFence(r, kind, version)
    /\ ledger[r].version < MaxVersion
    /\ ledger' = [ledger EXCEPT ![r] = ToReconcile(@, "refunded", 0, FALSE)]
    /\ UNCHANGED <<balances, stats, channel, task, record, outbox>>

\* The fence without what was read of the intent.
ReplayFenceByState(r, version, outcome, q) ==
    ledger[r].state = "reconcile_required"

ReplayFence(r, version, outcome, q) ==
    LET l == ledger[r] IN
    /\ l.state = "reconcile_required" /\ l.version = version
    /\ l.desired = outcome /\ l.target = q

\* ReplayBillingLedgerReconcileContext.
Replay(r, version, outcome, q) ==
    /\ ReplayFence(r, version, outcome, q)
    /\ Transit(r, outcome, q, None,
               IF outcome = "refunded" THEN FailedIfNotStarted(task[r]) ELSE task[r])

\* MarkBillingLedgerReconcileRetryContext.
MarkRetry(r, version, outcome, q) ==
    LET l == ledger[r] IN
    /\ ReplayFence(r, version, outcome, q)
    /\ l.version < MaxVersion
    /\ ledger' = [ledger EXCEPT ![r] =
           [l EXCEPT !.version = @ + 1, !.due = FALSE, !.stale = FALSE]]
    /\ UNCHANGED <<balances, stats, channel, task, record, outbox>>

-----------------------------------------------------------------------------
(* Task rows, written by pollers and fetches from a copy loaded earlier: up *)
(* tells whether that copy has the upstream id.                             *)

OutcomeOf(status) == IF status = "FAILURE" THEN "refunded" ELSE "settled"

OutcomeReached(l, outcome, q) ==
    \/ outcome = "settled" /\ AlreadySettled(l, q)
    \/ outcome = "refunded" /\ l.state = "refunded"

Unfinished(status) == status \in {"NOT_START", "RUNNING"}

\* UpdateTaskWithBilling and UpdateMidjourneyWithBilling: compare and swap on
\* the status, together with the ledger transition if that is not done yet.
TaskFinish(r, from, status, up, q) ==
    LET outcome == OutcomeOf(status)
        t == [status |-> status, upstream |-> up]
    IN
    /\ task[r].status = from /\ Unfinished(from)
    /\ outcome = "refunded" => q = 0
    /\ \/ /\ OutcomeReached(ledger[r], outcome, q)
          /\ task' = [task EXCEPT ![r] = t]
          /\ UNCHANGED <<ledger, balances, stats, channel, record, outbox>>
       \/ /\ ~OutcomeReached(ledger[r], outcome, q)
          /\ Transit(r, outcome, q, None, t)

\* UpdateWithStatus: the whole copy is written back if the status is still
\* the one that was loaded; the ledger is not told.
UpdateWithStatus(r, from, status, up) ==
    /\ task[r].status = from /\ from # "none"
    /\ task' = [task EXCEPT ![r] = [status |-> status, upstream |-> up]]
    /\ UNCHANGED <<ledger, balances, stats, channel, record, outbox>>

\* TaskBulkUpdateByID, when the channel of a task cannot be read: the row
\* fails whatever its status, and the ledger is not told.
TaskBulkFail(r) ==
    /\ task[r].status \notin {"none", "FAILURE"}
    /\ task' = [task EXCEPT ![r].status = "FAILURE"]
    /\ UNCHANGED <<ledger, balances, stats, channel, record, outbox>>

-----------------------------------------------------------------------------
(* What the rest of the program does to the rows the ledger depends on.     *)

\* A top-up, a redeemed code or a check-in (increaseUserQuota).
Credit(n) ==
    /\ "credit" \in Admin
    /\ credited + n <= MaxWallet
    /\ wallet' = wallet + n
    /\ credited' = credited + n
    /\ UNCHANGED <<ledger, token, sub, stats, channel, task, record, outbox>>

\* Token.Update writes remain_quota and unlimited_quota outright.
EditToken(t, n, u) ==
    /\ "edit token" \in Admin
    /\ ~token[t].deleted
    /\ token' = [token EXCEPT ![t].remain = n, ![t].unlimited = u]
    /\ UNCHANGED <<ledger, wallet, credited, sub, stats, channel, task, record, outbox>>

\* Token.Delete is a soft delete: the row stays but no query finds it.
DeleteToken(t) ==
    /\ "delete token" \in Admin
    /\ ~token[t].deleted
    /\ token' = [token EXCEPT ![t].deleted = TRUE]
    /\ UNCHANGED <<ledger, wallet, credited, sub, stats, channel, task, record, outbox>>

DeleteChannel(c) ==
    /\ "delete channel" \in Admin
    /\ ~channel[c].deleted
    /\ channel' = [channel EXCEPT ![c].deleted = TRUE]
    /\ UNCHANGED <<ledger, balances, stats, task, record, outbox>>

\* The period of an active subscription ends: next_reset_time is reached.
PeriodEnds(s) ==
    /\ "reset subscription" \in Admin
    /\ sub[s].status = "active" /\ ~sub[s].resetDue
    /\ sub' = [sub EXCEPT ![s].resetDue = TRUE]
    /\ UNCHANGED <<ledger, wallet, credited, token, stats, channel, task, record, outbox>>

\* ResetDueSubscriptionsContext.
ResetSubscription(s) ==
    /\ sub[s].status = "active" /\ sub[s].resetDue
    /\ sub' = [sub EXCEPT ![s] = Reset(@)]
    /\ UNCHANGED <<ledger, wallet, credited, token, stats, channel, task, record, outbox>>

\* ExpireDueSubscriptionsContext and AdminInvalidateUserSubscription
\* ("expired"), AdminDeleteUserSubscription ("deleted").
EndSubscription(s, status) ==
    /\ "end subscription" \in Admin
    /\ sub[s].status # "deleted" /\ sub[s].status # status
    /\ sub' = [sub EXCEPT ![s].status = status]
    /\ UNCHANGED <<ledger, wallet, credited, token, stats, channel, task, record, outbox>>

\* CleanupSubscriptionPreConsumeRecords removes records of any status.
CleanRecord(r) ==
    /\ "clean records" \in Admin
    /\ record[r] # "none"
    /\ record' = [record EXCEPT ![r] = "none"]
    /\ UNCHANGED <<ledger, balances, stats, channel, task, outbox>>

\* Time passes: a reservation grows old, a retry falls due.
GrowStale(r) ==
    /\ ledger[r].state = "reserved" /\ ~ledger[r].stale
    /\ ledger' = [ledger EXCEPT ![r].stale = TRUE]
    /\ UNCHANGED <<balances, stats, channel, task, record, outbox>>

FallDue(r) ==
    /\ ledger[r].state = "reconcile_required" /\ ~ledger[r].due
    /\ ledger' = [ledger EXCEPT ![r].due = TRUE]
    /\ UNCHANGED <<balances, stats, channel, task, record, outbox>>

-----------------------------------------------------------------------------
RequestStep(r) ==
    \/ \E m \in Modes, src \in Sources, t \in Tokens \cup {None},
          c \in Channels \cup {None}, q \in Quota : Reserve(r, m, src, t, c, q)
    \/ \E q \in Quota : ReserveMore(r, q)
    \/ BindTask(r)
    \/ \E q \in Quota, c \in Channels \cup {None} : Settle(r, q, c)
    \/ \E q \in Quota, st \in TaskStatuses \ {"none"} : SettleWithTask(r, q, st)
    \/ Refund(r)
    \/ \E q \in Quota : Acknowledge(r, q)
    \/ \E o \in Outcomes, q \in Quota, c \in Channels \cup {None} :
          MarkForReconcile(r, o, q, c)

ReconcilerStep(r) ==
    LET l == ledger[r] IN
    \/ RefundStale(r, l.kind, l.version)
    \/ MarkStale(r, l.kind, l.version)
    \/ Replay(r, l.version, l.desired, l.target)
    \/ MarkRetry(r, l.version, l.desired, l.target)

PollerStep(r) ==
    \/ \E st \in {"SUCCESS", "FAILURE"}, up \in BOOLEAN, q \in Quota :
          TaskFinish(r, task[r].status, st, up, q)
    \/ \E st \in Reported, up \in BOOLEAN : UpdateWithStatus(r, task[r].status, st, up)
    \/ TaskBulkFail(r)

Administration ==
    \/ \E n \in 1..MaxQuota : Credit(n)
    \/ \E t \in Tokens, n \in Quota, u \in BOOLEAN : EditToken(t, n, u)
    \/ \E t \in Tokens : DeleteToken(t)
    \/ \E c \in Channels : DeleteChannel(c)
    \/ \E s \in Subs : PeriodEnds(s) \/ ResetSubscription(s)
    \/ \E s \in Subs, st \in {"expired", "deleted"} : EndSubscription(s, st)
    \/ \E r \in Requests : CleanRecord(r)

Next ==
    \/ \E r \in Requests :
        RequestStep(r) \/ ReconcilerStep(r) \/ PollerStep(r) \/ GrowStale(r) \/ FallDue(r)
    \/ Administration

Spec == Init /\ [][Next]_vars

-----------------------------------------------------------------------------
(* Properties.                                                              *)

\* A committed row says what it stands for: a terminal row is at its target,
\* a refunded one holds nothing, a reservation is uncounted, and a row left
\* to the reconciler has an intent that a replay can carry out.
RowsCoherent ==
    \A r \in Requests : LET l == ledger[r] IN
        /\ l.state = "absent" => l = NoRow
        /\ l.state # "absent" => l.version >= 1
        /\ l.state \in Outcomes => l.desired = l.state /\ l.target = l.applied
        /\ l.state = "refunded" => l.applied = 0
        /\ l.state = "reserved" => l.target = l.applied /\ l.counted = 0 /\ ~l.requestCounted
        /\ l.state = "reconcile_required" =>
            l.desired \in Outcomes /\ (l.desired = "refunded" => l.target = 0)
        /\ l.source = "subscription" => l.sub \in Subs

\* Only enforce mode counts usage, and then what is counted for a finished
\* request is exactly what is charged for it, however often it was settled,
\* marked and refunded (updateBillingCountersTx against AppliedQuota).
CountedIsCharged ==
    \A r \in Requests : LET l == ledger[r] IN
        /\ l.mode # "enforce" => l.counted = 0 /\ ~l.requestCounted
        /\ l.mode = "enforce" /\ l.state \in Outcomes => l.counted = l.applied
        /\ l.counted # 0 => l.counted = l.applied /\ l.requestCounted

\* A subscription is never used beyond its total.
WithinSubscription == SubTotal > 0 => \A s \in Subs : sub[s].used <= SubTotal

\* A pre-consume record, as long as it is kept, is refunded exactly when its
\* ledger row is, so the record's own refund path
\* (RefundSubscriptionPreConsume) never returns the quota a second time.
RecordFollowsLedger ==
    \A r \in Requests : LET l == ledger[r] IN
        record[r] # "none" =>
            /\ l.source = "subscription"
            /\ record[r] = "refunded" <=> l.state = "refunded"

\* No event of a row is newer than the row, so the event key of the next
\* transition is free and OnConflict DoNothing never drops an event.
EventsNotAhead == \A e \in outbox : e.version <= ledger[e.req].version

\* A terminal row has its terminal event in the outbox.
TerminalIsPublished ==
    \A r \in Requests : ledger[r].state \in Outcomes =>
        [req |-> r, type |-> ledger[r].state, version |-> ledger[r].version] \in outbox

\* What row l charges to the wallet, to token t and to subscription s, and what
\* it has counted for channel c.
WalletPart(l) == IF l.source = "wallet" THEN l.applied ELSE 0
TokenPart(l, t) == IF l.token = t THEN l.applied ELSE 0
SubPart(l, s) == IF l.source = "subscription" /\ l.sub = s THEN l.applied ELSE 0
ChannelPart(l, c) == IF l.chan = c THEN l.counted ELSE 0

Held(r) == WalletPart(ledger[r])

\* What the user was ever credited is in the wallet or charged to a request:
\* no interleaving of reservations, settlements, refunds, marks and replays
\* creates or destroys quota.
WalletConserved ==
    wallet + SumFunction([r \in Requests |-> Held(r)]) = credited

\* used_quota of a token is exactly what its requests are charged, even when
\* the token is edited while requests are in flight.
TokenUseExact ==
    \A t \in Tokens :
        token[t].used = SumFunction([r \in Requests |-> TokenPart(ledger[r], t)])

\* What a subscription has used is exactly what its requests are charged, less
\* what its period resets have waived, and never negative: no reservation,
\* settlement or refund takes or returns another amount than it books on its row,
\* also when a reset came in between.  A request charged before a reset is
\* returned out of the use of the new period, as far as there is any.
SubscriptionUseExact ==
    \A s \in Subs :
        /\ sub[s].used >= 0
        /\ sub[s].used + sub[s].waived
               = SumFunction([r \in Requests |-> SubPart(ledger[r], s)])

\* The counters enforce mode owns are exactly what it counted: per user, per
\* channel, and each request once.
StatisticsExact ==
    /\ stats.used = SumFunction([r \in Requests |-> ledger[r].counted])
    /\ stats.requests = Cardinality({r \in Requests : ledger[r].requestCounted})
    /\ \A c \in Channels :
        channel[c].used = SumFunction([r \in Requests |-> ChannelPart(ledger[r], c)])

\* The invariant errors of the source ("token quota refund invariant failed",
\* "user billing counter invariant failed", ...) cannot be reached by ledger
\* transactions themselves: a wallet-funded request can be refunded at any
\* time unless its token or its channel has been deleted.
RefundNeverBlocked ==
    \A r \in Requests : LET l == ledger[r] IN
        /\ l.state \notin {"absent", "refunded"} /\ l.source = "wallet"
        /\ l.token # None => ~token[l.token].deleted
        /\ l.chan # None => ~channel[l.chan].deleted
        => Commits(r, "refunded", 0, None)

\* The inductive invariant of the proofs.
LedgerInv ==
    /\ TypeOK
    /\ RowsCoherent
    /\ CountedIsCharged
    /\ WithinSubscription
    /\ RecordFollowsLedger
    /\ EventsNotAhead
    /\ TerminalIsPublished

\* Nothing takes a refunded request back: neither a late settlement, nor a
\* late acknowledgement, nor a replay, nor a mark.
RefundIsFinal ==
    [][\A r \in Requests :
        ledger[r].state = "refunded" => ledger'[r] = ledger[r]]_vars

\* Two reads of a row with the same version saw the same row, clocks apart.
\* The fences of the reconciler rest on this.
VersionGrows ==
    [][\A r \in Requests :
        \/ ledger'[r].version = ledger[r].version + 1
        \/ ledger'[r] = [ledger[r] EXCEPT !.stale = ledger'[r].stale,
                                          !.due = ledger'[r].due]]_vars

\* Usage counted for one channel is never moved to, or returned from,
\* another one.
CountedChannelIsPinned ==
    [][\A r \in Requests :
        ledger[r].counted # 0 => ledger'[r].chan = ledger[r].chan]_vars

\* Every step that moves the money of a request publishes a new event, whose
\* key no earlier event has.
MoneyMovesArePublished ==
    [][\A r \in Requests : ledger'[r].applied # ledger[r].applied =>
        \E e \in outbox' \ outbox :
            e.req = r /\ e.version = ledger'[r].version]_vars

\* The refinement mapping to Escrow: what every row holds of the wallet, and its
\* status there.
HoldStatus(r) ==
    IF ledger[r].state = "absent" THEN "new"
    ELSE IF ledger[r].state = "refunded" THEN "void" ELSE "open"

Account == INSTANCE Escrow
           WITH balance <- wallet,
                held <- [r \in Requests |-> Held(r)],
                status <- [r \in Requests |-> HoldStatus(r)]

\* Seen from the wallet, every transaction of the ledger opens, adjusts or
\* voids one hold, or does nothing: no transaction charges two requests,
\* charges what the wallet does not have, or reopens a refunded request.
EscrowSpec == Account!Spec
=============================================================================
