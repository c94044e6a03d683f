------------------------- MODULE BillingLedgerProofs -------------------------
(***************************************************************************)
(* Proofs about BillingLedger, for any number of requests, tokens,         *)
(* subscriptions and channels and any bounds.  The inductive invariant is  *)
(* LedgerInv.  Its conjuncts that speak of one ledger row at a time are    *)
(* gathered in RowInv, so that what every row operator preserves is a      *)
(* lemma of its own and the proof of an action only cites it.              *)
(***************************************************************************)
EXTENDS BillingLedger, TLAPS

\* What LedgerInv says of a single row.
RowInv(l) ==
    /\ l \in LedgerRow
    /\ l.state = "absent" => l = NoRow
    /\ l.state # "absent" => l.version >= 1
    /\ l.state \in Outcomes => l.desired = l.state /\ l.target = l.applied
    /\ l.state = "refunded" => l.applied = 0
    /\ l.state = "reserved" => l.target = l.applied /\ l.counted = 0 /\ ~l.requestCounted
    /\ l.state = "reconcile_required" =>
        l.desired \in Outcomes /\ (l.desired = "refunded" => l.target = 0)
    /\ l.source = "subscription" => l.sub \in Subs
    /\ l.mode # "enforce" => l.counted = 0 /\ ~l.requestCounted
    /\ l.mode = "enforce" /\ l.state \in Outcomes => l.counted = l.applied
    /\ l.counted # 0 => l.counted = l.applied /\ l.requestCounted

\* The other conjuncts of LedgerInv, grouped by the tables they speak of.
RowsOK ==
    /\ ledger \in [Requests -> LedgerRow]
    /\ \A r \in Requests : RowInv(ledger[r])

BalancesOK ==
    /\ wallet \in Nat
    /\ credited \in 0..MaxWallet
    /\ token \in [Tokens -> TokenRow]
    /\ sub \in [Subs -> SubRow]
    /\ WithinSubscription

CountersOK ==
    /\ stats \in StatsRow
    /\ channel \in [Channels -> ChannelRow]

TasksOK == task \in [Requests -> TaskRow]

RecordsOK ==
    /\ record \in [Requests -> {"none", "consumed", "refunded"}]
    /\ RecordFollowsLedger

EventsOK ==
    /\ outbox \subseteq Event
    /\ EventsNotAhead
    /\ TerminalIsPublished

PartsOK == RowsOK /\ BalancesOK /\ CountersOK /\ TasksOK /\ RecordsOK /\ EventsOK

\* The bounds, as the provers use them.
LEMMA Bounds == /\ MaxQuota \in Nat /\ MaxVersion \in Nat /\ MaxVersion >= 1
                /\ MaxWallet \in Nat /\ InitialWallet \in Nat
                /\ InitialWallet <= MaxWallet
                /\ InitialRemain \in Nat /\ SubTotal \in Nat
  BY BoundsAssumption

-----------------------------------------------------------------------------
(* Row operators.                                                           *)

\* mutateLockedBillingLedgerTx leaves a coherent row behind.
LEMMA FinishedRow ==
    ASSUME NEW l, RowInv(l), l.state \notin {"absent", "refunded"},
           l.version < MaxVersion,
           NEW outcome \in Outcomes, NEW q \in Quota,
           outcome = "refunded" => q = 0
    PROVE  RowInv(Finished(l, outcome, q))
<1> DEFINE n == Finished(l, outcome, q)
<1>1. /\ l.version \in 0..MaxVersion /\ l.version + 1 \in 0..MaxVersion
      /\ l.version + 1 >= 1
  BY Bounds DEF RowInv, LedgerRow
<1>2. n \in LedgerRow
  <2>1. l \in LedgerRow
    BY DEF RowInv
  <2>2. outcome \in States /\ outcome \in Outcomes \cup {"none"}
    BY DEF Outcomes, States
  <2>3. (l.requestCounted \/ (l.mode = "enforce" /\ q > 0)) \in BOOLEAN
    OBVIOUS
  <2>4. (IF l.mode = "enforce" THEN q ELSE l.counted) \in Quota
    BY <2>1 DEF LedgerRow
  <2>5. ASSUME NEW k \in Quota, NEW b \in BOOLEAN, NEW v \in 0..MaxVersion
        PROVE  [l EXCEPT !.state = outcome, !.desired = outcome, !.applied = q,
                         !.target = q, !.counted = k, !.requestCounted = b,
                         !.version = v, !.due = FALSE, !.stale = FALSE] \in LedgerRow
    BY <2>1, <2>2 DEF LedgerRow
  <2>6. n = [l EXCEPT !.state = outcome, !.desired = outcome, !.applied = q, !.target = q,
                      !.counted = IF l.mode = "enforce" THEN q ELSE l.counted,
                      !.requestCounted = (l.requestCounted \/ (l.mode = "enforce" /\ q > 0)),
                      !.version = l.version + 1, !.due = FALSE, !.stale = FALSE]
    BY Zenon DEF Finished
  <2> HIDE DEF n
  <2> QED
    BY <1>1, <2>3, <2>4, <2>5, <2>6
<1>3. /\ n.state = outcome /\ n.desired = outcome /\ n.applied = q /\ n.target = q
      /\ n.version = l.version + 1 /\ n.mode = l.mode /\ n.source = l.source /\ n.sub = l.sub
      /\ n.counted = IF l.mode = "enforce" THEN q ELSE l.counted
      /\ n.requestCounted <=> l.requestCounted \/ (l.mode = "enforce" /\ q > 0)
  BY DEF RowInv, Finished, LedgerRow
<1>4. q \in Nat
  BY Bounds DEF Quota
<1> QED
  BY <1>1, <1>2, <1>3, <1>4 DEF RowInv, Outcomes

\* So does every function that records an intent.
LEMMA ToReconcileRow ==
    ASSUME NEW l, RowInv(l), l.state \notin {"absent", "refunded"},
           l.version < MaxVersion,
           NEW outcome \in Outcomes, NEW q \in Quota, NEW due \in BOOLEAN,
           outcome = "refunded" => q = 0
    PROVE  RowInv(ToReconcile(l, outcome, q, due))
<1> DEFINE n == ToReconcile(l, outcome, q, due)
<1>1. /\ l.version \in 0..MaxVersion /\ l.version + 1 \in 0..MaxVersion
      /\ l.version + 1 >= 1
  BY Bounds DEF RowInv, LedgerRow
<1>2. n \in LedgerRow
  BY <1>1 DEF RowInv, ToReconcile, LedgerRow, States
<1>3. /\ n.state = "reconcile_required" /\ n.desired = outcome /\ n.applied = l.applied
      /\ n.target = q /\ n.version = l.version + 1 /\ n.mode = l.mode
      /\ n.source = l.source /\ n.sub = l.sub /\ n.counted = l.counted
      /\ n.requestCounted = l.requestCounted
  BY DEF RowInv, ToReconcile, LedgerRow
<1> QED
  BY <1>1, <1>2, <1>3 DEF RowInv, Outcomes

\* A settlement channel is compatible with whatever else a row says.
LEMMA WithChannelRow ==
    ASSUME NEW l, RowInv(l), l.state # "absent", NEW c \in Channels \cup {None}
    PROVE  /\ RowInv(WithChannel(l, c))
           /\ WithChannel(l, c) = [l EXCEPT !.chan = WithChannel(l, c).chan]
           /\ WithChannel(l, c).chan \in Channels \cup {None}
  BY DEF RowInv, WithChannel, LedgerRow

\* ReserveBillingLedger creates a coherent row.
LEMMA NewRowRow ==
    ASSUME NEW m \in Modes, NEW src \in Sources, NEW t \in Tokens \cup {None},
           NEW c \in Channels \cup {None}, NEW s \in Subs \cup {None}, NEW q \in Quota,
           src = "subscription" => s \in Subs
    PROVE  RowInv(NewRow(m, src, t, c, s, q))
<1>1. 0 \in Quota /\ 1 \in 0..MaxVersion
  BY Bounds DEF Quota
<1>2. NewRow(m, src, t, c, s, q) \in LedgerRow
  BY <1>1 DEF NewRow, NoRow, LedgerRow, States
<1> QED
  BY <1>2, SourcesAssumption DEF RowInv, NewRow, NoRow, Outcomes

-----------------------------------------------------------------------------
(* Tables.                                                                  *)

\* LedgerInv is the conjunction of its parts, in any state.
LEMMA Parts == LedgerInv <=> PartsOK
<1>1. RowsOK <=> /\ ledger \in [Requests -> LedgerRow]
                 /\ RowsCoherent /\ CountedIsCharged
  BY Zenon DEF RowsOK, RowInv, RowsCoherent, CountedIsCharged
<1> QED
  BY <1>1 DEF LedgerInv, PartsOK, TypeOK, BalancesOK, CountersOK, TasksOK, RecordsOK, EventsOK

\* One row is written.
LEMMA RowsStep ==
    ASSUME RowsOK, NEW r \in Requests, NEW n, RowInv(n),
           ledger' = [ledger EXCEPT ![r] = n]
    PROVE  RowsOK'
<1>1. n \in LedgerRow
  BY DEF RowInv
<1>2. ledger' \in [Requests -> LedgerRow]
  BY <1>1 DEF RowsOK
<1>3. ASSUME NEW x \in Requests PROVE RowInv(ledger'[x])
  BY DEF RowsOK
<1> QED
  BY <1>2, <1>3 DEF RowsOK, RowInv

\* adjustLedgerBalancesTx keeps every balance a natural number and every
\* subscription within its total.
LEMMA BalancesStep ==
    ASSUME BalancesOK, NEW l, RowInv(l), NEW d \in Int, AdjustBalances(l, d)
    PROVE  BalancesOK'
<1>1. /\ l.token \in Tokens \cup {None}
      /\ l.source = "subscription" => l.sub \in Subs
      /\ l.source # "subscription" => l.source = "wallet"
  BY SourcesAssumption DEF RowInv, LedgerRow
<1>2. wallet' \in Nat /\ credited' \in 0..MaxWallet
  BY DEF AdjustBalances, BalancesMove, FundingMoves, WalletAfter, BalancesOK
<1>3. token' \in [Tokens -> TokenRow]
  <2>1. CASE l.token = None
    BY <2>1 DEF AdjustBalances, TokenAfter, BalancesOK
  <2>2. CASE l.token # None
    <3> DEFINE u == token[l.token]
    <3>1. u \in TokenRow /\ l.token \in Tokens
      BY <1>1, <2>2 DEF BalancesOK
    <3>2. /\ u.used + d \in Nat
          /\ (IF u.unlimited THEN u.remain ELSE u.remain - d) \in Nat
      BY <2>2, <3>1 DEF AdjustBalances, BalancesMove, TokenMoves, TokenRow
    <3>3. token' = [token EXCEPT ![l.token] =
                       [u EXCEPT !.used = u.used + d,
                                 !.remain = IF u.unlimited THEN u.remain ELSE u.remain - d]]
      BY <2>2, <3>1 DEF AdjustBalances, TokenAfter, BalancesOK
    <3> QED
      BY <3>1, <3>2, <3>3 DEF BalancesOK, TokenRow
  <2> QED
    BY <2>1, <2>2
<1>4. sub' \in [Subs -> SubRow] /\ WithinSubscription'
  <2>1. CASE l.source = "subscription" /\ d # 0
    <3> DEFINE u == sub[l.sub]
    <3>1. u \in SubRow /\ l.sub \in Subs
      BY <1>1, <2>1 DEF BalancesOK
    <3>2. u.used + d \in Nat /\ (SubTotal > 0 => u.used + d <= SubTotal)
      BY <2>1, <3>1 DEF AdjustBalances, BalancesMove, FundingMoves, SubRow
    <3>3. sub' = [sub EXCEPT ![l.sub] = [u EXCEPT !.used = u.used + d]]
      BY <2>1, <3>1 DEF AdjustBalances, SubAfter, BalancesOK
    <3> QED
      BY <3>1, <3>2, <3>3 DEF BalancesOK, SubRow, WithinSubscription
  <2>2. CASE ~(l.source = "subscription" /\ d # 0)
    BY <2>2 DEF AdjustBalances, SubAfter, BalancesOK, WithinSubscription
  <2> QED
    BY <2>1, <2>2
<1> QED
  BY <1>2, <1>3, <1>4 DEF BalancesOK

\* updateBillingCountersTx keeps every counter a natural number.
LEMMA CountersStep ==
    ASSUME CountersOK, NEW l, RowInv(l), NEW q \in Quota,
           CountersMove(l, q), UpdateCounters(l, q)
    PROVE  CountersOK'
<1>1. /\ l.counted \in Nat /\ q \in Nat /\ l.chan \in Channels \cup {None}
  BY Bounds DEF RowInv, LedgerRow, Quota
<1>2. CASE l.mode # "enforce"
  BY <1>2 DEF UpdateCounters, CountersOK
<1>3. CASE l.mode = "enforce"
  <2> DEFINE d == q - l.counted
  <2>1. stats.used \in Nat /\ stats.requests \in Nat
    BY DEF CountersOK, StatsRow
  <2>2. stats.used + d \in Nat
    BY <1>1, <1>3, <2>1 DEF CountersMove
  <2>3. stats' \in StatsRow
    BY <1>3, <2>1, <2>2 DEF UpdateCounters, StatsRow
  <2>4. channel' \in [Channels -> ChannelRow]
    <3>1. CASE l.chan = None
      BY <1>3, <3>1 DEF UpdateCounters, CountersOK
    <3>2. CASE l.chan # None
      <4>1. l.chan \in Channels /\ channel[l.chan].used \in Nat
        BY <1>1, <3>2 DEF CountersOK, ChannelRow
      <4>2. channel[l.chan].used + d \in Nat
        BY <1>1, <1>3, <3>2, <4>1 DEF CountersMove
      <4>3. channel' = [channel EXCEPT ![l.chan] =
                           [channel[l.chan] EXCEPT !.used = channel[l.chan].used + d]]
        BY <1>3, <3>2, <4>1 DEF UpdateCounters, CountersOK
      <4> QED
        BY <4>1, <4>2, <4>3 DEF CountersOK, ChannelRow
    <3> QED
      BY <3>1, <3>2
  <2> QED
    BY <2>3, <2>4 DEF CountersOK
<1> QED
  BY <1>2, <1>3

\* A transaction that publishes an event for the version it writes.
LEMMA EventsPublished ==
    ASSUME RowsOK, EventsOK, NEW r \in Requests, NEW n, RowInv(n),
           ledger' = [ledger EXCEPT ![r] = n],
           n.version = ledger[r].version + 1,
           NEW type \in EventTypes, n.state \in Outcomes => n.state = type,
           Emit(r, type, n.version)
    PROVE  EventsOK'
<1> DEFINE e == [req |-> r, type |-> type, version |-> n.version]
<1>1. e \in Event /\ ledger[r].version \in Nat /\ n.version \in Nat
  BY Bounds DEF Event, RowInv, RowsOK, LedgerRow
<1>2. outbox' = outbox \cup {e}
  BY DEF Emit
<1>3. /\ ledger'[r] = n
      /\ \A x \in Requests : x # r => ledger'[x] = ledger[x]
  BY DEF RowsOK
<1>4. outbox' \subseteq Event
  BY <1>1, <1>2 DEF EventsOK
<1>5. ASSUME NEW f \in outbox' PROVE f.version <= ledger'[f.req].version
  <2>1. CASE f = e
    BY <1>1, <1>3, <2>1
  <2>2. CASE f \in outbox
    <3>1. f.version <= ledger[f.req].version /\ f.req \in Requests /\ f.version \in Nat
      BY <2>2, Bounds DEF EventsOK, EventsNotAhead, Event
    <3> QED
      BY <1>1, <1>3, <3>1
  <2> QED
    BY <1>2, <2>1, <2>2
<1>6. ASSUME NEW x \in Requests, ledger'[x].state \in Outcomes
      PROVE  [req |-> x, type |-> ledger'[x].state, version |-> ledger'[x].version] \in outbox'
  BY <1>2, <1>3, <1>6 DEF EventsOK, TerminalIsPublished
<1> QED
  BY <1>4, <1>5, <1>6 DEF EventsOK, EventsNotAhead, TerminalIsPublished

\* A transaction that publishes nothing leaves no terminal row behind that
\* was not there before.
LEMMA EventsSilent ==
    ASSUME RowsOK, EventsOK, NEW r \in Requests, NEW n, RowInv(n),
           ledger' = [ledger EXCEPT ![r] = n],
           n.version >= ledger[r].version,
           n.state \in Outcomes => n.state = ledger[r].state /\ n.version = ledger[r].version,
           UNCHANGED outbox
    PROVE  EventsOK'
<1>1. ledger[r].version \in Nat /\ n.version \in Nat
  BY Bounds DEF RowInv, RowsOK, LedgerRow
<1>2. /\ ledger'[r] = n
      /\ \A x \in Requests : x # r => ledger'[x] = ledger[x]
  BY DEF RowsOK
<1>3. ASSUME NEW f \in outbox' PROVE f.version <= ledger'[f.req].version
  <2>1. f.version <= ledger[f.req].version /\ f.req \in Requests /\ f.version \in Nat
    BY <1>3, Bounds DEF EventsOK, EventsNotAhead, Event
  <2> QED
    BY <1>1, <1>2, <2>1
<1>4. ASSUME NEW x \in Requests, ledger'[x].state \in Outcomes
      PROVE  [req |-> x, type |-> ledger'[x].state, version |-> ledger'[x].version] \in outbox'
  BY <1>2, <1>4 DEF EventsOK, TerminalIsPublished
<1> QED
  BY <1>3, <1>4 DEF EventsOK, EventsNotAhead, TerminalIsPublished

\* A transaction that neither refunds nor touches a record.
LEMMA RecordsSilent ==
    ASSUME RowsOK, RecordsOK, NEW r \in Requests, NEW n, RowInv(n),
           ledger' = [ledger EXCEPT ![r] = n],
           n.source = ledger[r].source \/ ledger[r].source # "subscription",
           n.state = "refunded" <=> ledger[r].state = "refunded",
           UNCHANGED record
    PROVE  RecordsOK'
<1>1. /\ ledger'[r] = n
      /\ \A x \in Requests : x # r => ledger'[x] = ledger[x]
  BY DEF RowsOK
<1> QED
  BY <1>1 DEF RecordsOK, RecordFollowsLedger

\* The shape of a row that keeps what it stands for.
LEMMA FinishedFields ==
    ASSUME NEW l, RowInv(l), NEW outcome, NEW q
    PROVE  /\ Finished(l, outcome, q).version = l.version + 1
           /\ Finished(l, outcome, q).state = outcome
           /\ Finished(l, outcome, q).source = l.source
           /\ Finished(l, outcome, q).applied = q
  BY DEF Finished, RowInv, LedgerRow

\* An intent changes version, state, desired outcome and target, and keeps
\* the money and the source of a row.
LEMMA ToReconcileFields ==
    ASSUME NEW l, RowInv(l), NEW outcome \in Outcomes, NEW q \in Quota, NEW due \in BOOLEAN
    PROVE  /\ ToReconcile(l, outcome, q, due).version = l.version + 1
           /\ ToReconcile(l, outcome, q, due).state = "reconcile_required"
           /\ ToReconcile(l, outcome, q, due).source = l.source
           /\ ToReconcile(l, outcome, q, due).applied = l.applied
  BY DEF ToReconcile, RowInv, LedgerRow

\* Assigning the settlement channel changes nothing else of a row.
LEMMA WithChannelFields ==
    ASSUME NEW l, NEW c, RowInv(l)
    PROVE  /\ WithChannel(l, c).version = l.version
           /\ WithChannel(l, c).state = l.state
           /\ WithChannel(l, c).source = l.source
           /\ WithChannel(l, c).applied = l.applied
  BY DEF WithChannel, RowInv, LedgerRow

-----------------------------------------------------------------------------
(* Transactions.                                                            *)

\* mutateLockedBillingLedgerTx preserves the invariant, whoever calls it.
LEMMA TransitStep ==
    ASSUME PartsOK, NEW r \in Requests, NEW outcome \in Outcomes, NEW q \in Quota,
           NEW c \in Channels \cup {None}, NEW t \in TaskRow,
           outcome = "refunded" => q = 0,
           Transit(r, outcome, q, c, t)
    PROVE  PartsOK'
<1> DEFINE l == WithChannel(ledger[r], c)
           n == Finished(l, outcome, q)
<1>1. /\ RowInv(ledger[r])
      /\ ledger[r].state \notin {"absent", "refunded"}
  BY DEF PartsOK, RowsOK, Transit, Commits
<1>2. RowInv(l)
  BY <1>1, WithChannelRow
<1>3. /\ l.state = ledger[r].state /\ l.version = ledger[r].version
      /\ l.source = ledger[r].source /\ l.applied = ledger[r].applied
  BY <1>1, WithChannelFields
<1>4. RowInv(n)
  BY <1>1, <1>2, <1>3, FinishedRow DEF Transit
<1>5. n.version = l.version + 1 /\ n.state = outcome /\ n.source = l.source
  BY <1>2, FinishedFields
<1>6. ledger' = [ledger EXCEPT ![r] = n]
  BY DEF Transit
<1> HIDE DEF n
<1>7. RowsOK'
  BY <1>4, <1>6, RowsStep DEF PartsOK
<1>8. BalancesOK'
  <2>1. q - l.applied \in Int
    BY <1>2, Bounds DEF RowInv, LedgerRow, Quota
  <2> QED
    BY <1>2, <2>1, BalancesStep DEF PartsOK, Transit
<1>9. CountersOK'
  BY <1>2, CountersStep DEF PartsOK, Transit, Commits
<1>10. TasksOK'
  BY DEF PartsOK, TasksOK, Transit
<1>11. RecordsOK'
  <2>1. /\ ledger'[r] = n
        /\ \A x \in Requests : x # r => ledger'[x] = ledger[x]
    BY <1>6 DEF PartsOK, RowsOK
  <2>2. record' = RecordAfter(r, outcome)
    BY DEF Transit
  <2> QED
    BY <1>1, <1>3, <1>5, <2>1, <2>2
    DEF PartsOK, RecordsOK, RecordFollowsLedger, RecordAfter, Outcomes
<1>12. EventsOK'
  <2>1. outcome \in EventTypes
    BY DEF Outcomes, EventTypes
  <2>2. Emit(r, outcome, n.version)
    BY <1>5 DEF Transit
  <2> QED
    BY <1>3, <1>4, <1>5, <1>6, <2>1, <2>2, EventsPublished DEF PartsOK
<1> QED
  BY <1>7, <1>8, <1>9, <1>10, <1>11, <1>12 DEF PartsOK

\* What a transaction does not write stays as it was.
LEMMA Frames ==
    /\ RowsOK /\ UNCHANGED ledger => RowsOK'
    /\ BalancesOK /\ UNCHANGED balances => BalancesOK'
    /\ CountersOK /\ UNCHANGED <<stats, channel>> => CountersOK'
    /\ TasksOK /\ UNCHANGED task => TasksOK'
    /\ RecordsOK /\ UNCHANGED <<ledger, record>> => RecordsOK'
    /\ EventsOK /\ UNCHANGED <<ledger, outbox>> => EventsOK'
<1>1. RowsOK /\ UNCHANGED ledger => RowsOK'
  BY DEF RowsOK, RowInv
<1>2. BalancesOK /\ UNCHANGED balances => BalancesOK'
  BY DEF BalancesOK, balances, WithinSubscription
<1>3. CountersOK /\ UNCHANGED <<stats, channel>> => CountersOK'
  BY DEF CountersOK
<1>4. TasksOK /\ UNCHANGED task => TasksOK'
  BY DEF TasksOK
<1>5. RecordsOK /\ UNCHANGED <<ledger, record>> => RecordsOK'
  BY DEF RecordsOK, RecordFollowsLedger
<1>6. EventsOK /\ UNCHANGED <<ledger, outbox>> => EventsOK'
  BY DEF EventsOK, EventsNotAhead, TerminalIsPublished
<1> QED
  BY <1>1, <1>2, <1>3, <1>4, <1>5, <1>6

\* A transaction that writes one ledger row and perhaps a task row, moves no
\* money and publishes nothing: the marks, the acknowledgement, the clocks.
LEMMA SilentStep ==
    ASSUME PartsOK, NEW r \in Requests, NEW n, RowInv(n),
           ledger' = [ledger EXCEPT ![r] = n],
           n.version >= ledger[r].version,
           n.source = ledger[r].source,
           n.state \in Outcomes => n.state = ledger[r].state /\ n.version = ledger[r].version,
           ledger[r].state # "refunded",
           TasksOK', UNCHANGED <<balances, stats, channel, record, outbox>>
    PROVE  PartsOK'
<1>1. n.state # "refunded"
  BY DEF Outcomes
<1>2. RowsOK'
  BY RowsStep DEF PartsOK
<1>3. RecordsOK'
  BY <1>1, RecordsSilent DEF PartsOK
<1>4. EventsOK'
  BY EventsSilent DEF PartsOK
<1> QED
  BY <1>2, <1>3, <1>4, Frames DEF PartsOK

\* A step that only writes the wallet, tokens or subscriptions.
LEMMA BalancesOnlyStep ==
    ASSUME PartsOK, BalancesOK',
           UNCHANGED <<ledger, stats, channel, task, record, outbox>>
    PROVE  PartsOK'
  BY Frames DEF PartsOK

\* A step that only writes task rows.
LEMMA TasksOnlyStep ==
    ASSUME PartsOK, TasksOK',
           UNCHANGED <<ledger, balances, stats, channel, record, outbox>>
    PROVE  PartsOK'
  BY Frames DEF PartsOK

\* maybeResetUserSubscriptionWithPlanTx never takes a subscription over its
\* total.
LEMMA ResetRow ==
    ASSUME NEW u \in SubRow, SubTotal > 0 => u.used <= SubTotal
    PROVE  Reset(u) \in SubRow /\ (SubTotal > 0 => Reset(u).used <= SubTotal)
<1>1. CASE u.resetDue
  <2>1. Reset(u) = [u EXCEPT !.used = 0, !.waived = u.waived + u.used, !.resetDue = FALSE]
    BY <1>1 DEF Reset
  <2>2. [u EXCEPT !.used = 0, !.waived = u.waived + u.used, !.resetDue = FALSE] \in SubRow
    <3>1. u.waived + u.used \in Nat
      BY DEF SubRow
    <3>2. \A w \in Nat : [u EXCEPT !.used = 0, !.waived = w, !.resetDue = FALSE] \in SubRow
      BY DEF SubRow
    <3> QED
      BY <3>1, <3>2
  <2>3. [u EXCEPT !.used = 0, !.waived = u.waived + u.used, !.resetDue = FALSE].used = 0
    BY DEF SubRow
  <2> QED
    BY <2>1, <2>2, <2>3, Bounds
<1>2. CASE ~u.resetDue
  BY <1>2 DEF Reset
<1> QED
  BY <1>1, <1>2

\* ReserveBillingLedger from the wallet keeps every part.
LEMMA ReserveWalletStep ==
    ASSUME PartsOK, "wallet" \in Sources,
           NEW r \in Requests, NEW m \in Modes, NEW t \in Tokens \cup {None},
           NEW c \in Channels \cup {None}, NEW q \in Quota,
           ReserveWallet(r, m, t, c, q)
    PROVE  PartsOK'
<1> DEFINE n == NewRow(m, "wallet", t, c, None, q)
<1>1. RowInv(n)
  BY NewRowRow
<1>2. n.version = 1 /\ n.state = "reserved" /\ n.source = "wallet"
  BY DEF NewRow, NoRow
<1>3. ledger[r].version = 0 /\ ledger[r].source = "wallet" /\ ledger[r].state = "absent"
  BY DEF PartsOK, RowsOK, RowInv, NoRow, ReserveWallet
<1>4. /\ ledger' = [ledger EXCEPT ![r] = n] /\ AdjustBalances(n, q) /\ Emit(r, "reserved", 1)
      /\ UNCHANGED <<stats, channel, task, record>>
  BY DEF ReserveWallet
<1> HIDE DEF n
<1>5. RowsOK'
  BY <1>1, <1>4, RowsStep DEF PartsOK
<1>6. BalancesOK'
  <2>1. q \in Int
    BY Bounds DEF Quota
  <2> QED
    BY <1>1, <1>4, <2>1, BalancesStep DEF PartsOK
<1>7. RecordsOK'
  BY <1>1, <1>2, <1>3, <1>4, RecordsSilent DEF PartsOK
<1>8. EventsOK'
  <2>1. n.version = ledger[r].version + 1 /\ Emit(r, "reserved", n.version)
    BY <1>2, <1>3, <1>4
  <2>2. "reserved" \in EventTypes /\ n.state \notin Outcomes
    BY <1>2 DEF EventTypes, Outcomes
  <2> QED
    BY <1>1, <1>4, <2>1, <2>2, EventsPublished DEF PartsOK
<1> QED
  BY <1>4, <1>5, <1>6, <1>7, <1>8, Frames DEF PartsOK

\* ReserveBillingLedger from a subscription keeps every part: the due resets
\* on the way and the reservation stay within the total.
LEMMA ReserveSubscriptionStep ==
    ASSUME PartsOK, "subscription" \in Sources,
           NEW r \in Requests, NEW m \in Modes, NEW t \in Tokens \cup {None},
           NEW c \in Channels \cup {None}, NEW q \in Quota,
           ReserveSubscription(r, m, t, c, q)
    PROVE  PartsOK'
<1>1. PICK s \in Subs :
        LET n == NewRow(m, "subscription", t, c, s, q) IN
        /\ FirstWithRoom(s, q)
        /\ TokenMoves(n, q)
        /\ sub' = SubAfterReserve(s, q)
        /\ token' = TokenAfter(n, q)
        /\ ledger' = [ledger EXCEPT ![r] = n]
  BY DEF ReserveSubscription
<1> DEFINE n == NewRow(m, "subscription", t, c, s, q)
<1>2. RowInv(n)
  BY NewRowRow
<1>3. n.version = 1 /\ n.state = "reserved" /\ n.source = "subscription" /\ n.token = t
  BY DEF NewRow, NoRow
<1>4. ledger[r].version = 0 /\ ledger[r].source = "wallet" /\ ledger[r].state = "absent"
  BY DEF PartsOK, RowsOK, RowInv, NoRow, ReserveSubscription
<1>5. /\ ledger' = [ledger EXCEPT ![r] = n]
      /\ TokenMoves(n, q) /\ token' = TokenAfter(n, q)
      /\ Emit(r, "reserved", 1) /\ record' = [record EXCEPT ![r] = "consumed"]
      /\ UNCHANGED <<wallet, credited, stats, channel, task>>
  BY <1>1 DEF ReserveSubscription
<1>6. q \in Nat
  BY Bounds DEF Quota
<1> HIDE DEF n
<1>7. RowsOK'
  BY <1>2, <1>5, RowsStep DEF PartsOK
<1>8. BalancesOK'
  <2>1. token' \in [Tokens -> TokenRow]
    <3>1. CASE t = None
      BY <1>3, <1>5, <3>1 DEF TokenAfter, PartsOK, BalancesOK
    <3>2. CASE t # None
      <4> DEFINE u == token[t]
      <4>1. u \in TokenRow /\ t \in Tokens
        BY <3>2 DEF PartsOK, BalancesOK
      <4>2. /\ u.used + q \in Nat
            /\ (IF u.unlimited THEN u.remain ELSE u.remain - q) \in Nat
        BY <1>3, <1>5, <1>6, <3>2, <4>1 DEF TokenMoves, TokenRow
      <4>3. token' = [token EXCEPT ![t] =
                         [u EXCEPT !.used = u.used + q,
                                   !.remain = IF u.unlimited THEN u.remain ELSE u.remain - q]]
        BY <1>3, <1>5, <3>2, <4>1 DEF TokenAfter, PartsOK, BalancesOK
      <4> QED
        BY <4>1, <4>2, <4>3 DEF PartsOK, BalancesOK, TokenRow
    <3> QED
      BY <3>1, <3>2
  <2>2. ASSUME NEW x \in Subs
        PROVE  sub'[x] \in SubRow /\ (SubTotal > 0 => sub'[x].used <= SubTotal)
    <3>1. sub[x] \in SubRow /\ (SubTotal > 0 => sub[x].used <= SubTotal)
      BY DEF PartsOK, BalancesOK, WithinSubscription
    <3>2. Reset(sub[x]) \in SubRow /\ (SubTotal > 0 => Reset(sub[x]).used <= SubTotal)
      BY <3>1, ResetRow
    <3>3. CASE x = s
      <4>1. SubTotal > 0 => Reset(sub[x]).used + q <= SubTotal
        BY <1>1, <3>3 DEF FirstWithRoom, HasRoom
      <4>2. sub'[x] = [Reset(sub[x]) EXCEPT !.used = Reset(sub[x]).used + q]
        BY <1>1, <3>3, SubsAssumption DEF SubAfterReserve, FirstWithRoom
      <4> QED
        BY <1>6, <3>2, <4>1, <4>2 DEF SubRow
    <3>4. CASE x # s
      <4>1. sub'[x] \in {[Reset(sub[x]) EXCEPT !.used = Reset(sub[x]).used], sub[x]}
        BY <1>1, <3>4 DEF SubAfterReserve
      <4>2. [Reset(sub[x]) EXCEPT !.used = Reset(sub[x]).used] = Reset(sub[x])
        BY <3>2 DEF SubRow
      <4> QED
        BY <3>1, <3>2, <4>1, <4>2
    <3> QED
      BY <3>3, <3>4
  <2>3. sub' \in [Subs -> SubRow] /\ WithinSubscription'
    BY <1>1, <2>2 DEF SubAfterReserve, WithinSubscription
  <2> QED
    BY <1>5, <2>1, <2>3 DEF PartsOK, BalancesOK
<1>9. RecordsOK'
  <2>1. /\ ledger'[r] = n
        /\ \A x \in Requests : x # r => ledger'[x] = ledger[x]
    BY <1>5 DEF PartsOK, RowsOK
  <2> QED
    BY <1>3, <1>5, <2>1 DEF PartsOK, RecordsOK, RecordFollowsLedger
<1>10. EventsOK'
  <2>1. n.version = ledger[r].version + 1 /\ Emit(r, "reserved", n.version)
    BY <1>3, <1>4, <1>5
  <2>2. "reserved" \in EventTypes /\ n.state \notin Outcomes
    BY <1>3 DEF EventTypes, Outcomes
  <2> QED
    BY <1>2, <1>5, <2>1, <2>2, EventsPublished DEF PartsOK
<1> QED
  BY <1>5, <1>7, <1>8, <1>9, <1>10, Frames DEF PartsOK

\* ReserveMoreBillingLedger keeps every part.
LEMMA ReserveMoreStep ==
    ASSUME PartsOK, NEW r \in Requests, NEW q \in Quota, ReserveMore(r, q)
    PROVE  PartsOK'
<1> DEFINE l == ledger[r]
           n == [l EXCEPT !.applied = q, !.target = q, !.version = @ + 1, !.stale = FALSE]
<1>1. RowInv(l) /\ l.state = "reserved" /\ l.version < MaxVersion
  BY DEF PartsOK, RowsOK, ReserveMore
<1>2. /\ n.version = l.version + 1 /\ n.state = "reserved" /\ n.source = l.source
      /\ n.applied = q /\ n.target = q /\ n.counted = l.counted /\ n.mode = l.mode
      /\ n.requestCounted = l.requestCounted /\ n.sub = l.sub
  BY <1>1 DEF RowInv, LedgerRow
<1>3. n \in LedgerRow /\ n.version >= 1
  <2>1. l \in LedgerRow /\ l.version \in 0..MaxVersion
    BY <1>1 DEF RowInv, LedgerRow
  <2>2. l.version + 1 \in 0..MaxVersion /\ l.version + 1 >= 1
    BY <1>1, <2>1, Bounds
  <2> QED
    BY <1>2, <2>1, <2>2 DEF LedgerRow
<1>4. ledger' = [ledger EXCEPT ![r] = n] /\ AdjustBalances(l, q - l.applied)
      /\ Emit(r, "reserved", l.version + 1) /\ UNCHANGED <<stats, channel, task, record>>
  BY DEF ReserveMore
<1> HIDE DEF n
<1>5. RowInv(n)
  BY <1>1, <1>2, <1>3 DEF RowInv, Outcomes
<1>6. RowsOK'
  BY <1>4, <1>5, RowsStep DEF PartsOK
<1>7. BalancesOK'
  <2>1. q - l.applied \in Int
    BY <1>1, Bounds DEF RowInv, LedgerRow, Quota
  <2> QED
    BY <1>1, <1>4, <2>1, BalancesStep DEF PartsOK
<1>8. RecordsOK'
  BY <1>1, <1>2, <1>4, <1>5, RecordsSilent DEF PartsOK
<1>9. EventsOK'
  <2>1. "reserved" \in EventTypes /\ n.state \notin Outcomes /\ Emit(r, "reserved", n.version)
    BY <1>2, <1>4 DEF EventTypes, Outcomes
  <2> QED
    BY <1>2, <1>4, <1>5, <2>1, EventsPublished DEF PartsOK
<1> QED
  BY <1>4, <1>6, <1>7, <1>8, <1>9, Frames DEF PartsOK

\* BindBillingLedgerTask keeps every part.
LEMMA BindTaskStep ==
    ASSUME PartsOK, NEW r \in Requests, BindTask(r)
    PROVE  PartsOK'
<1> DEFINE l == ledger[r]
           n == [l EXCEPT !.kind = "task", !.version = @ + 1, !.stale = FALSE]
<1>1. RowInv(l) /\ l.state = "reserved" /\ l.version < MaxVersion
  BY DEF PartsOK, RowsOK, BindTask
<1>2. /\ n.version = l.version + 1 /\ n.state = "reserved" /\ n.source = l.source
      /\ n.applied = l.applied /\ n.target = l.target /\ n.counted = l.counted
      /\ n.mode = l.mode /\ n.requestCounted = l.requestCounted /\ n.sub = l.sub
  BY <1>1 DEF RowInv, LedgerRow
<1>3. n \in LedgerRow /\ n.version >= 1
  <2>1. l \in LedgerRow /\ l.version \in 0..MaxVersion
    BY <1>1 DEF RowInv, LedgerRow
  <2>2. l.version + 1 \in 0..MaxVersion /\ l.version + 1 >= 1
    BY <1>1, <2>1, Bounds
  <2> QED
    BY <1>2, <2>1, <2>2 DEF LedgerRow
<1>4. ledger' = [ledger EXCEPT ![r] = n]
      /\ Emit(r, "task_bound", l.version + 1) /\ UNCHANGED <<balances, stats, channel, record>>
  BY DEF BindTask
<1> HIDE DEF n
<1>5. RowInv(n)
  BY <1>1, <1>2, <1>3 DEF RowInv, Outcomes
<1>6. RowsOK'
  BY <1>4, <1>5, RowsStep DEF PartsOK
<1>7. TasksOK'
  BY DEF PartsOK, TasksOK, BindTask, TaskRow, TaskStatuses
<1>8. RecordsOK'
  BY <1>1, <1>2, <1>4, <1>5, RecordsSilent DEF PartsOK
<1>9. EventsOK'
  <2>1. /\ "task_bound" \in EventTypes /\ n.state \notin Outcomes
        /\ Emit(r, "task_bound", n.version)
    BY <1>2, <1>4 DEF EventTypes, Outcomes
  <2> QED
    BY <1>2, <1>4, <1>5, <2>1, EventsPublished DEF PartsOK
<1> QED
  BY <1>4, <1>6, <1>7, <1>8, <1>9, Frames DEF PartsOK

\* AcknowledgeBillingLedgerTask keeps every part, whether it records an
\* intent or finds the row settled.
LEMMA AcknowledgeStep ==
    ASSUME PartsOK, NEW r \in Requests, NEW q \in Quota, Acknowledge(r, q)
    PROVE  PartsOK'
<1> DEFINE l == ledger[r]
           n == [ToReconcile(l, "settled", q, TRUE) EXCEPT !.kind = "task"]
<1>1. RowInv(l) /\ l.state \notin {"absent", "refunded"}
  BY DEF PartsOK, RowsOK, Acknowledge
<1>2. TasksOK'
  BY DEF PartsOK, TasksOK, Acknowledge, TaskRow, TaskStatuses
<1>3. UNCHANGED <<balances, stats, channel, record, outbox>>
  BY DEF Acknowledge
<1>4. CASE UNCHANGED ledger
  BY <1>2, <1>3, <1>4, TasksOnlyStep
<1>5. CASE l.version < MaxVersion /\ ledger' = [ledger EXCEPT ![r] = n]
  <2> DEFINE k == ToReconcile(l, "settled", q, TRUE)
  <2>1. RowInv(k)
    BY <1>1, <1>5, ToReconcileRow DEF Outcomes
  <2>2. k.version = l.version + 1 /\ k.state = "reconcile_required" /\ k.source = l.source
    BY <1>1, ToReconcileFields DEF Outcomes
  <2> HIDE DEF k
  <2>3. RowInv([k EXCEPT !.kind = "task"])
    BY <2>1, <2>2 DEF RowInv, LedgerRow
  <2>4. /\ [k EXCEPT !.kind = "task"].version = k.version
        /\ [k EXCEPT !.kind = "task"].state = k.state
        /\ [k EXCEPT !.kind = "task"].source = k.source
    BY <2>1 DEF RowInv, LedgerRow
  <2>5. ledger' = [ledger EXCEPT ![r] = [k EXCEPT !.kind = "task"]]
    BY <1>5 DEF k
  <2>6. l.version \in Nat
    BY <1>1, Bounds DEF RowInv, LedgerRow
  <2>7. /\ [k EXCEPT !.kind = "task"].version >= l.version
        /\ [k EXCEPT !.kind = "task"].state \notin Outcomes
    BY <2>2, <2>4, <2>6 DEF Outcomes
  <2> QED
    BY <1>1, <1>2, <1>3, <2>2, <2>3, <2>4, <2>5, <2>7, SilentStep
<1> QED
  BY <1>4, <1>5 DEF Acknowledge

\* The functions that record an intent, MarkBillingLedgerForReconcile and
\* MarkStaleReservedBillingLedgerForReconcileContext.
LEMMA IntentStep ==
    ASSUME PartsOK, NEW r \in Requests, NEW outcome \in Outcomes, NEW q \in Quota,
           NEW c \in Channels \cup {None}, NEW due \in BOOLEAN,
           outcome = "refunded" => q = 0,
           ledger[r].state \notin {"absent", "refunded"}, ledger[r].version < MaxVersion,
           ledger' = [ledger EXCEPT ![r] =
               ToReconcile(WithChannel(ledger[r], c), outcome, q, due)],
           UNCHANGED <<balances, stats, channel, task, record, outbox>>
    PROVE  PartsOK'
<1> DEFINE l == WithChannel(ledger[r], c)
           n == ToReconcile(l, outcome, q, due)
<1>1. RowInv(ledger[r])
  BY DEF PartsOK, RowsOK
<1>2. /\ RowInv(l) /\ l.state = ledger[r].state /\ l.version = ledger[r].version
      /\ l.source = ledger[r].source
  BY <1>1, WithChannelRow, WithChannelFields
<1>3. RowInv(n)
  BY <1>2, ToReconcileRow
<1>4. n.version = l.version + 1 /\ n.state = "reconcile_required" /\ n.source = l.source
  BY <1>2, ToReconcileFields
<1>5. ledger[r].version \in Nat /\ TasksOK'
  BY <1>1, Bounds, Frames DEF RowInv, LedgerRow, PartsOK
<1>6. ledger' = [ledger EXCEPT ![r] = n]
  OBVIOUS
<1> HIDE DEF n
<1>7. n.version >= ledger[r].version /\ n.state \notin Outcomes
  BY <1>2, <1>4, <1>5 DEF Outcomes
<1> QED
  BY <1>2, <1>3, <1>4, <1>5, <1>6, <1>7, SilentStep

\* The clocks and the retry mark only write due, stale and the version.
LEMMA ClockStep ==
    ASSUME PartsOK, NEW r \in Requests,
           NEW v \in {ledger[r].version, ledger[r].version + 1},
           NEW due \in BOOLEAN, NEW stale \in BOOLEAN,
           ledger[r].state \in {"reserved", "reconcile_required"},
           v \in 0..MaxVersion,
           ledger' = [ledger EXCEPT ![r] =
               [ledger[r] EXCEPT !.version = v, !.due = due, !.stale = stale]],
           UNCHANGED <<balances, stats, channel, task, record, outbox>>
    PROVE  PartsOK'
<1> DEFINE l == ledger[r]
           n == [l EXCEPT !.version = v, !.due = due, !.stale = stale]
<1>1. RowInv(l) /\ l \in LedgerRow /\ l.version \in Nat /\ l.version >= 1
  BY Bounds DEF PartsOK, RowsOK, RowInv, LedgerRow
<1>2. n \in LedgerRow
  BY <1>1 DEF LedgerRow
<1>3. /\ n.state = l.state /\ n.source = l.source /\ n.version = v /\ n.mode = l.mode
      /\ n.desired = l.desired /\ n.applied = l.applied /\ n.target = l.target
      /\ n.counted = l.counted /\ n.requestCounted = l.requestCounted /\ n.sub = l.sub
  BY <1>1 DEF LedgerRow
<1>4. ledger' = [ledger EXCEPT ![r] = n]
  OBVIOUS
<1>5. v >= l.version /\ l.state # "refunded" /\ l.state # "absent" /\ l.state \notin Outcomes
  BY <1>1 DEF Outcomes
<1>6. TasksOK'
  BY Frames DEF PartsOK
<1> HIDE DEF n
<1>7. RowInv(n)
  BY <1>1, <1>2, <1>3, <1>5 DEF RowInv
<1> QED
  BY <1>3, <1>4, <1>5, <1>6, <1>7, SilentStep

\* So does every transaction of a request.
LEMMA RequestStepOK ==
    ASSUME PartsOK, NEW r \in Requests, RequestStep(r)
    PROVE  PartsOK'
<1>0. /\ task[r] \in TaskRow /\ FailedIfNotStarted(task[r]) \in TaskRow
      /\ 0 \in Quota /\ None \in Channels \cup {None}
  BY Bounds DEF PartsOK, TasksOK, FailedIfNotStarted, TaskRow, TaskStatuses, Quota
<1>1. ASSUME NEW m \in Modes, NEW src \in Sources, NEW t \in Tokens \cup {None},
             NEW c \in Channels \cup {None}, NEW q \in Quota, Reserve(r, m, src, t, c, q)
      PROVE  PartsOK'
  BY <1>1, ReserveWalletStep, ReserveSubscriptionStep DEF Reserve
<1>2. ASSUME NEW q \in Quota, ReserveMore(r, q) PROVE PartsOK'
  BY <1>2, ReserveMoreStep
<1>3. CASE BindTask(r)
  BY <1>3, BindTaskStep
<1>4. ASSUME NEW q \in Quota, NEW c \in Channels \cup {None}, Settle(r, q, c)
      PROVE  PartsOK'
  BY <1>0, <1>4, TransitStep DEF Settle, Outcomes
<1>5. ASSUME NEW q \in Quota, NEW st \in TaskStatuses \ {"none"}, SettleWithTask(r, q, st)
      PROVE  PartsOK'
  <2>1. [status |-> st, upstream |-> TRUE] \in TaskRow
    BY DEF TaskRow, TaskStatuses
  <2> QED
    BY <1>0, <1>5, <2>1, TransitStep DEF SettleWithTask, Outcomes
<1>6. CASE Refund(r)
  BY <1>0, <1>6, TransitStep DEF Refund, Outcomes
<1>7. ASSUME NEW q \in Quota, Acknowledge(r, q) PROVE PartsOK'
  BY <1>7, AcknowledgeStep
<1>8. ASSUME NEW o \in Outcomes, NEW q \in Quota, NEW c \in Channels \cup {None},
             MarkForReconcile(r, o, q, c)
      PROVE  PartsOK'
  <2>1. RowInv(ledger[r])
    BY DEF PartsOK, RowsOK
  <2>2. ledger[r].state \notin {"absent", "refunded"} /\ ledger[r].version < MaxVersion
    BY <1>8, <2>1, WithChannelFields DEF MarkForReconcile
  <2> QED
    BY <1>8, <2>2, IntentStep DEF MarkForReconcile
<1> QED
  BY <1>1, <1>2, <1>3, <1>4, <1>5, <1>6, <1>7, <1>8 DEF RequestStep

\* So does every fenced transaction of a reconciler.
LEMMA ReconcilerStepOK ==
    ASSUME PartsOK, NEW r \in Requests, ReconcilerStep(r)
    PROVE  PartsOK'
<1> DEFINE l == ledger[r]
<1>0. /\ task[r] \in TaskRow /\ FailedIfNotStarted(task[r]) \in TaskRow
      /\ 0 \in Quota /\ None \in Channels \cup {None}
  BY Bounds DEF PartsOK, TasksOK, FailedIfNotStarted, TaskRow, TaskStatuses, Quota
<1>1. RowInv(l) /\ l \in LedgerRow
  BY DEF PartsOK, RowsOK
<1>2. CASE RefundStale(r, l.kind, l.version)
  BY <1>0, <1>2, TransitStep DEF RefundStale, Refund, Outcomes
<1>3. CASE MarkStale(r, l.kind, l.version)
  <2>1. ledger' = [ledger EXCEPT ![r] =
                      ToReconcile(WithChannel(l, None), "refunded", 0, FALSE)]
    BY <1>3 DEF MarkStale, WithChannel
  <2>2. l.state = "reserved" /\ l.version < MaxVersion
        /\ UNCHANGED <<balances, stats, channel, task, record, outbox>>
    BY <1>3 DEF MarkStale, StaleFence
  <2>3. "refunded" \in Outcomes
    BY DEF Outcomes
  <2> QED
    BY <1>0, <2>1, <2>2, <2>3, IntentStep
<1>4. CASE Replay(r, l.version, l.desired, l.target)
  <2>1. l.state = "reconcile_required"
    BY <1>4 DEF Replay, ReplayFence
  <2>2. l.desired \in Outcomes /\ l.target \in Quota
        /\ (l.desired = "refunded" => l.target = 0)
    BY <1>1, <2>1 DEF RowInv, LedgerRow
  <2>3. (IF l.desired = "refunded" THEN FailedIfNotStarted(task[r]) ELSE task[r]) \in TaskRow
    BY <1>0
  <2> QED
    BY <1>0, <1>4, <2>2, <2>3, TransitStep DEF Replay
<1>5. CASE MarkRetry(r, l.version, l.desired, l.target)
  <2>1. l.version + 1 \in 0..MaxVersion
    <3>1. l.version \in 0..MaxVersion /\ l.version < MaxVersion
      BY <1>1, <1>5 DEF LedgerRow, MarkRetry
    <3> QED
      BY <3>1, Bounds
  <2>2. l.state = "reconcile_required"
        /\ UNCHANGED <<balances, stats, channel, task, record, outbox>>
    BY <1>5 DEF MarkRetry, ReplayFence
  <2>3. ledger' = [ledger EXCEPT ![r] =
                      [l EXCEPT !.version = l.version + 1, !.due = FALSE, !.stale = FALSE]]
    BY <1>1, <1>5 DEF MarkRetry, PartsOK, RowsOK
  <2> QED
    BY <2>1, <2>2, <2>3, ClockStep, Zenon
<1> QED
  BY <1>2, <1>3, <1>4, <1>5 DEF ReconcilerStep

\* So does every write of a poller.
LEMMA PollerStepOK ==
    ASSUME PartsOK, NEW r \in Requests, PollerStep(r)
    PROVE  PartsOK'
<1>1. ASSUME NEW st \in {"SUCCESS", "FAILURE"}, NEW up \in BOOLEAN, NEW q \in Quota,
             TaskFinish(r, task[r].status, st, up, q)
      PROVE  PartsOK'
  <2> DEFINE t == [status |-> st, upstream |-> up]
  <2>1. t \in TaskRow /\ OutcomeOf(st) \in Outcomes /\ (OutcomeOf(st) = "refunded" => q = 0)
    BY <1>1 DEF TaskRow, TaskStatuses, OutcomeOf, Outcomes, TaskFinish
  <2>2. CASE Transit(r, OutcomeOf(st), q, None, t)
    BY <2>1, <2>2, TransitStep
  <2>3. CASE /\ task' = [task EXCEPT ![r] = t]
             /\ UNCHANGED <<ledger, balances, stats, channel, record, outbox>>
    <3>1. TasksOK'
      BY <2>1, <2>3 DEF PartsOK, TasksOK
    <3> QED
      BY <2>3, <3>1, TasksOnlyStep
  <2> QED
    BY <1>1, <2>2, <2>3 DEF TaskFinish
<1>2. ASSUME NEW st \in Reported, NEW up \in BOOLEAN,
             UpdateWithStatus(r, task[r].status, st, up)
      PROVE  PartsOK'
  <2>1. TasksOK'
    BY <1>2 DEF PartsOK, TasksOK, UpdateWithStatus, Reported, TaskRow, TaskStatuses
  <2> QED
    BY <1>2, <2>1, TasksOnlyStep DEF UpdateWithStatus
<1>3. CASE TaskBulkFail(r)
  <2>1. TasksOK'
    BY <1>3 DEF PartsOK, TasksOK, TaskBulkFail, TaskRow, TaskStatuses
  <2> QED
    BY <1>3, <2>1, TasksOnlyStep DEF TaskBulkFail
<1> QED
  BY <1>1, <1>2, <1>3 DEF PollerStep

\* So does the passing of time.
LEMMA TimeStepOK ==
    ASSUME PartsOK, NEW r \in Requests, GrowStale(r) \/ FallDue(r)
    PROVE  PartsOK'
<1> DEFINE l == ledger[r]
<1>1. l \in LedgerRow /\ l.version \in 0..MaxVersion /\ l.due \in BOOLEAN /\ l.stale \in BOOLEAN
  BY DEF PartsOK, RowsOK, LedgerRow
<1>2. CASE GrowStale(r)
  <2>1. ledger' = [ledger EXCEPT ![r] =
                      [l EXCEPT !.version = l.version, !.due = l.due, !.stale = TRUE]]
    BY <1>1, <1>2 DEF GrowStale, PartsOK, RowsOK, LedgerRow
  <2>2. l.state = "reserved" /\ UNCHANGED <<balances, stats, channel, task, record, outbox>>
    BY <1>2 DEF GrowStale
  <2> QED
    BY <1>1, <2>1, <2>2, ClockStep, Zenon
<1>3. CASE FallDue(r)
  <2>1. ledger' = [ledger EXCEPT ![r] =
                      [l EXCEPT !.version = l.version, !.due = TRUE, !.stale = l.stale]]
    BY <1>1, <1>3 DEF FallDue, PartsOK, RowsOK, LedgerRow
  <2>2. /\ l.state = "reconcile_required"
        /\ UNCHANGED <<balances, stats, channel, task, record, outbox>>
    BY <1>3 DEF FallDue
  <2> QED
    BY <1>1, <2>1, <2>2, ClockStep, Zenon
<1> QED
  BY <1>2, <1>3

\* So does everything administrators do to tokens, channels, subscriptions
\* and wallets.
LEMMA AdministrationOK ==
    ASSUME PartsOK, Administration
    PROVE  PartsOK'
<1> USE DEF PartsOK
<1>1. ASSUME NEW n \in 1..MaxQuota, Credit(n) PROVE PartsOK'
  <2>1. BalancesOK'
    BY <1>1, Bounds DEF Credit, BalancesOK, WithinSubscription
  <2> QED
    BY <1>1, <2>1, BalancesOnlyStep DEF Credit
<1>2. ASSUME NEW t \in Tokens, NEW n \in Quota, NEW u \in BOOLEAN, EditToken(t, n, u)
      PROVE  PartsOK'
  <2>1. token' \in [Tokens -> TokenRow]
    <3>1. token[t] \in TokenRow /\ n \in Nat
      BY Bounds DEF BalancesOK, Quota
    <3>2. [token[t] EXCEPT !.remain = n, !.unlimited = u] \in TokenRow
      BY <3>1 DEF TokenRow
    <3>3. token' = [token EXCEPT ![t] = [token[t] EXCEPT !.remain = n, !.unlimited = u]]
      BY <1>2 DEF EditToken, BalancesOK
    <3> QED
      BY <3>2, <3>3 DEF BalancesOK
  <2>2. BalancesOK'
    BY <1>2, <2>1 DEF EditToken, BalancesOK, WithinSubscription
  <2> QED
    BY <1>2, <2>2, BalancesOnlyStep DEF EditToken
<1>3. ASSUME NEW t \in Tokens, DeleteToken(t) PROVE PartsOK'
  <2>1. BalancesOK'
    BY <1>3 DEF DeleteToken, BalancesOK, TokenRow, WithinSubscription
  <2> QED
    BY <1>3, <2>1, BalancesOnlyStep DEF DeleteToken
<1>4. ASSUME NEW c \in Channels, DeleteChannel(c) PROVE PartsOK'
  <2>1. CountersOK'
    BY <1>4 DEF DeleteChannel, CountersOK, ChannelRow
  <2> QED
    BY <1>4, <2>1, Frames DEF DeleteChannel
<1>5. ASSUME NEW s \in Subs, PeriodEnds(s) \/ ResetSubscription(s) PROVE PartsOK'
  <2>1. sub[s] \in SubRow /\ (SubTotal > 0 => sub[s].used <= SubTotal)
    BY DEF BalancesOK, WithinSubscription
  <2>2. PICK u \in SubRow : (SubTotal > 0 => u.used <= SubTotal)
                             /\ sub' = [sub EXCEPT ![s] = u]
    <3>1. CASE PeriodEnds(s)
      <4>1. /\ [sub[s] EXCEPT !.resetDue = TRUE] \in SubRow
            /\ [sub[s] EXCEPT !.resetDue = TRUE].used = sub[s].used
        BY <2>1 DEF SubRow
      <4>2. sub' = [sub EXCEPT ![s] = [sub[s] EXCEPT !.resetDue = TRUE]]
        BY <3>1 DEF PeriodEnds, BalancesOK
      <4> QED
        BY <2>1, <4>1, <4>2
    <3>2. CASE ResetSubscription(s)
      BY <2>1, <3>2, ResetRow DEF ResetSubscription, BalancesOK
    <3> QED
      BY <1>5, <3>1, <3>2
  <2>3. BalancesOK'
    BY <1>5, <2>2 DEF PeriodEnds, ResetSubscription, BalancesOK, WithinSubscription
  <2> QED
    BY <1>5, <2>3, BalancesOnlyStep DEF PeriodEnds, ResetSubscription
<1>6. ASSUME NEW s \in Subs, NEW st \in {"expired", "deleted"}, EndSubscription(s, st)
      PROVE  PartsOK'
  <2>1. /\ sub[s] \in SubRow
        /\ sub' = [sub EXCEPT ![s] = [sub[s] EXCEPT !.status = st]]
    BY <1>6 DEF EndSubscription, BalancesOK
  <2>2. /\ [sub[s] EXCEPT !.status = st] \in SubRow
        /\ [sub[s] EXCEPT !.status = st].used = sub[s].used
    BY <2>1 DEF SubRow
  <2>3. BalancesOK'
    BY <1>6, <2>1, <2>2 DEF EndSubscription, BalancesOK, WithinSubscription
  <2> QED
    BY <1>6, <2>3, BalancesOnlyStep DEF EndSubscription
<1>7. ASSUME NEW r \in Requests, CleanRecord(r) PROVE PartsOK'
  <2>1. RecordsOK'
    BY <1>7 DEF CleanRecord, RecordsOK, RecordFollowsLedger
  <2> QED
    BY <1>7, <2>1, Frames DEF CleanRecord
<1> QED
  BY <1>1, <1>2, <1>3, <1>4, <1>5, <1>6, <1>7 DEF Administration

-----------------------------------------------------------------------------
(* The invariant.                                                           *)

\* The parts hold at the start.
LEMMA InitOK == Init => PartsOK
<1> SUFFICES ASSUME Init PROVE PartsOK
  OBVIOUS
<1>1. RowInv(NoRow)
  <2>1. 0 \in Quota /\ 0 \in 0..MaxVersion
    BY Bounds DEF Quota
  <2> QED
    BY <2>1 DEF RowInv, NoRow, LedgerRow, States, Outcomes
<1>2. NoRow \in LedgerRow /\ NoRow.state = "absent" /\ NoRow.version = 0
  BY <1>1 DEF RowInv, NoRow
<1>3. RowsOK
  BY <1>1, <1>2 DEF RowsOK, Init
<1>4. BalancesOK
  BY Bounds DEF BalancesOK, Init, TokenRow, SubRow, WithinSubscription
<1>5. CountersOK /\ TasksOK
  BY DEF CountersOK, TasksOK, Init, StatsRow, ChannelRow, TaskRow, TaskStatuses, NoTask
<1>6. RecordsOK
  BY DEF RecordsOK, RecordFollowsLedger, Init
<1>7. EventsOK
  BY <1>2 DEF EventsOK, EventsNotAhead, TerminalIsPublished, Init, Outcomes
<1> QED
  BY <1>3, <1>4, <1>5, <1>6, <1>7 DEF PartsOK

\* Every step of the ledger keeps the parts.
LEMMA NextOK == PartsOK /\ [Next]_vars => PartsOK'
<1> SUFFICES ASSUME PartsOK, [Next]_vars PROVE PartsOK'
  OBVIOUS
<1>1. ASSUME NEW r \in Requests,
             \/ RequestStep(r) \/ ReconcilerStep(r) \/ PollerStep(r)
             \/ GrowStale(r) \/ FallDue(r)
      PROVE  PartsOK'
  BY <1>1, RequestStepOK, ReconcilerStepOK, PollerStepOK, TimeStepOK
<1>2. CASE Administration
  BY <1>2, AdministrationOK
<1>3. CASE UNCHANGED vars
  BY <1>3, Frames DEF vars, PartsOK
<1> QED
  BY <1>1, <1>2, <1>3 DEF Next

\* The parts are an invariant.
LEMMA PartsInvariant == Spec => []PartsOK
  BY InitOK, NextOK, PTL DEF Spec

\* Whatever the callers of model/billing_ledger.go do, in whatever order, every
\* committed state satisfies LedgerInv.
THEOREM LedgerInvariant == Spec => []LedgerInv
  BY PartsInvariant, Parts, PTL

=============================================================================
