-------------------------- MODULE BillingLedgerSteps --------------------------
(***************************************************************************)
(* What a single step of BillingLedger may do to a ledger row, and what    *)
(* follows from it.  Every step either leaves all rows alone or has the    *)
(* Effect below on exactly one of them, and moves the balances and the     *)
(* counters by as much as it moves that row.  Hence the action properties  *)
(* of BillingLedger, the fact that the ledger implements Escrow, and the   *)
(* conservation laws, which are about sums over all rows.                  *)
(***************************************************************************)
EXTENDS BillingLedgerProofs, FiniteSetTheorems

SameButClocks(l, n) == n = [l EXCEPT !.stale = n.stale, !.due = n.due]

\* What the requests of a subscription were charged, waived or not.
Booked(u) == u.used + u.waived

\* The balances and the counters follow a row that was l and becomes n.
BalancesFollow(l, n) ==
    /\ UNCHANGED credited
    /\ wallet' = wallet + WalletPart(l) - WalletPart(n)
    /\ \A t \in Tokens : token'[t].used = token[t].used + TokenPart(n, t) - TokenPart(l, t)
    /\ \A s \in Subs : Booked(sub'[s]) = Booked(sub[s]) + SubPart(n, s) - SubPart(l, s)

CountersFollow(l, n) ==
    /\ stats'.used = stats.used + n.counted - l.counted
    /\ l.requestCounted => n.requestCounted
    /\ stats'.requests =
           stats.requests + (IF n.requestCounted /\ ~l.requestCounted THEN 1 ELSE 0)
    /\ \A c \in Channels :
           channel'[c].used = channel[c].used + ChannelPart(n, c) - ChannelPart(l, c)

\* Rows that charge the same accounts the same amounts.
SameLegs(l, k) ==
    /\ k.applied = l.applied /\ k.source = l.source /\ k.token = l.token /\ k.sub = l.sub
    /\ k.counted = l.counted /\ k.requestCounted = l.requestCounted

\* Nothing that balances or counters stand for changes.
SameMoney(l, n) == SameLegs(l, n) /\ (l.counted # 0 => n.chan = l.chan)

\* Row r becomes n.
Effect(r, n) ==
    LET l == ledger[r] IN
    /\ ledger' = [ledger EXCEPT ![r] = n]
    /\ RowInv(n)
    /\ l.state # "refunded"
    /\ n.state # "absent"
    /\ l.state = "absent" => n.state = "reserved"
    /\ n.version = l.version + 1 \/ SameButClocks(l, n)
    /\ l.counted # 0 => n.chan = l.chan
    /\ n.applied # l.applied => \E type \in EventTypes : Emit(r, type, n.version)
    /\ BalancesFollow(l, n)
    /\ CountersFollow(l, n)

\* No row changes, and so does what stands for the rows: only a credit moves the
\* wallet, and a reset waives what it takes off.
NoEffect ==
    /\ UNCHANGED <<ledger, stats>>
    /\ wallet' \in Nat /\ wallet' >= wallet
    /\ wallet' - wallet = credited' - credited
    /\ \A t \in Tokens : token'[t].used = token[t].used
    /\ \A s \in Subs : Booked(sub'[s]) = Booked(sub[s])
    /\ \A c \in Channels : channel'[c].used = channel[c].used

\* The numbers of a row are numbers.
LEMMA RowFields ==
    ASSUME NEW l, RowInv(l)
    PROVE  /\ l.version \in Nat /\ l.applied \in Nat /\ l.counted \in Nat
           /\ l.chan \in Channels \cup {None} /\ l.token \in Tokens \cup {None}
           /\ l.source \in {"wallet", "subscription"}
           /\ l.source = "subscription" => l.sub \in Subs
           /\ l.requestCounted \in BOOLEAN
<1>1. l \in LedgerRow
  BY DEF RowInv
<1>2. l.version \in Nat /\ l.applied \in Nat /\ l.counted \in Nat
  BY <1>1, Bounds DEF LedgerRow, Quota
<1>3. /\ l.chan \in Channels \cup {None} /\ l.token \in Tokens \cup {None}
      /\ l.source \in Sources \cup {"wallet"}
  BY <1>1 DEF LedgerRow
<1>4. l.requestCounted \in BOOLEAN
  BY <1>1 DEF LedgerRow
<1>5. l.source = "subscription" => l.sub \in Subs
  BY DEF RowInv
<1>6. l.source \in {"wallet", "subscription"}
  BY <1>3, SourcesAssumption
<1> QED
  BY <1>2, <1>3, <1>4, <1>5, <1>6

\* The token leg of a transaction.
LEMMA TokenFollows ==
    ASSUME BalancesOK, NEW l, l.token \in Tokens \cup {None}, NEW d \in Int,
           token' = TokenAfter(l, d), NEW t \in Tokens
    PROVE  token'[t].used = token[t].used + (IF l.token = t THEN d ELSE 0)
<1>1. token \in [Tokens -> TokenRow] /\ token[t] \in TokenRow /\ token[t].used \in Nat
  BY DEF BalancesOK, TokenRow
<1>2. CASE l.token = t
  <2>1. t # None
    BY NoneAssumption
  <2>2. token'[t] = [token[t] EXCEPT !.used = token[t].used + d,
                        !.remain = IF token[t].unlimited THEN token[t].remain
                                   ELSE token[t].remain - d]
    BY <1>1, <1>2, <2>1 DEF TokenAfter
  <2> QED
    BY <1>1, <1>2, <2>2 DEF TokenRow
<1>3. CASE l.token # t
  BY <1>1, <1>3 DEF TokenAfter
<1> QED
  BY <1>2, <1>3

\* adjustLedgerBalancesTx moves the balances by what it moves the row.
LEMMA BalancesBooked ==
    ASSUME PartsOK, NEW l, RowInv(l), NEW n, RowInv(n),
           n.token = l.token, n.source = l.source, n.sub = l.sub,
           AdjustBalances(l, n.applied - l.applied)
    PROVE  BalancesFollow(l, n)
<1> DEFINE d == n.applied - l.applied
<1>1. /\ l.applied \in Nat /\ n.applied \in Nat /\ d \in Int /\ wallet \in Nat
      /\ l.token \in Tokens \cup {None} /\ l.source \in {"wallet", "subscription"}
  BY RowFields DEF PartsOK, BalancesOK
<1>2. UNCHANGED credited /\ wallet' = wallet + WalletPart(l) - WalletPart(n)
  BY <1>1 DEF AdjustBalances, WalletAfter, WalletPart
<1>3. ASSUME NEW t \in Tokens
      PROVE  token'[t].used = token[t].used + TokenPart(n, t) - TokenPart(l, t)
  <2>1. token'[t].used = token[t].used + (IF l.token = t THEN d ELSE 0)
    BY <1>1, TokenFollows DEF PartsOK, AdjustBalances
  <2>2. token[t].used \in Nat
    BY DEF PartsOK, BalancesOK, TokenRow
  <2> QED
    BY <1>1, <2>1, <2>2 DEF TokenPart
<1>4. ASSUME NEW s \in Subs
      PROVE  Booked(sub'[s]) = Booked(sub[s]) + SubPart(n, s) - SubPart(l, s)
  <2>1. /\ sub \in [Subs -> SubRow] /\ sub[s] \in SubRow
        /\ sub[s].used \in Nat /\ sub[s].waived \in Nat
    BY DEF PartsOK, BalancesOK, SubRow
  <2>2. CASE l.source = "subscription" /\ l.sub = s
    <3>1. CASE d = 0
      <4>1. sub'[s] = sub[s]
        BY <3>1 DEF AdjustBalances, SubAfter
      <4> QED
        BY <1>1, <2>1, <2>2, <3>1, <4>1 DEF SubPart, Booked
    <3>2. CASE d # 0
      <4>1. sub'[s] = [sub[s] EXCEPT !.used = sub[s].used + d]
        BY <1>1, <2>1, <2>2, <3>2 DEF AdjustBalances, SubAfter
      <4>2. sub'[s].used = sub[s].used + d /\ sub'[s].waived = sub[s].waived
        BY <2>1, <4>1 DEF SubRow
      <4> QED
        BY <1>1, <2>1, <2>2, <4>2 DEF SubPart, Booked
    <3> QED
      BY <3>1, <3>2
  <2>3. CASE ~(l.source = "subscription" /\ l.sub = s)
    <3>1. sub'[s] = sub[s]
      BY <2>1, <2>3 DEF AdjustBalances, SubAfter
    <3>2. SubPart(n, s) = 0 /\ SubPart(l, s) = 0
      BY <2>3 DEF SubPart
    <3> QED
      BY <2>1, <3>1, <3>2 DEF Booked
  <2> QED
    BY <2>2, <2>3
<1> QED
  BY <1>2, <1>3, <1>4 DEF BalancesFollow

\* updateBillingCountersTx moves the counters by what it moves the row, for the
\* channel the row is settled on.
LEMMA CountersBooked ==
    ASSUME PartsOK, NEW l, RowInv(l), NEW k, RowInv(k), NEW n, RowInv(n), NEW q \in Quota,
           UpdateCounters(k, q),
           k.counted = l.counted, k.requestCounted = l.requestCounted,
           l.counted # 0 => k.chan = l.chan, n.chan = k.chan,
           n.counted = IF k.mode = "enforce" THEN q ELSE k.counted,
           n.requestCounted <=> k.requestCounted \/ (k.mode = "enforce" /\ q > 0)
    PROVE  CountersFollow(l, n)
<1>1. /\ l.counted \in Nat /\ n.counted \in Nat /\ q \in Nat
      /\ k.chan \in Channels \cup {None}
  BY RowFields, Bounds DEF Quota
<1>2. /\ stats.used \in Nat /\ stats.requests \in Nat
      /\ channel \in [Channels -> ChannelRow]
  BY DEF PartsOK, CountersOK, StatsRow
<1>3. /\ stats'.used = stats.used + n.counted - l.counted
      /\ stats'.requests =
             stats.requests + (IF n.requestCounted /\ ~l.requestCounted THEN 1 ELSE 0)
  <2>1. CASE k.mode # "enforce"
    BY <1>1, <1>2, <2>1 DEF UpdateCounters
  <2>2. CASE k.mode = "enforce"
    BY <1>1, <1>2, <2>2 DEF UpdateCounters
  <2> QED
    BY <2>1, <2>2
<1>4. ASSUME NEW c \in Channels
      PROVE  channel'[c].used = channel[c].used + ChannelPart(n, c) - ChannelPart(l, c)
  <2>1. channel[c] \in ChannelRow /\ channel[c].used \in Nat /\ c # None
    BY <1>2, NoneAssumption DEF ChannelRow
  <2>2. ChannelPart(n, c) - ChannelPart(l, c)
            = IF k.chan = c THEN n.counted - l.counted ELSE 0
    BY <1>1 DEF ChannelPart
  <2>3. CASE k.mode # "enforce"
    BY <1>1, <2>1, <2>2, <2>3 DEF UpdateCounters
  <2>4. CASE k.mode = "enforce" /\ k.chan = c
    <3>1. channel'[c] = [channel[c] EXCEPT !.used = channel[c].used + (q - k.counted)]
      BY <1>2, <2>1, <2>4 DEF UpdateCounters
    <3> QED
      BY <1>1, <2>1, <2>2, <2>4, <3>1 DEF ChannelRow
  <2>5. CASE k.mode = "enforce" /\ k.chan # c
    <3>1. channel'[c] = channel[c]
      BY <1>2, <2>1, <2>5 DEF UpdateCounters
    <3> QED
      BY <2>1, <2>2, <2>5, <3>1
  <2> QED
    BY <2>3, <2>4, <2>5
<1> QED
  BY <1>3, <1>4 DEF CountersFollow

\* A row written without its money: nothing has to follow.
LEMMA QuietBooked ==
    ASSUME PartsOK, NEW l, RowInv(l), NEW n, SameMoney(l, n),
           UNCHANGED <<balances, stats, channel>>
    PROVE  BalancesFollow(l, n) /\ CountersFollow(l, n)
<1>1. /\ UNCHANGED <<wallet, credited, token, sub, stats, channel>>
      /\ l.applied \in Nat /\ l.counted \in Nat /\ wallet \in Nat
      /\ stats.used \in Nat /\ stats.requests \in Nat
      /\ \A t \in Tokens : token[t].used \in Nat
      /\ \A s \in Subs : sub[s].used \in Nat /\ sub[s].waived \in Nat
      /\ \A c \in Channels : channel[c].used \in Nat
  BY RowFields
  DEF balances, PartsOK, BalancesOK, CountersOK, StatsRow, TokenRow, SubRow, ChannelRow
<1>2. BalancesFollow(l, n)
  BY <1>1 DEF BalancesFollow, Booked, SameMoney, SameLegs, WalletPart, TokenPart, SubPart
<1>3. CountersFollow(l, n)
  BY <1>1 DEF CountersFollow, SameMoney, SameLegs, ChannelPart
<1> QED
  BY <1>2, <1>3

\* A step that touches neither rows nor money has no effect.
LEMMA IdleStep ==
    ASSUME PartsOK, UNCHANGED <<ledger, balances, stats, channel>>
    PROVE  NoEffect
  BY DEF NoEffect, balances, PartsOK, BalancesOK

\* A row that charges the same accounts the same amounts does as well.
LEMMA SameLegsFollow ==
    ASSUME NEW l, NEW k, NEW n, SameLegs(l, k), BalancesFollow(k, n)
    PROVE  BalancesFollow(l, n)
  BY DEF SameLegs, BalancesFollow, WalletPart, TokenPart, SubPart

\* A committed transition has an Effect: money, version, channel and event
\* move together.
LEMMA TransitEffect ==
    ASSUME PartsOK, NEW r \in Requests, NEW outcome \in Outcomes, NEW q \in Quota,
           NEW c \in Channels \cup {None}, NEW t \in TaskRow,
           outcome = "refunded" => q = 0,
           Transit(r, outcome, q, c, t)
    PROVE  \E n : Effect(r, n)
<1> DEFINE l == ledger[r]
           k == WithChannel(l, c)
           n == Finished(k, outcome, q)
<1>1. RowInv(l) /\ l.state \notin {"absent", "refunded"}
  BY DEF PartsOK, RowsOK, Transit, Commits
<1>2. RowInv(k) /\ k.version = l.version /\ k.state = l.state /\ SameLegs(l, k)
  BY <1>1, WithChannelRow, WithChannelFields DEF WithChannel, RowInv, LedgerRow, SameLegs
<1>3. RowInv(n)
  BY <1>1, <1>2, FinishedRow DEF Transit
<1>4. /\ n.version = k.version + 1 /\ n.state = outcome /\ n.applied = q /\ n.chan = k.chan
      /\ n.source = k.source /\ n.token = k.token /\ n.sub = k.sub
      /\ n.counted = IF k.mode = "enforce" THEN q ELSE k.counted
  BY <1>2 DEF Finished, RowInv, LedgerRow
<1>4a. n.requestCounted <=> k.requestCounted \/ (k.mode = "enforce" /\ q > 0)
  <2>1. n.requestCounted = (k.requestCounted \/ (k.mode = "enforce" /\ q > 0))
    BY <1>2 DEF Finished, RowInv, LedgerRow
  <2> QED
    BY <2>1
<1>5. l.counted # 0 => k.chan = l.chan
  <2>1. CASE c = None
    BY <2>1 DEF WithChannel
  <2>2. CASE c # None
    <3>1. c # l.chan => l.counted = 0
      BY <2>2 DEF Transit, Commits, ChannelAssignable
    <3>2. k.chan = c
      BY <1>1, <2>2 DEF WithChannel, RowInv, LedgerRow
    <3> QED
      BY <3>1, <3>2
  <2> QED
    BY <2>1, <2>2
<1>6. BalancesFollow(l, n)
  <2>1. AdjustBalances(k, n.applied - k.applied)
    BY <1>4 DEF Transit
  <2> HIDE DEF n, k
  <2>2. BalancesFollow(k, n)
    BY <1>2, <1>3, <1>4, <2>1, BalancesBooked
  <2> QED
    BY <1>2, <2>2, SameLegsFollow
<1>6a. CountersFollow(l, n)
  <2>1. UpdateCounters(k, q)
    BY DEF Transit
  <2> HIDE DEF n, k
  <2> QED
    BY <1>1, <1>2, <1>3, <1>4, <1>4a, <1>5, <2>1, CountersBooked DEF SameLegs
<1>7. ledger' = [ledger EXCEPT ![r] = n] /\ outcome \in EventTypes
      /\ Emit(r, outcome, n.version) /\ n.state # "absent"
  BY <1>2, <1>4 DEF Transit, Outcomes, EventTypes
<1> HIDE DEF n, k
<1> QED
  BY <1>1, <1>2, <1>3, <1>4, <1>5, <1>6, <1>6a, <1>7 DEF Effect

\* Steps that write a row and leave its money alone.
LEMMA QuietEffect ==
    ASSUME PartsOK, NEW r \in Requests, NEW n, RowInv(n),
           ledger' = [ledger EXCEPT ![r] = n], UNCHANGED <<balances, stats, channel>>,
           ledger[r].state \notin {"absent", "refunded"}, n.state # "absent",
           n.version = ledger[r].version + 1 \/ SameButClocks(ledger[r], n),
           SameMoney(ledger[r], n)
    PROVE  \E m : Effect(r, m)
<1>1. RowInv(ledger[r])
  BY DEF PartsOK, RowsOK
<1>2. BalancesFollow(ledger[r], n) /\ CountersFollow(ledger[r], n)
  BY <1>1, QuietBooked
<1>3. n.applied = ledger[r].applied /\ (ledger[r].counted # 0 => n.chan = ledger[r].chan)
  BY DEF SameMoney, SameLegs
<1> QED
  BY <1>2, <1>3 DEF Effect

\* Recording an intent has an Effect that moves no money.
LEMMA IntentEffect ==
    ASSUME PartsOK, NEW r \in Requests, NEW outcome \in Outcomes, NEW q \in Quota,
           NEW c \in Channels \cup {None}, NEW due \in BOOLEAN, NEW kind \in {"request", "task"},
           outcome = "refunded" => q = 0,
           ledger[r].state \notin {"absent", "refunded"}, ledger[r].version < MaxVersion,
           ChannelAssignable(ledger[r], c),
           ledger' = [ledger EXCEPT ![r] =
               [ToReconcile(WithChannel(ledger[r], c), outcome, q, due) EXCEPT !.kind = kind]],
           UNCHANGED <<balances, stats, channel>>
    PROVE  \E n : Effect(r, n)
<1> DEFINE l == ledger[r]
           k == WithChannel(l, c)
           m == ToReconcile(k, outcome, q, due)
           n == [m EXCEPT !.kind = kind]
<1>1. RowInv(l)
  BY DEF PartsOK, RowsOK
<1>2. RowInv(k) /\ k.version = l.version /\ k.state = l.state /\ SameLegs(l, k)
  BY <1>1, WithChannelRow, WithChannelFields DEF WithChannel, RowInv, LedgerRow, SameLegs
<1>3. RowInv(m)
  BY <1>2, ToReconcileRow
<1>4. /\ m.version = k.version + 1 /\ m.state = "reconcile_required" /\ m.chan = k.chan
      /\ SameLegs(k, m)
  BY <1>2 DEF ToReconcile, RowInv, LedgerRow, SameLegs
<1>5. l.counted # 0 => k.chan = l.chan
  BY <1>1 DEF ChannelAssignable, WithChannel, RowInv, LedgerRow
<1>6. ledger' = [ledger EXCEPT ![r] = n]
  OBVIOUS
<1> HIDE DEF m, k
<1>7. RowInv(n)
  BY <1>3, <1>4 DEF RowInv, LedgerRow
<1>8. n.version = m.version /\ n.state = m.state /\ n.chan = m.chan /\ SameLegs(m, n)
  BY <1>3 DEF RowInv, LedgerRow, SameLegs
<1> HIDE DEF n
<1>9. n.state # "absent" /\ SameMoney(l, n)
  BY <1>2, <1>4, <1>5, <1>8 DEF SameLegs, SameMoney
<1> QED
  BY <1>2, <1>4, <1>6, <1>7, <1>8, <1>9, QuietEffect

\* maybeResetUserSubscriptionWithPlanTx waives what it takes off.
LEMMA ResetWaives ==
    ASSUME NEW u \in SubRow
    PROVE  /\ Reset(u) \in SubRow /\ Reset(u).used \in Nat /\ Reset(u).waived \in Nat
           /\ Booked(Reset(u)) = Booked(u)
<1>1. u.used \in Nat /\ u.waived \in Nat
  BY DEF SubRow
<1>2. CASE u.resetDue
  <2> DEFINE x == [u EXCEPT !.used = 0, !.waived = u.waived + u.used, !.resetDue = FALSE]
  <2>1. Reset(u) = x
    BY <1>2 DEF Reset
  <2>2. x \in SubRow
    <3>1. u.waived + u.used \in Nat
      BY <1>1
    <3>2. \A w \in Nat : [u EXCEPT !.used = 0, !.waived = w, !.resetDue = FALSE] \in SubRow
      BY DEF SubRow
    <3> QED
      BY <3>1, <3>2
  <2>3. x.used = 0 /\ x.waived = u.waived + u.used
    BY DEF SubRow
  <2> QED
    BY <1>1, <2>1, <2>2, <2>3 DEF Booked
<1>3. CASE ~u.resetDue
  BY <1>1, <1>3 DEF Reset
<1> QED
  BY <1>2, <1>3

\* A reservation opens a row.
LEMMA ReserveEffect ==
    ASSUME PartsOK, NEW r \in Requests, NEW m \in Modes, NEW src \in Sources,
           NEW t \in Tokens \cup {None}, NEW c \in Channels \cup {None}, NEW q \in Quota,
           Reserve(r, m, src, t, c, q)
    PROVE  \E n : Effect(r, n)
<1> DEFINE l == ledger[r]
<1>1. RowInv(l) /\ l.state = "absent"
  BY DEF PartsOK, RowsOK, Reserve, ReserveWallet, ReserveSubscription
<1>2. /\ l.version = 0 /\ l.applied = 0 /\ l.counted = 0 /\ ~l.requestCounted
  BY <1>1 DEF RowInv, NoRow
<1>3. /\ WalletPart(l) = 0 /\ (\A x \in Tokens : TokenPart(l, x) = 0)
      /\ (\A x \in Subs : SubPart(l, x) = 0) /\ (\A x \in Channels : ChannelPart(l, x) = 0)
  BY <1>2 DEF WalletPart, TokenPart, SubPart, ChannelPart
<1>4. wallet \in Nat /\ q \in Nat
  BY Bounds DEF PartsOK, BalancesOK, Quota
<1>5. PICK s \in Subs \cup {None} :
        /\ src = "subscription" => s \in Subs
        /\ ledger' = [ledger EXCEPT ![r] = NewRow(m, src, t, c, s, q)]
        /\ token' = TokenAfter(NewRow(m, src, t, c, s, q), q)
        /\ \/ src = "wallet" /\ wallet' = wallet - q /\ UNCHANGED sub
           \/ /\ src = "subscription" /\ UNCHANGED wallet /\ sub' = SubAfterReserve(s, q)
              /\ sub[s].status = "active"
        /\ Emit(r, "reserved", 1) /\ UNCHANGED <<credited, stats, channel>>
  <2>1. CASE src = "wallet" /\ ReserveWallet(r, m, t, c, q)
    <3>1. NewRow(m, "wallet", t, c, None, q).source = "wallet"
      BY DEF NewRow, NoRow
    <3> QED
      BY <2>1, <3>1 DEF ReserveWallet, AdjustBalances, WalletAfter, SubAfter
  <2>2. CASE src = "subscription" /\ ReserveSubscription(r, m, t, c, q)
    BY <2>2 DEF ReserveSubscription, FirstWithRoom
  <2> QED
    BY <2>1, <2>2 DEF Reserve
<1> DEFINE n == NewRow(m, src, t, c, s, q)
<1>6. RowInv(n)
  BY <1>5, NewRowRow
<1>7. /\ n.version = 1 /\ n.applied = q /\ n.source = src /\ n.state = "reserved"
      /\ n.token = t /\ n.sub = s /\ n.counted = 0 /\ ~n.requestCounted
  BY DEF NewRow, NoRow
<1>8. /\ ledger' = [ledger EXCEPT ![r] = n] /\ Emit(r, "reserved", n.version)
      /\ "reserved" \in EventTypes /\ token' = TokenAfter(n, q)
  BY <1>5, <1>7 DEF EventTypes
<1> HIDE DEF n
<1>9. BalancesFollow(l, n)
  <2>1. UNCHANGED credited /\ wallet' = wallet + WalletPart(l) - WalletPart(n)
    BY <1>3, <1>4, <1>5, <1>7 DEF WalletPart
  <2>2. ASSUME NEW x \in Tokens
        PROVE  token'[x].used = token[x].used + TokenPart(n, x) - TokenPart(l, x)
    <3>1. token'[x].used = token[x].used + (IF n.token = x THEN q ELSE 0)
      BY <1>4, <1>7, <1>8, TokenFollows DEF PartsOK
    <3>2. token[x].used \in Nat
      BY DEF PartsOK, BalancesOK, TokenRow
    <3> QED
      BY <1>3, <1>4, <1>7, <3>1, <3>2 DEF TokenPart
  <2>3. ASSUME NEW x \in Subs
        PROVE  Booked(sub'[x]) = Booked(sub[x]) + SubPart(n, x) - SubPart(l, x)
    <3>1. sub[x] \in SubRow /\ Booked(sub[x]) \in Nat
      BY DEF PartsOK, BalancesOK, SubRow, Booked
    <3>2. CASE src = "wallet"
      <4>1. sub'[x] = sub[x] /\ SubPart(n, x) = 0
        BY <1>5, <1>7, <3>2 DEF SubPart
      <4> QED
        BY <1>3, <3>1, <4>1
    <3>4. CASE src = "subscription"
      <4>1. sub'[x] = IF x <= s /\ sub[x].status = "active"
                      THEN [Reset(sub[x]) EXCEPT !.used = IF x = s THEN @ + q ELSE @]
                      ELSE sub[x]
        BY <1>5, <3>4 DEF SubAfterReserve
      <4>2. /\ Booked(Reset(sub[x])) = Booked(sub[x]) /\ Reset(sub[x]) \in SubRow
            /\ Reset(sub[x]).used \in Nat /\ Reset(sub[x]).waived \in Nat
        BY <3>1, ResetWaives
      <4>3. Booked(sub'[x]) = Booked(sub[x]) + (IF x = s THEN q ELSE 0)
        <5>1. CASE x <= s /\ sub[x].status = "active"
          <6>1. /\ sub'[x].used = IF x = s THEN Reset(sub[x]).used + q ELSE Reset(sub[x]).used
                /\ sub'[x].waived = Reset(sub[x]).waived
            BY <4>1, <4>2, <5>1 DEF SubRow
          <6> QED
            BY <1>4, <3>1, <4>2, <6>1 DEF Booked
        <5>2. CASE ~(x <= s /\ sub[x].status = "active")
          <6>1. sub'[x] = sub[x]
            BY <4>1, <5>2
          <6>2. x # s
            BY <1>5, <3>4, <5>2, SubsAssumption
          <6> QED
            BY <3>1, <6>1, <6>2
        <5> QED
          BY <5>1, <5>2
      <4>4. SubPart(n, x) = IF x = s THEN q ELSE 0
        BY <1>7, <3>4 DEF SubPart
      <4> QED
        BY <1>3, <1>4, <3>1, <4>3, <4>4
    <3> QED
      BY <1>5, <3>2, <3>4
  <2> QED
    BY <2>1, <2>2, <2>3 DEF BalancesFollow
<1>10. CountersFollow(l, n)
  <2>1. /\ UNCHANGED <<stats, channel>> /\ stats.used \in Nat /\ stats.requests \in Nat
        /\ \A x \in Channels : channel[x].used \in Nat
    BY <1>5 DEF PartsOK, CountersOK, StatsRow, ChannelRow
  <2>2. \A x \in Channels : ChannelPart(n, x) = 0
    BY <1>7 DEF ChannelPart
  <2> QED
    BY <1>2, <1>3, <1>7, <2>1, <2>2 DEF CountersFollow
<1>11. n.version = l.version + 1 /\ (\E type \in EventTypes : Emit(r, type, n.version))
  BY <1>2, <1>7, <1>8
<1> HIDE DEF Emit
<1> QED
  BY <1>1, <1>2, <1>6, <1>7, <1>8, <1>9, <1>10, <1>11 DEF Effect

\* Extending a reservation has an Effect on its row.
LEMMA ReserveMoreEffect ==
    ASSUME PartsOK, NEW r \in Requests, NEW q \in Quota, ReserveMore(r, q), PartsOK'
    PROVE  \E n : Effect(r, n)
<1> DEFINE l == ledger[r]
           n == [l EXCEPT !.applied = q, !.target = q, !.version = @ + 1, !.stale = FALSE]
<1>1. RowInv(l) /\ l.state = "reserved"
  BY DEF PartsOK, RowsOK, ReserveMore
<1>2. /\ n.version = l.version + 1 /\ n.state = "reserved" /\ n.applied = q /\ n.chan = l.chan
      /\ n.source = l.source /\ n.token = l.token /\ n.sub = l.sub
      /\ n.counted = l.counted /\ n.requestCounted = l.requestCounted
  BY <1>1 DEF RowInv, LedgerRow
<1>3. /\ ledger' = [ledger EXCEPT ![r] = n] /\ AdjustBalances(l, q - l.applied)
      /\ Emit(r, "reserved", n.version) /\ "reserved" \in EventTypes
      /\ UNCHANGED <<stats, channel>>
  BY <1>2 DEF ReserveMore, EventTypes
<1> HIDE DEF n
<1>4. RowInv(n)
  BY <1>3 DEF PartsOK, RowsOK
<1>5. BalancesFollow(l, n)
  BY <1>1, <1>2, <1>3, <1>4, BalancesBooked
<1>6. CountersFollow(l, n)
  <2>1. /\ l.counted = 0 /\ ~l.requestCounted /\ ~n.requestCounted /\ n.counted = 0
    BY <1>1, <1>2 DEF RowInv
  <2>2. /\ stats.used \in Nat /\ stats.requests \in Nat
        /\ \A x \in Channels : channel[x].used \in Nat
    BY DEF PartsOK, CountersOK, StatsRow, ChannelRow
  <2> QED
    BY <1>3, <2>1, <2>2 DEF CountersFollow, ChannelPart
<1> QED
  BY <1>1, <1>2, <1>3, <1>4, <1>5, <1>6 DEF Effect

\* Binding a task has an Effect that moves no money.
LEMMA BindTaskEffect ==
    ASSUME PartsOK, NEW r \in Requests, BindTask(r), PartsOK'
    PROVE  \E n : Effect(r, n)
<1> DEFINE l == ledger[r]
           n == [l EXCEPT !.kind = "task", !.version = @ + 1, !.stale = FALSE]
<1>1. RowInv(l) /\ l.state = "reserved"
  BY DEF PartsOK, RowsOK, BindTask
<1>2. n.version = l.version + 1 /\ n.state = "reserved" /\ SameMoney(l, n)
  BY <1>1 DEF RowInv, LedgerRow, SameMoney, SameLegs
<1>3. ledger' = [ledger EXCEPT ![r] = n] /\ UNCHANGED <<balances, stats, channel>>
  BY DEF BindTask
<1> HIDE DEF n
<1>4. RowInv(n)
  BY <1>3 DEF PartsOK, RowsOK
<1> QED
  BY <1>1, <1>2, <1>3, <1>4, QuietEffect

\* The effect of the steps of one request, its reconciler and its poller.
LEMMA RequestEffect ==
    ASSUME PartsOK, PartsOK', NEW r \in Requests,
           RequestStep(r) \/ ReconcilerStep(r) \/ PollerStep(r) \/ GrowStale(r) \/ FallDue(r)
    PROVE  (\E n : Effect(r, n)) \/ NoEffect
<1> DEFINE l == ledger[r]
<1>0. /\ task[r] \in TaskRow /\ FailedIfNotStarted(task[r]) \in TaskRow
      /\ 0 \in Quota /\ None \in Channels \cup {None}
      /\ "settled" \in Outcomes /\ "refunded" \in Outcomes
  BY Bounds DEF PartsOK, TasksOK, FailedIfNotStarted, TaskRow, TaskStatuses, Quota, Outcomes
<1>1. RowInv(l) /\ l \in LedgerRow /\ wallet \in Nat
  BY DEF PartsOK, RowsOK, BalancesOK
<1>2. ASSUME NEW m \in Modes, NEW src \in Sources, NEW t \in Tokens \cup {None},
             NEW c \in Channels \cup {None}, NEW q \in Quota, Reserve(r, m, src, t, c, q)
      PROVE  \E n : Effect(r, n)
  BY <1>2, ReserveEffect
<1>3. ASSUME NEW q \in Quota, ReserveMore(r, q) PROVE \E n : Effect(r, n)
  BY <1>3, ReserveMoreEffect
<1>4. CASE BindTask(r)
  BY <1>4, BindTaskEffect
<1>5. ASSUME NEW q \in Quota, NEW c \in Channels \cup {None}, Settle(r, q, c)
      PROVE  \E n : Effect(r, n)
  BY <1>0, <1>5, TransitEffect DEF Settle
<1>6. ASSUME NEW q \in Quota, NEW st \in TaskStatuses \ {"none"}, SettleWithTask(r, q, st)
      PROVE  \E n : Effect(r, n)
  <2>1. [status |-> st, upstream |-> TRUE] \in TaskRow
    BY DEF TaskRow, TaskStatuses
  <2> QED
    BY <1>0, <1>6, <2>1, TransitEffect DEF SettleWithTask
<1>7. CASE Refund(r)
  BY <1>0, <1>7, TransitEffect DEF Refund
<1>8. ASSUME NEW q \in Quota, Acknowledge(r, q) PROVE (\E n : Effect(r, n)) \/ NoEffect
  <2>1. CASE UNCHANGED ledger
    BY <1>8, <2>1, IdleStep DEF Acknowledge
  <2>2. CASE /\ l.version < MaxVersion
             /\ ledger' = [ledger EXCEPT ![r] =
                    [ToReconcile(l, "settled", q, TRUE) EXCEPT !.kind = "task"]]
    <3>1. WithChannel(l, None) = l /\ ChannelAssignable(l, None)
      BY DEF WithChannel, ChannelAssignable
    <3>2. l.state \notin {"absent", "refunded"} /\ UNCHANGED <<balances, stats, channel>>
      BY <1>8 DEF Acknowledge
    <3> QED
      BY <1>0, <2>2, <3>1, <3>2, IntentEffect
  <2> QED
    BY <1>8, <2>1, <2>2 DEF Acknowledge
<1>9. ASSUME NEW o \in Outcomes, NEW q \in Quota, NEW c \in Channels \cup {None},
             MarkForReconcile(r, o, q, c)
      PROVE  \E n : Effect(r, n)
  <2> DEFINE k == ToReconcile(WithChannel(l, c), o, q, FALSE)
  <2>1. /\ l.state \notin {"absent", "refunded"} /\ l.version < MaxVersion
        /\ ChannelAssignable(l, c) /\ (o = "refunded" => q = 0)
        /\ UNCHANGED <<balances, stats, channel>>
    BY <1>1, <1>9, WithChannelFields DEF MarkForReconcile
  <2>2. ledger' = [ledger EXCEPT ![r] = k]
    BY <1>9 DEF MarkForReconcile
  <2>3. k = [k EXCEPT !.kind = k.kind] /\ k.kind \in {"request", "task"}
    <3>1. k \in LedgerRow
      <4>1. RowInv(WithChannel(l, c)) /\ WithChannel(l, c).state = l.state
            /\ WithChannel(l, c).version = l.version
        BY <1>1, <2>1, WithChannelRow, WithChannelFields
      <4>2. RowInv(k)
        BY <2>1, <4>1, ToReconcileRow
      <4> QED
        BY <4>2 DEF RowInv
    <3> HIDE DEF k
    <3> QED
      BY <3>1 DEF LedgerRow
  <2>4. ledger' = [ledger EXCEPT ![r] = [k EXCEPT !.kind = k.kind]]
    BY <2>2, <2>3
  <2> QED
    BY <2>1, <2>3, <2>4, IntentEffect
<1>10. CASE RefundStale(r, l.kind, l.version)
  BY <1>0, <1>10, TransitEffect DEF RefundStale, Refund
<1>11. CASE MarkStale(r, l.kind, l.version)
  <2> DEFINE k == ToReconcile(l, "refunded", 0, FALSE)
  <2>1. /\ l.state = "reserved" /\ l.version < MaxVersion
        /\ ledger' = [ledger EXCEPT ![r] = k] /\ UNCHANGED <<balances, stats, channel>>
    BY <1>11 DEF MarkStale, StaleFence
  <2>2. WithChannel(l, None) = l /\ ChannelAssignable(l, None)
    BY DEF WithChannel, ChannelAssignable
  <2>3. k = [k EXCEPT !.kind = k.kind] /\ k.kind \in {"request", "task"}
    <3>1. k \in LedgerRow
      BY <1>0, <1>1, <2>1, ToReconcileRow DEF RowInv
    <3> HIDE DEF k
    <3> QED
      BY <3>1 DEF LedgerRow
  <2>4. ledger' = [ledger EXCEPT ![r] = [k EXCEPT !.kind = k.kind]]
    BY <2>1, <2>3
  <2> QED
    BY <1>0, <2>1, <2>2, <2>3, <2>4, IntentEffect, ZenonT(60)
<1>12. CASE Replay(r, l.version, l.desired, l.target)
  <2>1. l.state = "reconcile_required"
    BY <1>12 DEF Replay, ReplayFence
  <2>2. l.desired \in Outcomes /\ l.target \in Quota
        /\ (l.desired = "refunded" => l.target = 0)
    BY <1>1, <2>1 DEF RowInv, LedgerRow
  <2>3. (IF l.desired = "refunded" THEN FailedIfNotStarted(task[r]) ELSE task[r]) \in TaskRow
    BY <1>0
  <2> QED
    BY <1>0, <1>12, <2>2, <2>3, TransitEffect DEF Replay
<1>13. CASE MarkRetry(r, l.version, l.desired, l.target)
  <2> DEFINE n == [l EXCEPT !.version = @ + 1, !.due = FALSE, !.stale = FALSE]
  <2>1. /\ l.state = "reconcile_required" /\ ledger' = [ledger EXCEPT ![r] = n]
        /\ UNCHANGED <<balances, stats, channel>>
    BY <1>13 DEF MarkRetry, ReplayFence
  <2>2. n.version = l.version + 1 /\ n.state = l.state /\ SameMoney(l, n)
    BY <1>1 DEF LedgerRow, SameMoney, SameLegs
  <2> HIDE DEF n
  <2>3. RowInv(n)
    BY <2>1 DEF PartsOK, RowsOK
  <2> QED
    BY <2>1, <2>2, <2>3, QuietEffect
<1>14. ASSUME NEW st \in {"SUCCESS", "FAILURE"}, NEW up \in BOOLEAN, NEW q \in Quota,
              TaskFinish(r, task[r].status, st, up, q)
       PROVE  (\E n : Effect(r, n)) \/ NoEffect
  <2> DEFINE t == [status |-> st, upstream |-> up]
  <2>1. t \in TaskRow /\ OutcomeOf(st) \in Outcomes /\ (OutcomeOf(st) = "refunded" => q = 0)
    BY <1>14 DEF TaskRow, TaskStatuses, OutcomeOf, Outcomes, TaskFinish
  <2>2. CASE Transit(r, OutcomeOf(st), q, None, t)
    BY <1>0, <2>1, <2>2, TransitEffect
  <2>3. CASE UNCHANGED <<ledger, balances, stats, channel>>
    BY <2>3, IdleStep
  <2> QED
    BY <1>14, <2>2, <2>3 DEF TaskFinish
<1>15. ASSUME \/ \E st \in Reported, up \in BOOLEAN : UpdateWithStatus(r, task[r].status, st, up)
              \/ TaskBulkFail(r)
       PROVE  NoEffect
  BY <1>15, IdleStep DEF UpdateWithStatus, TaskBulkFail
<1>16. ASSUME GrowStale(r) \/ FallDue(r) PROVE \E n : Effect(r, n)
  <2>1. PICK st \in BOOLEAN, du \in BOOLEAN :
          ledger' = [ledger EXCEPT ![r] = [l EXCEPT !.stale = st, !.due = du]]
    <3>1. l.stale \in BOOLEAN /\ l.due \in BOOLEAN
      BY <1>1 DEF LedgerRow
    <3>2. CASE GrowStale(r)
      <4>1. ledger' = [ledger EXCEPT ![r] = [l EXCEPT !.stale = TRUE, !.due = l.due]]
        <5>1. [l EXCEPT !.stale = TRUE] = [l EXCEPT !.stale = TRUE, !.due = l.due]
          BY <1>1 DEF LedgerRow
        <5>2. ledger' = [ledger EXCEPT ![r] = [l EXCEPT !.stale = TRUE]]
          BY <3>2 DEF GrowStale
        <5> QED
          BY <5>1, <5>2
      <4> QED
        BY <3>1, <4>1
    <3>3. CASE FallDue(r)
      <4>1. ledger' = [ledger EXCEPT ![r] = [l EXCEPT !.stale = l.stale, !.due = TRUE]]
        <5>1. [l EXCEPT !.due = TRUE] = [l EXCEPT !.stale = l.stale, !.due = TRUE]
          BY <1>1 DEF LedgerRow
        <5>2. ledger' = [ledger EXCEPT ![r] = [l EXCEPT !.due = TRUE]]
          BY <3>3 DEF FallDue
        <5> QED
          BY <5>1, <5>2
      <4> QED
        BY <3>1, <4>1
    <3> QED
      BY <1>16, <3>2, <3>3
  <2> DEFINE n == [l EXCEPT !.stale = st, !.due = du]
  <2>2. n.stale = st /\ n.due = du /\ n.state = l.state /\ SameMoney(l, n)
    BY <1>1 DEF LedgerRow, SameMoney, SameLegs
  <2>3. SameButClocks(l, n)
    BY <2>2 DEF SameButClocks
  <2>4. l.state \notin {"absent", "refunded"} /\ UNCHANGED <<balances, stats, channel>>
    BY <1>16 DEF GrowStale, FallDue
  <2> HIDE DEF n
  <2>5. ledger' = [ledger EXCEPT ![r] = n] /\ RowInv(n)
    BY <2>1 DEF PartsOK, RowsOK, n
  <2> QED
    BY <2>2, <2>3, <2>4, <2>5, QuietEffect
<1>17. CASE RequestStep(r)
  BY <1>17, <1>2, <1>3, <1>4, <1>5, <1>6, <1>7, <1>8, <1>9 DEF RequestStep
<1>18. CASE ReconcilerStep(r)
  BY <1>18, <1>10, <1>11, <1>12, <1>13 DEF ReconcilerStep
<1>19. CASE PollerStep(r)
  BY <1>19, <1>14, <1>15 DEF PollerStep
<1> QED
  BY <1>16, <1>17, <1>18, <1>19

\* Administrators change no row of the ledger and take nothing from the wallet.
LEMMA AdministrationEffect ==
    ASSUME PartsOK, Administration
    PROVE  NoEffect
<1>1. /\ wallet \in Nat /\ credited \in Nat /\ token \in [Tokens -> TokenRow]
      /\ sub \in [Subs -> SubRow] /\ channel \in [Channels -> ChannelRow]
  BY Bounds DEF PartsOK, BalancesOK, CountersOK
<1>2. ASSUME NEW n \in 1..MaxQuota, Credit(n) PROVE NoEffect
  <2>1. /\ n \in Nat /\ wallet' = wallet + n /\ credited' = credited + n
        /\ UNCHANGED <<ledger, token, sub, stats, channel>>
    BY <1>2, Bounds DEF Credit
  <2> QED
    BY <1>1, <2>1 DEF NoEffect
<1>3. ASSUME NEW t \in Tokens, UNCHANGED <<ledger, wallet, credited, sub, stats, channel>>,
             NEW x, token' = [token EXCEPT ![t] = x], x.used = token[t].used
      PROVE  NoEffect
  BY <1>1, <1>3 DEF NoEffect
<1>4. ASSUME NEW t \in Tokens, NEW n \in Quota, NEW u \in BOOLEAN, EditToken(t, n, u)
      PROVE  NoEffect
  <2> DEFINE x == [token[t] EXCEPT !.remain = n, !.unlimited = u]
  <2>1. token' = [token EXCEPT ![t] = x]
    BY <1>1, <1>4 DEF EditToken
  <2>2. x.used = token[t].used
    BY <1>1 DEF TokenRow
  <2> HIDE DEF x
  <2> QED
    BY <1>3, <1>4, <2>1, <2>2 DEF EditToken
<1>5. ASSUME NEW t \in Tokens, DeleteToken(t) PROVE NoEffect
  <2> DEFINE x == [token[t] EXCEPT !.deleted = TRUE]
  <2>1. token' = [token EXCEPT ![t] = x] /\ x.used = token[t].used
    BY <1>1, <1>5 DEF DeleteToken, TokenRow
  <2> HIDE DEF x
  <2> QED
    BY <1>3, <1>5, <2>1 DEF DeleteToken
<1>6. ASSUME NEW c \in Channels, DeleteChannel(c) PROVE NoEffect
  <2>1. ASSUME NEW x \in Channels PROVE channel'[x].used = channel[x].used
    <3>1. channel[x] \in ChannelRow /\ channel' = [channel EXCEPT ![c].deleted = TRUE]
      BY <1>1, <1>6 DEF DeleteChannel
    <3>2. CASE x = c
      BY <1>1, <3>1, <3>2 DEF ChannelRow
    <3>3. CASE x # c
      BY <1>1, <3>1, <3>3
    <3> QED
      BY <3>2, <3>3
  <2>2. UNCHANGED <<ledger, stats, wallet, credited, token, sub>>
    BY <1>6 DEF DeleteChannel, balances
  <2> QED
    BY <1>1, <2>1, <2>2 DEF NoEffect
<1>7. ASSUME NEW s \in Subs, UNCHANGED <<ledger, wallet, credited, token, stats, channel>>,
             NEW x, sub' = [sub EXCEPT ![s] = x], Booked(x) = Booked(sub[s])
      PROVE  NoEffect
  BY <1>1, <1>7 DEF NoEffect
<1>8. ASSUME NEW s \in Subs, PeriodEnds(s) PROVE NoEffect
  <2> DEFINE x == [sub[s] EXCEPT !.resetDue = TRUE]
  <2>1. sub' = [sub EXCEPT ![s] = x]
    BY <1>1, <1>8 DEF PeriodEnds
  <2>2. Booked(x) = Booked(sub[s])
    BY <1>1 DEF SubRow, Booked
  <2> HIDE DEF x
  <2> QED
    BY <1>7, <1>8, <2>1, <2>2 DEF PeriodEnds
<1>9. ASSUME NEW s \in Subs, ResetSubscription(s) PROVE NoEffect
  <2>1. sub' = [sub EXCEPT ![s] = Reset(sub[s])] /\ Booked(Reset(sub[s])) = Booked(sub[s])
    BY <1>1, <1>9, ResetWaives DEF ResetSubscription
  <2> QED
    BY <1>7, <1>9, <2>1 DEF ResetSubscription
<1>10. ASSUME NEW s \in Subs, NEW st, EndSubscription(s, st) PROVE NoEffect
  <2> DEFINE x == [sub[s] EXCEPT !.status = st]
  <2>1. sub' = [sub EXCEPT ![s] = x]
    BY <1>1, <1>10 DEF EndSubscription
  <2>2. Booked(x) = Booked(sub[s])
    BY <1>1 DEF SubRow, Booked
  <2> HIDE DEF x
  <2> QED
    BY <1>7, <1>10, <2>1, <2>2 DEF EndSubscription
<1>11. ASSUME NEW r \in Requests, CleanRecord(r) PROVE NoEffect
  BY <1>11, IdleStep DEF CleanRecord
<1> QED
  BY <1>2, <1>4, <1>5, <1>6, <1>8, <1>9, <1>10, <1>11 DEF Administration

\* Every step has an effect on at most one row.
LEMMA StepEffect ==
    ASSUME PartsOK, [Next]_vars
    PROVE  NoEffect \/ \E r \in Requests : \E n : Effect(r, n)
<1>1. PartsOK'
  BY NextOK
<1>2. CASE Next
  BY <1>1, <1>2, RequestEffect, AdministrationEffect DEF Next
<1>3. CASE UNCHANGED vars
  BY <1>3, IdleStep DEF vars
<1> QED
  BY <1>2, <1>3

\* What an effect leaves alone.
LEMMA EffectRows ==
    ASSUME PartsOK, NEW r \in Requests, NEW n, Effect(r, n)
    PROVE  /\ ledger'[r] = n
           /\ \A x \in Requests : x # r => ledger'[x] = ledger[x]
  BY DEF Effect, PartsOK, RowsOK

-----------------------------------------------------------------------------
(* The action properties.                                                   *)

\* No transaction of model/billing_ledger.go changes a refunded row again.
THEOREM RefundedStaysRefunded == Spec => RefundIsFinal
<1>1. ASSUME PartsOK, [Next]_vars
      PROVE  \A x \in Requests : ledger[x].state = "refunded" => ledger'[x] = ledger[x]
  <2>1. CASE NoEffect
    BY <2>1 DEF NoEffect
  <2>2. ASSUME NEW r \in Requests, NEW n, Effect(r, n)
        PROVE  \A x \in Requests : ledger[x].state = "refunded" => ledger'[x] = ledger[x]
    BY <1>1, <2>2, EffectRows DEF Effect
  <2> QED
    BY <1>1, <2>1, <2>2, StepEffect
<1>2. PartsOK /\ [Next]_vars =>
        \A r \in Requests : ledger[r].state = "refunded" => ledger'[r] = ledger[r]
  BY <1>1
<1> QED
  BY <1>2, PartsInvariant, PTL DEF Spec, RefundIsFinal

\* A row changes only together with its version, clocks apart, so the version
\* fences of the reconciler never act on a row that is not the one read.
THEOREM VersionsFence == Spec => VersionGrows
<1> DEFINE P(x) == \/ ledger'[x].version = ledger[x].version + 1
                   \/ ledger'[x] = [ledger[x] EXCEPT !.stale = ledger'[x].stale,
                                                    !.due = ledger'[x].due]
<1>1. ASSUME PartsOK, [Next]_vars
      PROVE  \A x \in Requests : P(x)
  <2>1. ASSUME NEW x \in Requests, ledger'[x] = ledger[x] PROVE P(x)
    <3>1. ledger[x] \in LedgerRow
      BY <1>1 DEF PartsOK, RowsOK
    <3> QED
      BY <2>1, <3>1 DEF LedgerRow
  <2>2. CASE NoEffect
    BY <2>1, <2>2 DEF NoEffect
  <2>3. ASSUME NEW r \in Requests, NEW n, Effect(r, n), NEW x \in Requests PROVE P(x)
    <3>1. CASE x = r
      <4>1. ledger'[x] = n /\ (n.version = ledger[x].version + 1 \/ SameButClocks(ledger[x], n))
        BY <1>1, <2>3, <3>1, EffectRows DEF Effect
      <4> QED
        BY <4>1 DEF SameButClocks
    <3>2. CASE x # r
      BY <1>1, <2>1, <2>3, <3>2, EffectRows
    <3> QED
      BY <3>1, <3>2
  <2> QED
    BY <1>1, <2>2, <2>3, StepEffect
<1>2. PartsOK /\ [Next]_vars =>
        \A r \in Requests :
            \/ ledger'[r].version = ledger[r].version + 1
            \/ ledger'[r] = [ledger[r] EXCEPT !.stale = ledger'[r].stale,
                                              !.due = ledger'[r].due]
  BY <1>1
<1> QED
  BY <1>2, PartsInvariant, PTL DEF Spec, VersionGrows

\* Usage that updateBillingCountersTx has counted for a channel stays with it.
THEOREM CountedChannelStays == Spec => CountedChannelIsPinned
<1>1. ASSUME PartsOK, [Next]_vars
      PROVE  \A x \in Requests : ledger[x].counted # 0 => ledger'[x].chan = ledger[x].chan
  <2>1. CASE NoEffect
    BY <2>1 DEF NoEffect
  <2>2. ASSUME NEW r \in Requests, NEW n, Effect(r, n), NEW x \in Requests
        PROVE  ledger[x].counted # 0 => ledger'[x].chan = ledger[x].chan
    BY <1>1, <2>2, EffectRows DEF Effect
  <2> QED
    BY <1>1, <2>1, <2>2, StepEffect
<1>2. PartsOK /\ [Next]_vars =>
        \A r \in Requests : ledger[r].counted # 0 => ledger'[r].chan = ledger[r].chan
  BY <1>1
<1> QED
  BY <1>2, PartsInvariant, PTL DEF Spec, CountedChannelIsPinned

\* Every movement of a request's money leaves an event of its own: the event
\* key of enqueueBillingOutboxTx is new, so it is not dropped as a duplicate.
THEOREM EveryMoveIsPublished == Spec => MoneyMovesArePublished
<1> DEFINE P(x) == ledger'[x].applied # ledger[x].applied =>
                       \E e \in outbox' \ outbox :
                           e.req = x /\ e.version = ledger'[x].version
<1>1. ASSUME PartsOK, [Next]_vars
      PROVE  \A x \in Requests : P(x)
  <2>1. CASE NoEffect
    BY <2>1 DEF NoEffect
  <2>2. ASSUME NEW r \in Requests, NEW n, Effect(r, n), NEW x \in Requests PROVE P(x)
    <3>1. CASE x # r
      BY <1>1, <2>2, <3>1, EffectRows
    <3>2. CASE x = r /\ n.applied # ledger[r].applied
      <4>1. PICK type \in EventTypes : Emit(r, type, n.version)
        BY <2>2, <3>2 DEF Effect
      <4> DEFINE e == [req |-> r, type |-> type, version |-> n.version]
      <4>2. ledger[r] \in LedgerRow /\ ledger[r].version \in Nat /\ n.version = ledger[r].version + 1
        <5>1. RowInv(ledger[r]) /\ ledger[r] \in LedgerRow
          BY <1>1 DEF PartsOK, RowsOK
        <5>2. ~SameButClocks(ledger[r], n)
          BY <3>2, <5>1 DEF SameButClocks, LedgerRow
        <5> QED
          BY <2>2, <5>1, <5>2, RowFields DEF Effect
      <4>3. e \notin outbox
        <5>1. e.version = n.version /\ e.req = r
          OBVIOUS
        <5>2. e \in outbox => e.version <= ledger[e.req].version
          BY <1>1 DEF PartsOK, EventsOK, EventsNotAhead
        <5> HIDE DEF e
        <5> QED
          BY <4>2, <5>1, <5>2
      <4>4. e \in outbox' /\ e.req = r /\ e.version = ledger'[r].version
        BY <1>1, <2>2, <4>1, EffectRows DEF Emit
      <4> QED
        BY <3>2, <4>3, <4>4
    <3>3. CASE x = r /\ n.applied = ledger[r].applied
      BY <1>1, <2>2, <3>3, EffectRows
    <3> QED
      BY <3>1, <3>2, <3>3
  <2> QED
    BY <1>1, <2>1, <2>2, StepEffect
<1>2. PartsOK /\ [Next]_vars =>
        \A r \in Requests : ledger'[r].applied # ledger[r].applied =>
            \E e \in outbox' \ outbox : e.req = r /\ e.version = ledger'[r].version
  BY <1>1
<1> QED
  BY <1>2, PartsInvariant, PTL DEF Spec, MoneyMovesArePublished

-----------------------------------------------------------------------------
(* The ledger implements Escrow.                                            *)

\* Seen from the wallet the ledger is an escrow account, for any number of
\* requests and any mixture of funding sources.
THEOREM ImplementsEscrow == Spec => EscrowSpec
<1>1. Init => Account!Init
  BY Bounds DEF Init, Account!Init, Held, WalletPart, HoldStatus, NoRow
<1>2. ASSUME PartsOK, [Next]_vars
      PROVE  [Account!Next]_(Account!vars)
  <2>1. CASE NoEffect
    <3>1. CASE wallet' = wallet
      BY <2>1, <3>1 DEF NoEffect, Account!vars, Held, HoldStatus
    <3>2. CASE wallet' > wallet
      BY <2>1, <3>2 DEF NoEffect, Account!Next, Account!Credit, Held, HoldStatus
    <3> QED
      BY <1>2, <2>1, <3>1, <3>2 DEF NoEffect, PartsOK, BalancesOK
  <2>2. ASSUME NEW r \in Requests, NEW n, Effect(r, n)
        PROVE  Account!Next \/ UNCHANGED Account!vars
    <3> DEFINE held == [x \in Requests |-> Held(x)]
               status == [x \in Requests |-> HoldStatus(x)]
    <3>1. /\ ledger'[r] = n
          /\ \A x \in Requests : x # r => ledger'[x] = ledger[x]
      BY <1>2, <2>2, EffectRows
    <3>2. /\ held[r] = WalletPart(ledger[r]) /\ held'[r] = WalletPart(n)
          /\ held' = [held EXCEPT ![r] = held'[r]]
      BY <3>1 DEF Held, WalletPart
    <3>3. status' = [status EXCEPT ![r] = status'[r]]
      BY <3>1 DEF HoldStatus
    <3>4. held'[r] \in Nat /\ wallet' \in Nat /\ wallet' = wallet + held[r] - held'[r]
      <4>1. RowInv(n) /\ RowInv(ledger[r]) /\ wallet' \in Nat
        BY <1>2, <2>2, NextOK DEF Effect, PartsOK, RowsOK, BalancesOK
      <4> QED
        BY <2>2, <3>2, <4>1, RowFields DEF Effect, BalancesFollow, WalletPart
    <3>5. Account!Charge(r)
      BY <3>2, <3>4 DEF Account!Charge
    <3>6. /\ status[r] = (IF ledger[r].state = "absent" THEN "new" ELSE "open")
          /\ status'[r] = (IF n.state = "refunded" THEN "void" ELSE "open")
          /\ ledger[r].state = "absent" => n.state # "refunded"
      BY <2>2, <3>1 DEF Effect, HoldStatus
    <3>7. CASE ledger[r].state = "absent"
      BY <3>3, <3>5, <3>6, <3>7 DEF Account!Next, Account!Open
    <3>8. CASE ledger[r].state # "absent" /\ n.state = "refunded"
      <4>1. held'[r] = 0
        BY <2>2, <3>2, <3>8 DEF Effect, RowInv, WalletPart
      <4> QED
        BY <3>3, <3>5, <3>6, <3>8, <4>1 DEF Account!Next, Account!Void
    <3>9. CASE ledger[r].state # "absent" /\ n.state # "refunded"
      <4>1. status' = status
        BY <3>3, <3>6, <3>9
      <4> QED
        BY <3>5, <3>6, <3>9, <4>1 DEF Account!Next, Account!Adjust
    <3> QED
      BY <3>7, <3>8, <3>9
  <2> QED
    BY <1>2, <2>1, <2>2, StepEffect
<1>3. PartsOK /\ [Next]_vars => [Account!Next]_(Account!vars)
  BY <1>2
<1> QED
  BY <1>1, <1>3, PartsInvariant, PTL DEF Spec, EscrowSpec, Account!Spec

-----------------------------------------------------------------------------
(* Finite sums.  SumFunction is a fold: a CHOOSE over recursive functions.  *)
(* That the function exists, is unique and may be unfolded at any element   *)
(* is proved by well-founded induction over the subsets of the domain.      *)

\* Induction over the subsets of a finite set, in the form the provers can use.
LEMMA SubsetInduction ==
    ASSUME NEW S, IsFiniteSet(S), NEW G,
           \A T \in SUBSET S : (\A U \in SUBSET T : U # T => U \in G) => T \in G
    PROVE  SUBSET S \subseteq G
<1> DEFINE R == StrictSubsetOrdering(S)
           B == {T \in SUBSET S : T \notin G}
<1>1. IsWellFoundedOn(R, SUBSET S)
  BY FS_StrictSubsetOrderingWellFounded, FS_FiniteSubsetsOfFinite
<1>2. SUFFICES ASSUME B # {} PROVE FALSE
  OBVIOUS
<1>3. PICK T \in B : \A U \in B : ~(<<U, T>> \in R)
  <2> HIDE DEF R, B
  <2>1. B \subseteq SUBSET S
    BY DEF B
  <2> QED
    BY <1>1, <1>2, <2>1, WFMin
<1>4. \A U \in SUBSET T : U # T => U \in G
  <2> SUFFICES ASSUME NEW U \in SUBSET T, U # T, U \notin G PROVE FALSE
    OBVIOUS
  <2>1. U \in B
    OBVIOUS
  <2>2. <<U, T>> \in R
    BY DEF StrictSubsetOrdering
  <2> QED
    BY <1>3, <2>1, <2>2
<1> QED
  BY <1>3, <1>4

Pick(s) == CHOOSE x \in s : TRUE

IsSum(h, f, T) ==
    h = [s \in SUBSET T |-> IF s = {} THEN 0 ELSE f[Pick(s)] + h[s \ {Pick(s)}]]

LEMMA SumFromDefinition ==
    ASSUME NEW f, NEW S
    PROVE  SumFunctionOnSet(f, S) = (CHOOSE h : IsSum(h, f, S))[S]
  BY DEF SumFunctionOnSet, FoldFunctionOnSet, MapThenFoldSet, IsSum, Pick

LEMMA PickIn == ASSUME NEW s, s # {} PROVE Pick(s) \in s
  BY DEF Pick

\* Two sums agree on the sets they both know.
LEMMA SumUnique ==
    ASSUME NEW f, NEW S, IsFiniteSet(S), NEW T, NEW g, NEW h,
           S \subseteq T, IsSum(g, f, S), IsSum(h, f, T)
    PROVE  \A s \in SUBSET S : g[s] = h[s]
<1> DEFINE G == {s \in SUBSET S : g[s] = h[s]}
<1>1. ASSUME NEW s \in SUBSET S, \A u \in SUBSET s : u # s => u \in G
      PROVE  s \in G
  <2>1. g[s] = IF s = {} THEN 0 ELSE f[Pick(s)] + g[s \ {Pick(s)}]
    BY DEF IsSum
  <2>2. h[s] = IF s = {} THEN 0 ELSE f[Pick(s)] + h[s \ {Pick(s)}]
    BY DEF IsSum
  <2>3. s # {} => s \ {Pick(s)} \in G
    BY <1>1, PickIn
  <2> QED
    BY <2>1, <2>2, <2>3
<1>2. SUBSET S \subseteq G
  <2> HIDE DEF G
  <2> QED
    BY <1>1, SubsetInduction
<1> QED
  BY <1>2

LEMMA SumExists ==
    ASSUME NEW f, NEW S, IsFiniteSet(S)
    PROVE  \E h : IsSum(h, f, S)
<1> DEFINE G == {T \in SUBSET S : \E h : IsSum(h, f, T)}
           H(T) == CHOOSE h : IsSum(h, f, T)
<1>1. ASSUME NEW T \in SUBSET S, \A U \in SUBSET T : U # T => U \in G
      PROVE  T \in G
  <2> DEFINE g == [s \in SUBSET T |->
                      IF s = {} THEN 0
                      ELSE f[Pick(s)] + H(s \ {Pick(s)})[s \ {Pick(s)}]]
  <2>1. ASSUME NEW U \in SUBSET T, U # T PROVE IsSum(H(U), f, U)
    BY <1>1, <2>1
  <2>2. ASSUME NEW s \in SUBSET T, s # {}
        PROVE  g[s \ {Pick(s)}] = H(s \ {Pick(s)})[s \ {Pick(s)}]
    <3> DEFINE u == s \ {Pick(s)}
               v == u \ {Pick(u)}
    <3>1. u \in SUBSET T /\ u # T
      BY <2>2, PickIn
    <3>2. IsSum(H(u), f, u)
      BY <2>1, <3>1
    <3>3. H(u)[u] = IF u = {} THEN 0 ELSE f[Pick(u)] + H(u)[v]
      <4> HIDE DEF u, H
      <4>1. u \in SUBSET u
        OBVIOUS
      <4> QED
        BY <3>2, <4>1 DEF IsSum
    <3>4. CASE u = {}
      BY <3>1, <3>3, <3>4
    <3>5. CASE u # {}
      <4>1. v \in SUBSET u /\ v \in SUBSET T /\ v # T /\ v \in SUBSET v
        BY <3>1, <3>5, PickIn
      <4>2. IsSum(H(v), f, v)
        BY <2>1, <4>1
      <4>3. IsFiniteSet(v)
        BY <4>1, FS_Subset
      <4>4. H(v)[v] = H(u)[v]
        <5> HIDE DEF H, u, v
        <5> QED
          BY <3>2, <4>1, <4>2, <4>3, SumUnique
      <4>5. g[u] = f[Pick(u)] + H(v)[v]
        BY <3>1, <3>5
      <4> QED
        BY <3>3, <3>5, <4>4, <4>5
    <3> QED
      BY <3>4, <3>5
  <2>3. IsSum(g, f, T)
    <3>1. ASSUME NEW s \in SUBSET T
          PROVE  g[s] = IF s = {} THEN 0 ELSE f[Pick(s)] + g[s \ {Pick(s)}]
      <4>1. g[s] = IF s = {} THEN 0
                   ELSE f[Pick(s)] + H(s \ {Pick(s)})[s \ {Pick(s)}]
        OBVIOUS
      <4> HIDE DEF g, H
      <4> QED
        BY <2>2, <4>1
    <3>2. g = [s \in SUBSET T |-> g[s]]
      OBVIOUS
    <3> HIDE DEF g
    <3> QED
      BY <3>1, <3>2 DEF IsSum
  <2> QED
    BY <2>3
<1>2. SUBSET S \subseteq G
  <2> HIDE DEF G
  <2> QED
    BY <1>1, SubsetInduction
<1> QED
  BY <1>2

\* The sum over a set by its own equation.
LEMMA SumEquation ==
    ASSUME NEW f, NEW S, IsFiniteSet(S)
    PROVE  SumFunctionOnSet(f, S) =
               IF S = {} THEN 0
               ELSE f[Pick(S)] + SumFunctionOnSet(f, S \ {Pick(S)})
<1> DEFINE U == S \ {Pick(S)}
           h == CHOOSE h : IsSum(h, f, S)
           g == CHOOSE g : IsSum(g, f, U)
<1>1. IsFiniteSet(U) /\ U \subseteq S /\ U \in SUBSET U /\ S \in SUBSET S
  BY FS_Subset
<1>2. IsSum(h, f, S) /\ IsSum(g, f, U)
  BY <1>1, SumExists
<1>3. SumFunctionOnSet(f, S) = h[S] /\ SumFunctionOnSet(f, U) = g[U]
  BY SumFromDefinition
<1> HIDE DEF h, g, U
<1>4. g[U] = h[U]
  BY <1>1, <1>2, SumUnique
<1>5. h[S] = IF S = {} THEN 0 ELSE f[Pick(S)] + h[S \ {Pick(S)}]
  BY <1>1, <1>2 DEF IsSum
<1> QED
  BY <1>3, <1>4, <1>5 DEF U

-----------------------------------------------------------------------------
\* A sum of natural numbers is one.
LEMMA SumNat ==
    ASSUME NEW S, IsFiniteSet(S), NEW f, \A x \in S : f[x] \in Nat
    PROVE  SumFunctionOnSet(f, S) \in Nat
<1> DEFINE G == {T \in SUBSET S : SumFunctionOnSet(f, T) \in Nat}
<1>1. ASSUME NEW T \in SUBSET S, \A U \in SUBSET T : U # T => U \in G
      PROVE  T \in G
  <2>1. SumFunctionOnSet(f, T) =
            IF T = {} THEN 0 ELSE f[Pick(T)] + SumFunctionOnSet(f, T \ {Pick(T)})
    BY FS_Subset, SumEquation
  <2>2. T # {} => Pick(T) \in T /\ T \ {Pick(T)} \in G
    BY <1>1, PickIn
  <2> QED
    BY <2>1, <2>2
<1>2. SUBSET S \subseteq G
  <2> HIDE DEF G
  <2> QED
    BY <1>1, SubsetInduction
<1> QED
  BY <1>2

\* Any element may be taken out of a sum first.
LEMMA SumSplit ==
    ASSUME NEW S, IsFiniteSet(S), NEW f, \A x \in S : f[x] \in Nat, NEW r \in S
    PROVE  SumFunctionOnSet(f, S) = f[r] + SumFunctionOnSet(f, S \ {r})
<1> DEFINE Sum(T) == SumFunctionOnSet(f, T)
           G == {T \in SUBSET S : \A x \in T : Sum(T) = f[x] + Sum(T \ {x})}
<1>1. ASSUME NEW T \in SUBSET S, IsFiniteSet(T) PROVE Sum(T) \in Nat
  BY <1>1, SumNat
<1>2. ASSUME NEW T \in SUBSET S PROVE IsFiniteSet(T)
  BY <1>2, FS_Subset
<1>3. ASSUME NEW T \in SUBSET S, \A U \in SUBSET T : U # T => U \in G
      PROVE  T \in G
  <2> SUFFICES ASSUME NEW x \in T PROVE Sum(T) = f[x] + Sum(T \ {x})
    OBVIOUS
  <2> DEFINE p == Pick(T)
  <2>1. p \in T
    BY PickIn
  <2>2. Sum(T) = f[p] + Sum(T \ {p})
    BY <1>2, SumEquation
  <2> HIDE DEF p
  <2>3. CASE x = p
    BY <2>2, <2>3
  <2>4. CASE x # p
    <3>1. T \ {p} \in G /\ T \ {x} \in G /\ x \in T \ {p} /\ p \in T \ {x}
      BY <1>3, <2>1, <2>4
    <3>2. Sum(T \ {p}) = f[x] + Sum((T \ {p}) \ {x})
      BY <3>1
    <3>3. Sum(T \ {x}) = f[p] + Sum((T \ {x}) \ {p})
      BY <3>1
    <3>4. (T \ {p}) \ {x} = (T \ {x}) \ {p} /\ (T \ {x}) \ {p} \in SUBSET S
      OBVIOUS
    <3>5. f[x] \in Nat /\ f[p] \in Nat /\ Sum((T \ {x}) \ {p}) \in Nat
      BY <1>1, <1>2, <2>1, <3>4
    <3> HIDE DEF Sum
    <3> QED
      BY <2>2, <3>2, <3>3, <3>4, <3>5
  <2> QED
    BY <2>3, <2>4
<1>4. SUBSET S \subseteq G
  <2> HIDE DEF G
  <2> QED
    BY <1>3, SubsetInduction
<1> QED
  BY <1>4

\* A sum depends on the values at its elements only.
LEMMA SumAgree ==
    ASSUME NEW S, IsFiniteSet(S), NEW f, NEW g, \A x \in S : f[x] = g[x]
    PROVE  SumFunctionOnSet(f, S) = SumFunctionOnSet(g, S)
<1> DEFINE G == {T \in SUBSET S : SumFunctionOnSet(f, T) = SumFunctionOnSet(g, T)}
<1>1. ASSUME NEW T \in SUBSET S, \A U \in SUBSET T : U # T => U \in G
      PROVE  T \in G
  <2>1. IsFiniteSet(T)
    BY FS_Subset
  <2>2. SumFunctionOnSet(f, T) =
            IF T = {} THEN 0 ELSE f[Pick(T)] + SumFunctionOnSet(f, T \ {Pick(T)})
    BY <2>1, SumEquation
  <2>3. SumFunctionOnSet(g, T) =
            IF T = {} THEN 0 ELSE g[Pick(T)] + SumFunctionOnSet(g, T \ {Pick(T)})
    BY <2>1, SumEquation
  <2>4. T # {} => Pick(T) \in T /\ T \ {Pick(T)} \in G
    BY <1>1, PickIn
  <2> QED
    BY <2>2, <2>3, <2>4
<1>2. SUBSET S \subseteq G
  <2> HIDE DEF G
  <2> QED
    BY <1>1, SubsetInduction
<1> QED
  BY <1>2

\* Changing one summand changes the sum by the difference.
LEMMA SumChange ==
    ASSUME NEW S, IsFiniteSet(S), NEW f \in [S -> Nat], NEW g \in [S -> Nat], NEW r \in S,
           \A x \in S \ {r} : g[x] = f[x]
    PROVE  SumFunction(g) = SumFunction(f) - f[r] + g[r]
<1>1. IsFiniteSet(S \ {r})
  BY FS_Subset
<1>2. SumFunctionOnSet(f, S \ {r}) = SumFunctionOnSet(g, S \ {r})
  BY <1>1, SumAgree
<1>3. SumFunctionOnSet(f, S \ {r}) \in Nat
  BY <1>1, SumNat
<1>4. /\ SumFunctionOnSet(f, S) = f[r] + SumFunctionOnSet(f, S \ {r})
      /\ SumFunctionOnSet(g, S) = g[r] + SumFunctionOnSet(g, S \ {r})
  BY SumSplit
<1>5. SumFunction(f) = SumFunctionOnSet(f, S) /\ SumFunction(g) = SumFunctionOnSet(g, S)
  BY DEF SumFunction
<1> QED
  BY <1>2, <1>3, <1>4, <1>5

\* A summand is at most the sum, and a sum of zeros is zero.
LEMMA SumBound ==
    ASSUME NEW S, IsFiniteSet(S), NEW f \in [S -> Nat], NEW r \in S
    PROVE  f[r] <= SumFunction(f)
<1>1. IsFiniteSet(S \ {r})
  BY FS_Subset
<1>2. SumFunctionOnSet(f, S \ {r}) \in Nat
  BY <1>1, SumNat
<1>3. SumFunctionOnSet(f, S) = f[r] + SumFunctionOnSet(f, S \ {r})
  BY SumSplit
<1> QED
  BY <1>2, <1>3 DEF SumFunction

LEMMA SumZero ==
    ASSUME NEW S, IsFiniteSet(S)
    PROVE  SumFunction([x \in S |-> 0]) = 0
<1> DEFINE f == [x \in S |-> 0]
           G == {T \in SUBSET S : SumFunctionOnSet(f, T) = 0}
<1>1. ASSUME NEW T \in SUBSET S, \A U \in SUBSET T : U # T => U \in G
      PROVE  T \in G
  <2>1. SumFunctionOnSet(f, T) =
            IF T = {} THEN 0 ELSE f[Pick(T)] + SumFunctionOnSet(f, T \ {Pick(T)})
    BY FS_Subset, SumEquation
  <2>2. T # {} => f[Pick(T)] = 0 /\ T \ {Pick(T)} \in G
    BY <1>1, PickIn
  <2> QED
    BY <2>1, <2>2
<1>2. SUBSET S \subseteq G
  <2> HIDE DEF G
  <2> QED
    BY <1>1, SubsetInduction
<1>3. DOMAIN f = S
  OBVIOUS
<1> QED
  BY <1>2, <1>3 DEF SumFunction

-----------------------------------------------------------------------------
(* Conservation: the wallet, the tokens, the subscriptions and the counters *)
(* are sums over the rows.                                                  *)

\* One row changes, so does its part of a sum.
LEMMA PartChanges ==
    ASSUME NEW r \in Requests, NEW f \in [Requests -> Nat], NEW g \in [Requests -> Nat],
           \A x \in Requests \ {r} : g[x] = f[x]
    PROVE  /\ SumFunction(g) = SumFunction(f) - f[r] + g[r]
           /\ SumFunction(f) \in Nat /\ SumFunction(g) \in Nat
<1>1. SumFunction(g) = SumFunction(f) - f[r] + g[r]
  BY RequestsAssumption, SumChange
<1>2. SumFunction(f) = SumFunctionOnSet(f, Requests) /\ SumFunction(g) = SumFunctionOnSet(g, Requests)
  BY DEF SumFunction
<1> QED
  BY <1>1, <1>2, RequestsAssumption, SumNat

\* Parts of rows are numbers.
LEMMA PartsAreNat ==
    ASSUME NEW rows, \A x \in Requests : RowInv(rows[x])
    PROVE  /\ [x \in Requests |-> WalletPart(rows[x])] \in [Requests -> Nat]
           /\ [x \in Requests |-> rows[x].counted] \in [Requests -> Nat]
           /\ \A t : [x \in Requests |-> TokenPart(rows[x], t)] \in [Requests -> Nat]
           /\ \A s : [x \in Requests |-> SubPart(rows[x], s)] \in [Requests -> Nat]
           /\ \A c : [x \in Requests |-> ChannelPart(rows[x], c)] \in [Requests -> Nat]
<1>1. \A x \in Requests : rows[x].applied \in Nat /\ rows[x].counted \in Nat
  BY RowFields
<1> QED
  BY <1>1 DEF WalletPart, TokenPart, SubPart, ChannelPart

\* The wallet and what the rows hold of it add up to what was credited
\* (adjustWalletQuotaTx moves both or neither).
LEMMA WalletStep ==
    ASSUME PartsOK, PartsOK', WalletConserved,
           NoEffect \/ \E r \in Requests : \E n : Effect(r, n)
    PROVE  WalletConserved'
<1> DEFINE f == [x \in Requests |-> WalletPart(ledger[x])]
           g == [x \in Requests |-> WalletPart(ledger'[x])]
<1>0. (\A x \in Requests : RowInv(ledger[x])) /\ (\A x \in Requests : RowInv(ledger'[x]))
  BY DEF PartsOK, RowsOK
<1>1. /\ f \in [Requests -> Nat] /\ g \in [Requests -> Nat]
      /\ wallet \in Nat /\ wallet' \in Nat /\ credited \in Nat /\ credited' \in Nat
  BY <1>0, PartsAreNat, Bounds DEF PartsOK, BalancesOK
<1>2. wallet + SumFunction(f) = credited
  BY DEF WalletConserved, Held
<1>3. WalletConserved' <=> wallet' + SumFunction(g) = credited'
  BY DEF WalletConserved, Held
<1>4. CASE NoEffect
  <2>1. f = g /\ wallet' - wallet = credited' - credited
    BY <1>4 DEF NoEffect
  <2>2. SumFunction(f) \in Nat
    <3>1. SumFunction(f) = SumFunctionOnSet(f, Requests)
      BY DEF SumFunction
    <3> HIDE DEF f, g
    <3> QED
      BY <1>1, <3>1, RequestsAssumption, SumNat
  <2> HIDE DEF f, g
  <2>3. SumFunction(g) = SumFunction(f)
    BY <2>1
  <2>4. wallet' + SumFunction(f) = credited'
    BY <1>1, <1>2, <2>1, <2>2
  <2> QED
    BY <1>3, <2>3, <2>4
<1>5. ASSUME NEW r \in Requests, NEW n, Effect(r, n) PROVE WalletConserved'
  <2>1. f[r] = WalletPart(ledger[r]) /\ g[r] = WalletPart(n)
        /\ \A x \in Requests \ {r} : g[x] = f[x]
    BY <1>5, EffectRows
  <2>2. credited' = credited /\ wallet' = wallet + WalletPart(ledger[r]) - WalletPart(n)
    BY <1>5 DEF Effect, BalancesFollow
  <2> HIDE DEF f, g
  <2>3. SumFunction(g) = SumFunction(f) - f[r] + g[r] /\ SumFunction(f) \in Nat
        /\ f[r] \in Nat /\ g[r] \in Nat
    BY <1>1, <2>1, PartChanges
  <2> QED
    BY <1>1, <1>2, <1>3, <2>1, <2>2, <2>3
<1> QED
  BY <1>4, <1>5

\* used_quota of a token follows the rows that name it (adjustTokenQuotaTx).
LEMMA TokensStep ==
    ASSUME PartsOK, PartsOK', TokenUseExact,
           NoEffect \/ \E r \in Requests : \E n : Effect(r, n)
    PROVE  TokenUseExact'
<1> SUFFICES ASSUME NEW t \in Tokens
             PROVE  token'[t].used = SumFunction([x \in Requests |-> TokenPart(ledger'[x], t)])
  BY DEF TokenUseExact
<1> DEFINE f == [x \in Requests |-> TokenPart(ledger[x], t)]
           g == [x \in Requests |-> TokenPart(ledger'[x], t)]
<1>0. (\A x \in Requests : RowInv(ledger[x])) /\ (\A x \in Requests : RowInv(ledger'[x]))
  BY DEF PartsOK, RowsOK
<1>1. f \in [Requests -> Nat] /\ g \in [Requests -> Nat]
  BY <1>0, PartsAreNat
<1>2. token[t].used = SumFunction(f)
  BY DEF TokenUseExact
<1>3. CASE NoEffect
  BY <1>2, <1>3 DEF NoEffect
<1>4. ASSUME NEW r \in Requests, NEW n, Effect(r, n) PROVE token'[t].used = SumFunction(g)
  <2>1. f[r] = TokenPart(ledger[r], t) /\ g[r] = TokenPart(n, t)
        /\ \A x \in Requests \ {r} : g[x] = f[x]
    BY <1>4, EffectRows
  <2>2. token'[t].used = token[t].used + TokenPart(n, t) - TokenPart(ledger[r], t)
    BY <1>4 DEF Effect, BalancesFollow
  <2> HIDE DEF f, g
  <2>3. SumFunction(g) = SumFunction(f) - f[r] + g[r] /\ SumFunction(f) \in Nat
        /\ f[r] \in Nat /\ g[r] \in Nat
    BY <1>1, <2>1, PartChanges
  <2> QED
    BY <1>2, <2>1, <2>2, <2>3
<1> QED
  BY <1>3, <1>4

\* So does what a subscription has used, with what was waived.
LEMMA SubscriptionsStep ==
    ASSUME PartsOK, PartsOK', SubscriptionUseExact,
           NoEffect \/ \E r \in Requests : \E n : Effect(r, n)
    PROVE  SubscriptionUseExact'
<1> SUFFICES ASSUME NEW s \in Subs
             PROVE  Booked(sub'[s]) = SumFunction([x \in Requests |-> SubPart(ledger'[x], s)])
  BY DEF SubscriptionUseExact, Booked, PartsOK, BalancesOK, SubRow
<1> DEFINE f == [x \in Requests |-> SubPart(ledger[x], s)]
           g == [x \in Requests |-> SubPart(ledger'[x], s)]
<1>0. (\A x \in Requests : RowInv(ledger[x])) /\ (\A x \in Requests : RowInv(ledger'[x]))
  BY DEF PartsOK, RowsOK
<1>1. f \in [Requests -> Nat] /\ g \in [Requests -> Nat]
  BY <1>0, PartsAreNat
<1>2. Booked(sub[s]) = SumFunction(f)
  BY DEF SubscriptionUseExact, Booked
<1>3. CASE NoEffect
  <2>1. f = g /\ Booked(sub'[s]) = Booked(sub[s])
    BY <1>3 DEF NoEffect
  <2> HIDE DEF f, g
  <2> QED
    BY <1>2, <2>1 DEF g
<1>4. ASSUME NEW r \in Requests, NEW n, Effect(r, n) PROVE Booked(sub'[s]) = SumFunction(g)
  <2>1. f[r] = SubPart(ledger[r], s) /\ g[r] = SubPart(n, s)
        /\ \A x \in Requests \ {r} : g[x] = f[x]
    BY <1>4, EffectRows
  <2>2. Booked(sub'[s]) = Booked(sub[s]) + SubPart(n, s) - SubPart(ledger[r], s)
    BY <1>4 DEF Effect, BalancesFollow
  <2> HIDE DEF f, g
  <2>3. SumFunction(g) = SumFunction(f) - f[r] + g[r] /\ SumFunction(f) \in Nat
        /\ f[r] \in Nat /\ g[r] \in Nat
    BY <1>1, <2>1, PartChanges
  <2> QED
    BY <1>2, <2>1, <2>2, <2>3
<1> QED
  BY <1>3, <1>4

\* The counters of updateBillingCountersTx follow what the rows say they have
\* counted.
LEMMA StatisticsStep ==
    ASSUME PartsOK, PartsOK', StatisticsExact,
           NoEffect \/ \E r \in Requests : \E n : Effect(r, n)
    PROVE  StatisticsExact'
<1> DEFINE f == [x \in Requests |-> ledger[x].counted]
           g == [x \in Requests |-> ledger'[x].counted]
           S == {x \in Requests : ledger[x].requestCounted}
           T == {x \in Requests : ledger'[x].requestCounted}
           F(c) == [x \in Requests |-> ChannelPart(ledger[x], c)]
           G(c) == [x \in Requests |-> ChannelPart(ledger'[x], c)]
<1>0. (\A x \in Requests : RowInv(ledger[x])) /\ (\A x \in Requests : RowInv(ledger'[x]))
  BY DEF PartsOK, RowsOK
<1>1. /\ f \in [Requests -> Nat] /\ g \in [Requests -> Nat]
      /\ \A c \in Channels : F(c) \in [Requests -> Nat] /\ G(c) \in [Requests -> Nat]
  BY <1>0, PartsAreNat
<1>2. /\ stats.used = SumFunction(f) /\ stats.requests = Cardinality(S)
      /\ \A c \in Channels : channel[c].used = SumFunction(F(c))
  BY DEF StatisticsExact
<1>3. StatisticsExact' <=>
        /\ stats'.used = SumFunction(g) /\ stats'.requests = Cardinality(T)
        /\ \A c \in Channels : channel'[c].used = SumFunction(G(c))
  BY DEF StatisticsExact
<1>4. CASE NoEffect
  <2>1. UNCHANGED <<ledger, stats>> /\ \A c \in Channels : channel'[c].used = channel[c].used
    BY <1>4 DEF NoEffect
  <2>2. f = g /\ S = T /\ \A c \in Channels : F(c) = G(c)
    BY <2>1
  <2> HIDE DEF f, g, S, T, F, G
  <2> QED
    BY <1>2, <1>3, <2>1, <2>2
<1>5. ASSUME NEW r \in Requests, NEW n, Effect(r, n) PROVE StatisticsExact'
  <2> DEFINE l == ledger[r]
  <2>1. /\ f[r] = l.counted /\ g[r] = n.counted /\ \A x \in Requests \ {r} : g[x] = f[x]
    BY <1>5, EffectRows
  <2>2. ASSUME NEW c \in Channels
        PROVE  /\ F(c)[r] = ChannelPart(l, c) /\ G(c)[r] = ChannelPart(n, c)
               /\ \A x \in Requests \ {r} : G(c)[x] = F(c)[x]
    BY <1>5, EffectRows
  <2>3. CountersFollow(l, n)
    BY <1>5 DEF Effect
  <2>4. stats'.used = SumFunction(g)
    <3>1. stats'.used = stats.used + n.counted - l.counted
      BY <2>3 DEF CountersFollow
    <3> HIDE DEF f, g
    <3>2. SumFunction(g) = SumFunction(f) - f[r] + g[r] /\ SumFunction(f) \in Nat
          /\ f[r] \in Nat /\ g[r] \in Nat
      BY <1>1, <2>1, PartChanges
    <3> QED
      BY <1>2, <2>1, <3>1, <3>2
  <2>5. stats'.requests = Cardinality(T)
    <3>1. IsFiniteSet(S)
      BY RequestsAssumption, FS_Subset
    <3>2. CASE n.requestCounted /\ ~l.requestCounted
      <4>1. T = S \cup {r} /\ r \notin S
        BY <1>5, <3>2, EffectRows
      <4>2. stats'.requests = stats.requests + 1
        BY <2>3, <3>2 DEF CountersFollow
      <4> HIDE DEF S, T
      <4>3. Cardinality(T) = Cardinality(S) + 1
        BY <3>1, <4>1, FS_AddElement
      <4> QED
        BY <1>2, <4>2, <4>3
    <3>3. CASE ~(n.requestCounted /\ ~l.requestCounted)
      <4>1. l.requestCounted => n.requestCounted
        BY <2>3 DEF CountersFollow
      <4>2. T = S
        BY <1>5, <3>3, <4>1, EffectRows
      <4>3. stats'.requests = stats.requests + 0 /\ stats.requests \in Nat
        BY <2>3, <3>3 DEF CountersFollow, PartsOK, CountersOK, StatsRow
      <4> HIDE DEF S, T
      <4> QED
        BY <1>2, <4>2, <4>3
    <3> QED
      BY <3>2, <3>3
  <2>6. ASSUME NEW c \in Channels PROVE channel'[c].used = SumFunction(G(c))
    <3>1. channel'[c].used = channel[c].used + ChannelPart(n, c) - ChannelPart(l, c)
      BY <2>3 DEF CountersFollow
    <3>2. F(c) \in [Requests -> Nat] /\ G(c) \in [Requests -> Nat]
      BY <1>1
    <3>3. channel[c].used = SumFunction(F(c))
      BY <1>2
    <3> HIDE DEF F, G
    <3>4. SumFunction(G(c)) = SumFunction(F(c)) - F(c)[r] + G(c)[r] /\ SumFunction(F(c)) \in Nat
          /\ F(c)[r] \in Nat /\ G(c)[r] \in Nat
      BY <2>2, <3>2, PartChanges
    <3> QED
      BY <2>2, <3>1, <3>3, <3>4
  <2> QED
    BY <1>3, <2>4, <2>5, <2>6
<1> QED
  BY <1>4, <1>5

\* The four conservation laws.
Conserved == WalletConserved /\ TokenUseExact /\ SubscriptionUseExact /\ StatisticsExact

LEMMA ConservedAtFirst == Init => Conserved
<1> SUFFICES ASSUME Init PROVE Conserved
  OBVIOUS
<1>1. SumFunction([x \in Requests |-> 0]) = 0
  BY RequestsAssumption, SumZero
<1>2. /\ \A x \in Requests : ledger[x] = NoRow
      /\ NoRow.applied = 0 /\ NoRow.counted = 0 /\ ~NoRow.requestCounted
  BY DEF Init, NoRow
<1>3. WalletConserved
  <2>1. [x \in Requests |-> Held(x)] = [x \in Requests |-> 0]
    BY <1>2 DEF Held, WalletPart
  <2> QED
    BY <1>1, <2>1, Bounds DEF Init, WalletConserved
<1>4. TokenUseExact
  <2>1. \A t \in Tokens :
          [x \in Requests |-> TokenPart(ledger[x], t)] = [x \in Requests |-> 0]
    BY <1>2 DEF TokenPart
  <2>2. \A t \in Tokens : token[t].used = 0
    BY DEF Init
  <2> QED
    BY <1>1, <2>1, <2>2 DEF TokenUseExact
<1>5. SubscriptionUseExact
  <2>1. \A s \in Subs :
          [x \in Requests |-> SubPart(ledger[x], s)] = [x \in Requests |-> 0]
    BY <1>2 DEF SubPart
  <2>2. \A s \in Subs : sub[s].used = 0 /\ sub[s].waived = 0
    BY DEF Init
  <2> QED
    BY <1>1, <2>1, <2>2 DEF SubscriptionUseExact
<1>6. StatisticsExact
  <2>1. [x \in Requests |-> ledger[x].counted] = [x \in Requests |-> 0]
    BY <1>2
  <2>2. \A c \in Channels :
          [x \in Requests |-> ChannelPart(ledger[x], c)] = [x \in Requests |-> 0]
    BY <1>2 DEF ChannelPart
  <2>3. {x \in Requests : ledger[x].requestCounted} = {}
    BY <1>2
  <2>4. stats.used = 0 /\ stats.requests = 0 /\ \A c \in Channels : channel[c].used = 0
    BY DEF Init
  <2> QED
    BY <1>1, <2>1, <2>2, <2>3, <2>4, FS_EmptySet DEF StatisticsExact
<1> QED
  BY <1>3, <1>4, <1>5, <1>6 DEF Conserved

\* No transaction of model/billing_ledger.go, and nothing the rest of the
\* program does to the tables it uses, breaks a conservation law.
THEOREM LedgerConserves == Spec => []Conserved
<1>1. ASSUME PartsOK, Conserved, [Next]_vars PROVE Conserved'
  <2>1. PartsOK' /\ (NoEffect \/ \E r \in Requests : \E n : Effect(r, n))
    BY <1>1, NextOK, StepEffect
  <2> QED
    BY <1>1, <2>1, WalletStep, TokensStep, SubscriptionsStep, StatisticsStep DEF Conserved
<1>2. PartsOK /\ Conserved /\ [Next]_vars => Conserved'
  BY <1>1
<1> QED
  BY <1>2, ConservedAtFirst, PartsInvariant, PTL DEF Spec

\* Whatever was credited is in the wallet or charged to a request
\* (adjustWalletQuotaTx).
THEOREM WalletIsConserved == Spec => []WalletConserved
<1>1. Conserved => WalletConserved
  BY DEF Conserved
<1> QED
  BY <1>1, LedgerConserves, PTL

\* A token has used what its requests are charged (adjustTokenQuotaTx).
THEOREM TokenUseIsExact == Spec => []TokenUseExact
<1>1. Conserved => TokenUseExact
  BY DEF Conserved
<1> QED
  BY <1>1, LedgerConserves, PTL

\* A subscription has used what its requests are charged, less what resets waived
\* (adjustSubscriptionQuotaTx, reserveSubscriptionQuotaTx,
\* maybeResetUserSubscriptionWithPlanTx).
THEOREM SubscriptionUseIsExact == Spec => []SubscriptionUseExact
<1>1. Conserved => SubscriptionUseExact
  BY DEF Conserved
<1> QED
  BY <1>1, LedgerConserves, PTL

\* The counters of enforce mode are what it counted
\* (updateBillingCountersTx).
THEOREM StatisticsAreExact == Spec => []StatisticsExact
<1>1. Conserved => StatisticsExact
  BY DEF Conserved
<1> QED
  BY <1>1, LedgerConserves, PTL

\* The error returns of adjustTokenQuotaTx and updateBillingCountersTx that
\* call an invariant failed cannot block the refund of a wallet request whose
\* token and channel still exist: what is returned is part of the sum.
THEOREM RefundsAreNeverBlocked == Spec => []RefundNeverBlocked
<1>1. ASSUME PartsOK, Conserved PROVE RefundNeverBlocked
  <2> SUFFICES ASSUME NEW r \in Requests,
                      ledger[r].state \notin {"absent", "refunded"}, ledger[r].source = "wallet",
                      ledger[r].token # None => ~token[ledger[r].token].deleted,
                      ledger[r].chan # None => ~channel[ledger[r].chan].deleted
               PROVE  Commits(r, "refunded", 0, None)
    BY DEF RefundNeverBlocked
  <2> DEFINE l == ledger[r]
  <2>0. \A x \in Requests : RowInv(ledger[x])
    BY <1>1 DEF PartsOK, RowsOK
  <2>1. /\ RowInv(l) /\ l.applied \in Nat /\ l.counted \in Nat /\ wallet \in Nat
        /\ l.token \in Tokens \cup {None} /\ l.chan \in Channels \cup {None}
    BY <1>1, RowFields DEF PartsOK, RowsOK, BalancesOK
  <2>2. FundingMoves(l, 0 - l.applied)
    BY <2>1 DEF FundingMoves
  <2>3. TokenMoves(l, 0 - l.applied)
    <3>1. CASE l.token = None
      BY <3>1 DEF TokenMoves
    <3>2. CASE l.token \in Tokens
      <4> DEFINE f == [x \in Requests |-> TokenPart(ledger[x], l.token)]
      <4>1. f \in [Requests -> Nat] /\ f[r] = l.applied
        BY <1>1, <2>0, PartsAreNat DEF TokenPart
      <4>2. token[l.token].used = SumFunction(f)
        BY <1>1, <3>2 DEF Conserved, TokenUseExact
      <4> HIDE DEF f
      <4>3. f[r] <= SumFunction(f)
        BY <4>1, RequestsAssumption, SumBound
      <4>4. token[l.token].used >= -(0 - l.applied)
        BY <2>1, <4>1, <4>2, <4>3
      <4> QED
        BY <2>1, <4>4 DEF TokenMoves
    <3> QED
      BY <2>1, <3>1, <3>2
  <2>4. CountersMove(l, 0)
    <3> DEFINE f == [x \in Requests |-> ledger[x].counted]
    <3>1. f \in [Requests -> Nat] /\ f[r] = l.counted /\ stats.used = SumFunction(f)
      BY <1>1, <2>0, PartsAreNat DEF Conserved, StatisticsExact
    <3>2. stats.used + (0 - l.counted) >= 0
      <4> HIDE DEF f
      <4>1. f[r] <= SumFunction(f) /\ stats.used \in Nat
        BY <1>1, <3>1, RequestsAssumption, SumBound DEF PartsOK, CountersOK, StatsRow
      <4> QED
        BY <2>1, <3>1, <4>1
    <3>3. ASSUME l.chan \in Channels PROVE channel[l.chan].used + (0 - l.counted) >= 0
      <4> DEFINE g == [x \in Requests |-> ChannelPart(ledger[x], l.chan)]
      <4>1. g \in [Requests -> Nat] /\ g[r] = l.counted
        BY <1>1, <2>0, PartsAreNat DEF ChannelPart
      <4>2. channel[l.chan].used = SumFunction(g) /\ channel[l.chan].used \in Nat
        BY <1>1, <3>3 DEF Conserved, StatisticsExact, PartsOK, CountersOK, ChannelRow
      <4> HIDE DEF g
      <4>3. g[r] <= SumFunction(g)
        BY <4>1, RequestsAssumption, SumBound
      <4> QED
        BY <2>1, <4>1, <4>2, <4>3
    <3> QED
      BY <2>1, <3>2, <3>3 DEF CountersMove
  <2>5. WithChannel(l, None) = l /\ ChannelAssignable(l, None)
    BY DEF WithChannel, ChannelAssignable
  <2> QED
    BY <2>2, <2>3, <2>4, <2>5 DEF Commits, BalancesMove
<1>2. PartsOK /\ Conserved => RefundNeverBlocked
  BY <1>1
<1> QED
  BY <1>2, LedgerConserves, PartsInvariant, PTL

\* A pre-consume record is refunded exactly when its row is
\* (markSubscriptionPreConsumeRefundedTx).
THEOREM RecordsFollow == Spec => []RecordFollowsLedger
<1>1. LedgerInv => RecordFollowsLedger
  BY DEF LedgerInv
<1> QED
  BY <1>1, LedgerInvariant, PTL

=============================================================================
