------------------------------- MODULE TopUp -------------------------------
(***************************************************************************)
(* Topping up a wallet: the wallet page of the web console (usePayment,    *)
(* monitorPaymentWindow), the order rows of the server, and the payment    *)
(* provider that reports to the server's webhook.                          *)
(*                                                                         *)
(* The page asks for quotes, several of which may be on the wire, opens a  *)
(* confirmation with the newest one and orders.  The server prices the     *)
(* order again, writes its row and, for Stripe, creates and binds a        *)
(* checkout session, also after the page has stopped waiting for it.  The  *)
(* provider is paid, gives up, or both in either order, before the session *)
(* is bound or after, and repeats its events until they are acknowledged,  *)
(* and after.  An administrator may change the price, reconcile a session  *)
(* or complete an order by hand, and the user may leave the page at any    *)
(* time.                                                                   *)
(*                                                                         *)
(* Money is counted in tenths of a cent.                                   *)
(***************************************************************************)
EXTENDS Naturals

CONSTANTS
    Orders,       \* orders the user may start
    Methods,      \* payment methods: "stripe", "epay"
    Amounts,      \* amounts the user may type (0 is not an amount)
    Prices,       \* prices of one unit the administrator sets
    Units,        \* values of QuotaPerUnit the administrator sets
    Shortfalls,   \* what a receipt may report less than was asked for
    Discounts,    \* discounts by promotion codes
    Taxes,        \* taxes Stripe adds
    GraceChecks,  \* closureGraceChecks
    MaxQuotes,    \* bound: quotes the pages ask for
    MaxFaults     \* bound: failures of the database and of the network

ASSUME TopUpAssumption ==
    /\ Methods \subseteq {"stripe", "epay"} /\ Methods # {}
    /\ Amounts \subseteq Nat /\ Amounts # {}
    /\ Prices \subseteq {p \in Nat : p >= 10} /\ Prices # {}  \* minPayMoney
    /\ Units \subseteq Nat \ {0} /\ Units # {}
    /\ Shortfalls \subseteq Nat /\ Discounts \subseteq Nat /\ Taxes \subseteq Nat
    /\ GraceChecks \in Nat /\ MaxQuotes \in Nat /\ MaxFaults \in Nat

VARIABLES
    price,      \* the configured price
    page,       \* the wallet page
    quotes,     \* its quote requests on the wire
    req,        \* req[o]: the page's payment request for order o
    row,        \* row[o]: the top_ups row
    credited,   \* credited[o]: quota added to the wallet for order o
    checkout,   \* checkout[o]: the provider's side of order o
    monitor,    \* monitor[o]: the page's watch over a payment window
    faults

vars == <<price, page, quotes, req, row, credited, checkout, monitor, faults>>

\* amount, method: what is entered.  seq: quoteRequestRef.  shown: the price on
\* display, 0 for none and for a spinner; shownFor: what it was quoted for.
\* fingerprint: stripeQuoteRef, the amount and unit price of the last Stripe
\* quote.  busy: paymentLoading; dialog: the confirmation is open.
Page == [amount : Nat, method : Methods, seq : Nat, calculating : BOOLEAN,
         shown : Nat, shownFor : Nat \X Methods,
         fingerprint : SUBSET (Nat \X Nat), busy : BOOLEAN, dialog : BOOLEAN]

Quote == [id : Nat, amount : Nat, method : Methods, choose : BOOLEAN]

\* phase: how far the server is.  waits: the page awaits the answer.  mine: the
\* page that made the request is still mounted.  print: the fingerprint it sent;
\* confirmed: the price the user confirmed.
Request == [phase : {"free", "asked", "inserted", "open", "created", "refused"},
            waits : BOOLEAN, method : Methods, amount : Nat,
            print : SUBSET (Nat \X Nat), confirmed : Nat, mine : BOOLEAN]

\* bound: checkout_session_id is set; state: payment_state; money: Money or
\* ExpectedMinor; credit: CreditQuota, 0 when it is not fixed yet; promo:
\* AllowPromotionCodes; by: what completed the order.
Row == [status : {"none", "pending", "success", "failed", "expired"},
        state : {"none", "unpaid", "checkout_unknown", "paid", "paid_review",
                 "manual_override"},
        bound : BOOLEAN, money : Nat, credit : Nat, promo : BOOLEAN,
        by : {"nobody", "payment", "administrator"}]

Events == {"paid", "expired", "failed"}

Receipt == [subtotal : Nat, discount : Nat, tax : Nat, total : Nat]

\* open: the session or the payment form exists.  asked: what the provider asks
\* for.  sent: the events that have happened; due: those not acknowledged.
Checkout == [open : BOOLEAN, asked : Nat, receipt : Receipt,
             sent : SUBSET Events, due : SUBSET Events]

\* window: the popup is open, as far as the page still looks at it; left: the
\* checks that remain after it was closed.
Monitor == [on : BOOLEAN, mine : BOOLEAN, window : BOOLEAN, left : SUBSET Nat]

TypeOK ==
    /\ price \in Prices
    /\ page \in Page
    /\ quotes \subseteq Quote
    /\ req \in [Orders -> Request]
    /\ row \in [Orders -> Row]
    /\ credited \in [Orders -> Nat]
    /\ checkout \in [Orders -> Checkout]
    /\ monitor \in [Orders -> Monitor]
    /\ faults \in 0..MaxFaults

\* A fresh page, after the user typed an amount the page has no price for yet.
FreshPage(a, m) ==
    [amount |-> a, method |-> m, seq |-> 0, calculating |-> FALSE, shown |-> 0,
     shownFor |-> <<a, m>>, fingerprint |-> {}, busy |-> FALSE, dialog |-> FALSE]

NoRequest == [phase |-> "free", waits |-> FALSE, method |-> CHOOSE m \in Methods : TRUE,
              amount |-> 0, print |-> {}, confirmed |-> 0, mine |-> FALSE]

NoRow == [status |-> "none", state |-> "none", bound |-> FALSE, money |-> 0,
          credit |-> 0, promo |-> FALSE, by |-> "nobody"]

NoReceipt == [subtotal |-> 0, discount |-> 0, tax |-> 0, total |-> 0]

NoCheckout == [open |-> FALSE, asked |-> 0, receipt |-> NoReceipt,
               sent |-> {}, due |-> {}]

NoMonitor == [on |-> FALSE, mine |-> FALSE, window |-> FALSE, left |-> {}]

Init ==
    /\ price \in Prices
    /\ \E a \in Amounts, m \in Methods : page = FreshPage(a, m)
    /\ req = [o \in Orders |-> NoRequest]
    /\ quotes = {}
    /\ row = [o \in Orders |-> NoRow]
    /\ credited = [o \in Orders |-> 0]
    /\ checkout = [o \in Orders |-> NoCheckout]
    /\ monitor = [o \in Orders |-> NoMonitor]
    /\ faults = 0

Fault == faults < MaxFaults /\ faults' = faults + 1

-----------------------------------------------------------------------------
(* Prices (getPayMoney, getStripePayMoney, stripeTopUpQuote)                 *)

\* Two decimals, as strconv.FormatFloat and decimal.Round write them.
Cents(money) == ((money + 5) \div 10) * 10

\* What the order row holds: Stripe's minor units, or the exact product.
OrderMoney(m, a, unit) == IF m = "stripe" THEN Cents(a * unit) ELSE a * unit

\* The amount a webhook reports covers the order.
paidAmountCoversOrder(paid, money) == paid >= money

-----------------------------------------------------------------------------
(* The wallet page                                                           *)

\* calculatePaymentAmount up to its await, for an amount entered with method m;
\* `choose` when choosing a method asks for it.
Asks(a, m, choose) ==
    LET id == page.seq + 1 IN
    /\ page.seq < MaxQuotes
    /\ page' = [page EXCEPT !.amount = a, !.method = m, !.seq = id,
                            !.fingerprint = {}, !.busy = @ \/ choose,
                            !.calculating = a > 0, !.shown = 0,
                            !.shownFor = <<a, m>>]
    /\ quotes' = IF a = 0 THEN quotes
                 ELSE quotes \cup {[id |-> id, amount |-> a, method |-> m,
                                    choose |-> choose]}

\* handleTopupAmountChange and handleSelectPreset; the dialog is modal.
EditAmount(a) ==
    /\ ~page.dialog
    /\ Asks(a, page.method, FALSE)
    /\ UNCHANGED <<price, req, row, credited, checkout, monitor, faults>>

\* handlePaymentMethodSelect up to its await; an amount that is too small ends it.
SelectMethod(m) ==
    /\ ~page.dialog /\ ~page.busy
    /\ \/ page.amount > 0 /\ Asks(page.amount, m, TRUE)
       \/ page.amount = 0 /\ page' = [page EXCEPT !.method = m] /\ UNCHANGED quotes
    /\ UNCHANGED <<price, req, row, credited, checkout, monitor, faults>>

\* Every quote counts.
AnyQuote(q) == TRUE

\* A quote that is not the newest is ignored.
Newest(q) == q.id = page.seq

\* calculatePaymentAmount after its await, and its caller.  unit: the price the
\* server quoted, 0 for an error.  That the price was changed between the
\* quote and its arrival is the same as a change after it.
QuoteArrives(q, unit) ==
    LET money == Cents(q.amount * unit) IN
    /\ quotes' = quotes \ {q}
    /\ page' =
         IF Newest(q)
         THEN [page EXCEPT
                 !.calculating = FALSE, !.shown = money,
                 !.shownFor = <<q.amount, q.method>>,
                 !.fingerprint = IF q.method = "stripe" /\ money > 0
                                 THEN {<<q.amount, unit>>} ELSE {},
                 !.busy = @ /\ ~q.choose,
                 !.dialog = @ \/ (q.choose /\ money > 0)]
         ELSE [page EXCEPT !.busy = @ /\ ~q.choose]
    /\ UNCHANGED <<price, req, row, credited, checkout, monitor, faults>>

\* Cancel, or Escape, which works while a payment is processed.
CloseDialog ==
    /\ page.dialog
    /\ page' = [page EXCEPT !.dialog = FALSE]
    /\ UNCHANGED <<price, quotes, req, row, credited, checkout, monitor, faults>>

\* processingRef and activeMonitorRef of the page
Processing(o) == req[o].mine /\ req[o].waits
Watching(o) == monitor[o].on /\ monitor[o].mine

MayPay ==
    /\ \A o \in Orders : ~Processing(o) /\ ~Watching(o)
    /\ page.amount > 0
    /\ page.method = "stripe" => \E f \in page.fingerprint : f[1] = page.amount

\* processPayment up to its await: opens a window, sends the request.
Confirm(o) ==
    /\ page.dialog
    /\ MayPay
    /\ req[o].phase = "free"
    /\ req' = [req EXCEPT ![o] =
            [phase |-> "asked", waits |-> TRUE, method |-> page.method,
             amount |-> page.amount, print |-> page.fingerprint,
             confirmed |-> page.shown, mine |-> TRUE]]
    /\ monitor' = [monitor EXCEPT ![o].window = TRUE]
    /\ UNCHANGED <<price, page, quotes, row, credited, checkout, faults>>

\* processPayment after its await: an answer with a payment link or form.
\* Only Epay orders are watched.
Redirect(o) ==
    /\ req[o].phase = "created" /\ req[o].waits
    /\ req' = [req EXCEPT ![o].waits = FALSE]
    /\ checkout' = [checkout EXCEPT ![o].open = TRUE]
    /\ monitor' = [monitor EXCEPT ![o] =
            IF req[o].method = "epay"
            THEN [@ EXCEPT !.on = TRUE, !.mine = req[o].mine] ELSE NoMonitor]
    /\ page' = IF req[o].mine THEN [page EXCEPT !.dialog = FALSE] ELSE page
    /\ UNCHANGED <<price, quotes, row, credited, faults>>

\* The request was refused, its answer is lost, or the page stops waiting while
\* the server goes on.  A closed payment channel closes the dialog too.
GiveUp(o) ==
    /\ req[o].waits
    /\ \/ req[o].phase = "refused" /\ UNCHANGED faults
       \/ req[o].phase # "refused" /\ Fault
    /\ req' = [req EXCEPT ![o].waits = FALSE]
    /\ monitor' = [monitor EXCEPT ![o] = NoMonitor]
    /\ page' \in {page, [page EXCEPT !.dialog = @ /\ ~req[o].mine]}
    /\ UNCHANGED <<price, quotes, row, credited, checkout>>

\* The wallet page is left and opened again.  Its watch is aborted and its
\* quotes are lost; a payment request on the wire is not.  The numbers of its
\* quotes go on, which only the bound notices.
Leave(a, m) ==
    /\ page' = [FreshPage(a, m) EXCEPT !.seq = page.seq]
    /\ quotes' = {}
    /\ req' = [o \in Orders |-> [req[o] EXCEPT !.mine = FALSE]]
    /\ monitor' = [o \in Orders |->
            IF Watching(o) THEN NoMonitor ELSE monitor[o]]
    /\ UNCHANGED <<price, row, credited, checkout, faults>>

-----------------------------------------------------------------------------
(* Ordering (RequestEpay, requestStripePayWithCheckout)                      *)

\* The price is whatever it is now.
AnyPrice(o) == TRUE

\* The quote the page sent is still the current one.
SameQuote(o) == req[o].print = {<<req[o].amount, price>>}

\* The row is written, priced anew.  The snapshot of a Stripe order also fixes
\* its quota and whether promotion codes are allowed.
CreateOrder(o, unit, promo) ==
    LET m == req[o].method
        a == req[o].amount
        order == [NoRow EXCEPT !.status = "pending", !.money = OrderMoney(m, a, price)]
    IN
    /\ req[o].phase = "asked"
    /\ m = "stripe" => SameQuote(o)
    /\ row' = [row EXCEPT ![o] =
            IF m = "stripe"
            THEN [order EXCEPT !.state = "unpaid", !.credit = a * unit, !.promo = promo]
            ELSE order]
    /\ req' = [req EXCEPT ![o].phase = IF m = "stripe" THEN "inserted" ELSE "created"]
    /\ checkout' = [checkout EXCEPT ![o].asked = Cents(a * price)]
    /\ UNCHANGED <<price, page, quotes, credited, monitor, faults>>

\* A changed quote, or an error before the row exists.
RefuseOrder(o) ==
    /\ req[o].phase = "asked"
    /\ \/ req[o].method = "stripe" /\ ~SameQuote(o) /\ UNCHANGED faults
       \/ Fault
    /\ req' = [req EXCEPT ![o].phase = "refused"]
    /\ UNCHANGED <<price, page, quotes, row, credited, checkout, monitor>>

\* genStripeLink creates the checkout session.
CreateSession(o) ==
    /\ req[o].phase = "inserted"
    /\ req' = [req EXCEPT ![o].phase = "open"]
    /\ checkout' = [checkout EXCEPT ![o].open = TRUE]
    /\ UNCHANGED <<price, page, quotes, row, credited, monitor, faults>>

\* BindStripeCheckout.
BindStripeCheckout(o) ==
    /\ req[o].phase = "open"
    /\ row' = [row EXCEPT ![o].bound = TRUE]
    /\ req' = [req EXCEPT ![o].phase = "created"]
    /\ UNCHANGED <<price, page, quotes, credited, checkout, monitor, faults>>

\* No session, its answer lost, or no binding: the row is kept as unknown.
SessionFails(o) ==
    /\ req[o].phase \in {"inserted", "open"}
    /\ Fault
    /\ row' = [row EXCEPT ![o].state =
            IF row[o].status = "pending" /\ @ = "unpaid" THEN "checkout_unknown" ELSE @]
    /\ req' = [req EXCEPT ![o].phase = "refused"]
    /\ UNCHANGED <<price, page, quotes, credited, checkout, monitor>>

-----------------------------------------------------------------------------
(* The provider                                                              *)

\* A receipt: the price kept at the provider may differ from the order's, and
\* Stripe takes promotion codes and adds taxes.
Receipts(o) ==
    LET asked == checkout[o].asked
        Stripes(set) == IF req[o].method = "stripe" THEN set ELSE {0}
    IN  UNION {{[subtotal |-> asked - s, discount |-> d, tax |-> t,
                 total |-> asked - s - d + t] :
                    d \in {x \in Stripes(Discounts) : s + x =< asked},
                    t \in Stripes(Taxes)} :
               s \in Shortfalls}

\* The user pays, wherever the page of the provider is open.
Pay(o, receipt) ==
    /\ checkout[o].open /\ "paid" \notin checkout[o].sent
    /\ checkout' = [checkout EXCEPT ![o].receipt = receipt,
                                    ![o].sent = @ \cup {"paid"},
                                    ![o].due = @ \cup {"paid"}]
    /\ UNCHANGED <<price, page, quotes, req, row, credited, monitor, faults>>

\* A Stripe session expires, or a payment of it fails.
SessionEnds(o, e) ==
    /\ checkout[o].open /\ req[o].method = "stripe"
    /\ checkout[o].sent \subseteq {"paid"}
    /\ checkout' = [checkout EXCEPT ![o].sent = @ \cup {e}, ![o].due = @ \cup {e}]
    /\ UNCHANGED <<price, page, quotes, req, row, credited, monitor, faults>>

CloseWindow(o) ==
    /\ monitor[o].window
    /\ monitor' = [monitor EXCEPT ![o].window = FALSE]
    /\ UNCHANGED <<price, page, quotes, req, row, credited, checkout, faults>>

-----------------------------------------------------------------------------
(* Completing an order                                                       *)

\* Completed and credited in one transaction: Stripe orders with the quota of
\* their snapshot, the others at the current QuotaPerUnit.
Complete(o, unit, state, by) ==
    LET quota == IF req[o].method = "stripe" THEN row[o].credit ELSE req[o].amount * unit IN
    /\ row' = [row EXCEPT ![o].status = "success", ![o].state = state, ![o].by = by]
    /\ credited' = [credited EXCEPT ![o] = @ + quota]

\* A receipt that is taken at its total.
ValidatesTotal(r, snapshot) == r.total >= 0

\* validate of a receipt, whose session is the one bound
Validates(r, snapshot) ==
    /\ r.subtotal = snapshot.money
    /\ r.discount =< r.subtotal
    /\ r.discount > 0 => snapshot.promo
    /\ r.total = r.subtotal - r.discount + r.tax

\* CompleteEpayTopUpWithPaidAmount; `ok`: no error is returned.
EpayPaid(o, unit, ok) ==
    LET covers == paidAmountCoversOrder(checkout[o].receipt.total, row[o].money) IN
    \/ /\ row[o].status = "success" /\ ok
       /\ UNCHANGED <<row, credited>>
    \/ /\ row[o].status = "pending" /\ covers /\ ok
       /\ Complete(o, unit, row[o].state, "payment")
    \/ /\ row[o].status = "pending" /\ ~covers /\ ~ok
       /\ UNCHANGED <<row, credited>>

\* CompleteStripeCheckout.  An order that has ended is completed too; one whose
\* session is not bound yet is refused until it is; a conflict is kept for
\* review and acknowledged.
StripePaid(o, ok) ==
    LET valid == Validates(checkout[o].receipt, row[o]) IN
    \/ /\ row[o].status = "success" /\ ok
       /\ UNCHANGED <<row, credited>>
    \/ /\ row[o].status # "success" /\ ~row[o].bound /\ ~ok
       /\ UNCHANGED <<row, credited>>
    \/ /\ row[o].status # "success" /\ row[o].bound /\ valid /\ ok
       /\ Complete(o, 0, "paid", "payment")
    \/ /\ row[o].status # "success" /\ row[o].bound /\ ~valid /\ ok
       /\ row' = [row EXCEPT ![o].state = "paid_review"]
       /\ UNCHANGED credited

\* An end that overrides what was paid.
StripeEndedAnyState(o, e) ==
    /\ row' = [row EXCEPT ![o].status = e]
    /\ UNCHANGED credited

\* EndStripeCheckout, for a row nothing was paid for.
StripeEnded(o, e) ==
    /\ row' = IF /\ row[o].status = "pending"
                 /\ row[o].state \in {"none", "unpaid", "checkout_unknown"}
              THEN [row EXCEPT ![o].status = e] ELSE row
    /\ UNCHANGED credited

\* An error is acknowledged too.
AcknowledgeAll(o, e, ok) == checkout' = [checkout EXCEPT ![o].due = @ \ {e}]

\* EpayNotify and StripeWebhook: acknowledged only when nothing failed.
Acknowledge(o, e, ok) ==
    checkout' = IF ok THEN [checkout EXCEPT ![o].due = @ \ {e}] ELSE checkout

\* An event is delivered, for the first time or again; the answer may be lost.
Webhook(o, e, unit) ==
    /\ e \in checkout[o].sent
    /\ \E ok \in BOOLEAN :
         /\ \/ req[o].method = "epay" /\ EpayPaid(o, unit, ok)
            \/ req[o].method = "stripe" /\ e = "paid" /\ StripePaid(o, ok)
            \/ req[o].method = "stripe" /\ e # "paid" /\ ok /\ StripeEnded(o, e)
         /\ \/ Acknowledge(o, e, ok) /\ UNCHANGED faults
            \/ Fault /\ UNCHANGED checkout
    /\ UNCHANGED <<price, page, quotes, req, monitor>>

\* The transaction fails and is rolled back, or QuotaPerUnit is not positive.
WebhookFails(o, e) ==
    /\ e \in checkout[o].due
    /\ Fault
    /\ Acknowledge(o, e, FALSE)
    /\ UNCHANGED <<price, page, quotes, req, row, credited, monitor>>

\* ManualCompleteTopUp.
ManualComplete(o, unit) ==
    /\ row[o].status = "pending"
    /\ Complete(o, unit, IF req[o].method = "stripe" THEN "manual_override" ELSE row[o].state,
                "administrator")
    /\ UNCHANGED <<price, page, quotes, req, checkout, monitor, faults>>

\* AdminReconcileStripeCheckout, its first transaction: an administrator names
\* the session of an order whose creation was uncertain.
AdminBind(o) ==
    /\ checkout[o].open /\ req[o].method = "stripe" /\ ~row[o].bound
    /\ row' = [row EXCEPT ![o].bound = TRUE]
    /\ UNCHANGED <<price, page, quotes, req, credited, checkout, monitor, faults>>

\* Its second one, by what the session looked like when it was fetched.
AdminResolve(o, e) ==
    /\ req[o].method = "stripe" /\ row[o].bound /\ e \in checkout[o].sent
    /\ \/ e = "expired" /\ StripeEnded(o, e)
       \/ e = "paid" /\ StripePaid(o, TRUE)
    /\ UNCHANGED <<price, page, quotes, req, checkout, monitor, faults>>

ChangePrice(p) ==
    /\ p # price
    /\ price' = p
    /\ UNCHANGED <<page, quotes, req, row, credited, checkout, monitor, faults>>

-----------------------------------------------------------------------------
(* The watch over an Epay window (monitorPaymentWindow)                      *)

Ends(o) == monitor' = [monitor EXCEPT ![o] = NoMonitor]

\* One check that finds the order completed; the window is closed.
CheckSuccess(o) ==
    /\ monitor[o].on
    /\ row[o].status = "success"
    /\ Ends(o)
    /\ UNCHANGED <<price, page, quotes, req, row, credited, checkout, faults>>

\* A grace period that begins anew with every check.
GraceForever(left) == {GraceChecks}

\* The checks left after one that found the window closed.
GraceLeft(left) == IF left = {} THEN {GraceChecks} ELSE {n - 1 : n \in left}

\* One check that finds it open, or fails.
CheckPending(o) ==
    /\ monitor[o].on
    /\ \/ row[o].status = "pending" /\ UNCHANGED faults
       \/ row[o].status = "success" /\ Fault
    /\ \/ /\ monitor[o].window
          /\ UNCHANGED monitor
       \/ /\ ~monitor[o].window /\ monitor[o].left # {0}
          /\ monitor' = [monitor EXCEPT ![o].left = GraceLeft(@)]
       \/ /\ ~monitor[o].window /\ monitor[o].left = {0}
          /\ Ends(o)
    /\ UNCHANGED <<price, page, quotes, req, row, credited, checkout>>

\* maxChecks is used up.
ChecksUsedUp(o) ==
    /\ monitor[o].on
    /\ Ends(o)
    /\ UNCHANGED <<price, page, quotes, req, row, credited, checkout, faults>>

-----------------------------------------------------------------------------
PageStep ==
    \/ \E a \in Amounts \cup {0} : EditAmount(a)
    \/ \E m \in Methods : SelectMethod(m)
    \/ \E q \in quotes, unit \in {price, 0} : QuoteArrives(q, unit)
    \/ CloseDialog
    \/ \E a \in Amounts, m \in Methods : Leave(a, m)

OrderStep(o) ==
    \/ Confirm(o) \/ Redirect(o) \/ GiveUp(o)
    \/ \E unit \in Units, promo \in BOOLEAN : CreateOrder(o, unit, promo)
    \/ RefuseOrder(o) \/ CreateSession(o) \/ BindStripeCheckout(o) \/ SessionFails(o)
    \/ \E receipt \in Receipts(o) : Pay(o, receipt)
    \/ \E e \in {"expired", "failed"} : SessionEnds(o, e)
    \/ CloseWindow(o)
    \/ \E e \in Events, unit \in Units : Webhook(o, e, unit)
    \/ \E e \in Events : WebhookFails(o, e)
    \/ \E unit \in Units : ManualComplete(o, unit)
    \/ AdminBind(o)
    \/ \E e \in Events : AdminResolve(o, e)
    \/ CheckSuccess(o) \/ CheckPending(o) \/ ChecksUsedUp(o)

Next ==
    \/ PageStep
    \/ \E o \in Orders : OrderStep(o)
    \/ \E p \in Prices : ChangePrice(p)

\* Providers repeat an event that was not acknowledged, and the page's timer
\* runs; users and administrators do what they like.
Fairness ==
    \A o \in Orders :
        /\ \A e \in Events :
             WF_vars(\E unit \in Units : e \in checkout[o].due /\ Webhook(o, e, unit))
        /\ WF_vars(CheckSuccess(o) \/ CheckPending(o))

Spec == Init /\ [][Next]_vars /\ Fairness

-----------------------------------------------------------------------------
(* Properties                                                                *)

\* An order is credited exactly when its row says success, a Stripe order with
\* the quota of its snapshot: webhooks delivered twice or late, the manual
\* completion, the reconciliation and the end of the session come in any order.
CreditedOnce ==
    \A o \in Orders :
        /\ credited[o] > 0 <=> row[o].status = "success"
        /\ credited[o] > 0 /\ req[o].method = "stripe" => credited[o] = row[o].credit

\* The refinement mapping to Purchase: an order is its row, its money is where
\* the provider says it is.
Account == INSTANCE Purchase
           WITH status <- [o \in Orders |-> row[o].status],
                worth <- [o \in Orders |-> row[o].credit],
                paid <- {o \in Orders : "paid" \in checkout[o].sent},
                review <- {o \in Orders : row[o].state = "paid_review"},
                by <- [o \in Orders |-> row[o].by]

\* Whatever webhooks, administrators and ended sessions do in any order, late
\* or twice, an order is placed and completed with its credit in one step,
\* once; an order that ended is only completed by its payment, and one whose
\* payment is under review does not end.
PurchaseSpec == Account!Spec

\* What a receipt completes was paid for: without its tax, and with a discount
\* only if the order allowed one, it covers the price of the order.
CreditIsPaid ==
    \A o \in Orders :
        LET r == checkout[o].receipt IN
        row[o].by = "payment" =>
            /\ "paid" \in checkout[o].sent
            /\ r.total + r.discount >= row[o].money + r.tax
            /\ r.discount > 0 => row[o].promo

\* A Stripe order costs what the user confirmed, whatever the administrator
\* does to the price between the quote and the order and however late the
\* quotes of other amounts arrive.
StripeCostsWhatWasShown ==
    \A o \in Orders :
        row[o].status # "none" /\ req[o].method = "stripe" =>
            row[o].money = req[o].confirmed

\* The price in the confirmation is the one of the amount and the method the
\* confirmation will order.
DialogShowsItsQuote ==
    page.dialog => /\ ~page.calculating
                   /\ page.shownFor = <<page.amount, page.method>>

\* One page pays for one order at a time: while a payment is prepared or its
\* window is watched no second one is started.
OneCheckoutPerPage ==
    \A o, p \in Orders :
        /\ Processing(o) \/ Watching(o)
        /\ Processing(p) \/ Watching(p)
        => o = p

\* The provider has the money: for Epay what the gateway asked for, for Stripe
\* any receipt of a session the order knows.
Received(o) ==
    /\ "paid" \in checkout[o].sent
    /\ IF req[o].method = "stripe" THEN row[o].bound
       ELSE checkout[o].receipt.total >= checkout[o].asked

\* A payment the provider has received is credited or kept for review, also
\* when it came before the session was bound or after the order had ended.
PaymentsArrive ==
    \A o \in Orders :
        Received(o) ~> (row[o].status = "success" \/ row[o].state = "paid_review")

\* Once its window is closed, the page does not wait for a payment for ever.
WatchEnds ==
    \A o \in Orders :
        (monitor[o].on /\ ~monitor[o].window) ~> ~monitor[o].on
=============================================================================
