---------------------------- MODULE TopUpProofs ----------------------------
(***************************************************************************)
(* Safety of topping up, for any number of orders, amounts and prices: the *)
(* confirmation is current, orders are credited once and for what was      *)
(* paid, a page pays for one order at a time, and TopUp implements the     *)
(* abstract Purchase.                                                      *)
(***************************************************************************)
EXTENDS TopUp, TLAPS

-----------------------------------------------------------------------------
(* Types.  The records are typed once, away from the actions.               *)

\* A price written with two decimals is a natural number.
LEMMA CentsNat == ASSUME NEW m \in Nat PROVE Cents(m) \in Nat
  BY DEF Cents

LEMMA MoneyNat ==
    ASSUME NEW m \in Methods, NEW a \in Nat, NEW u \in Nat
    PROVE  a * u \in Nat /\ Cents(a * u) \in Nat /\ OrderMoney(m, a, u) \in Nat
<1>1. a * u \in Nat
  OBVIOUS
<1> QED
  BY <1>1, CentsNat DEF OrderMoney

LEMMA PriceNat == ASSUME TypeOK PROVE price \in Nat
  BY TopUpAssumption DEF TypeOK

LEMMA FreshPageTyped ==
    ASSUME NEW a \in Nat, NEW m \in Methods PROVE FreshPage(a, m) \in Page
  BY DEF FreshPage, Page

LEMMA AskedPageTyped ==
    ASSUME NEW p \in Page, NEW a \in Nat, NEW m \in Methods, NEW n \in Nat,
           NEW b \in BOOLEAN, NEW c \in BOOLEAN
    PROVE  [p EXCEPT !.amount = a, !.method = m, !.seq = n, !.fingerprint = {},
                     !.busy = b, !.calculating = c, !.shown = 0,
                     !.shownFor = <<a, m>>] \in Page
  BY Zenon DEF Page

LEMMA QuotedPageTyped ==
    ASSUME NEW p \in Page, NEW s \in Nat, NEW f \in Nat \X Methods,
           NEW g \in SUBSET (Nat \X Nat), NEW b \in BOOLEAN, NEW d \in BOOLEAN
    PROVE  [p EXCEPT !.calculating = FALSE, !.shown = s, !.shownFor = f,
                     !.fingerprint = g, !.busy = b, !.dialog = d] \in Page
  BY Zenon DEF Page

PaymentStates == {"none", "unpaid", "checkout_unknown", "paid", "paid_review",
                  "manual_override"}

\* The parts of TypeOK that one order has.
LEMMA RowTyped ==
    ASSUME NEW r \in Row, NEW s \in PaymentStates,
           NEW b \in {"nobody", "payment", "administrator"},
           NEW t \in {"none", "pending", "success", "failed", "expired"}
    PROVE  /\ [r EXCEPT !.status = "success", !.state = s, !.by = b] \in Row
           /\ [r EXCEPT !.state = s] \in Row
           /\ [r EXCEPT !.bound = TRUE] \in Row
           /\ [r EXCEPT !.status = t] \in Row
  BY Zenon DEF Row, PaymentStates

LEMMA NewRowTyped ==
    ASSUME NEW m \in Nat, NEW c \in Nat, NEW p \in BOOLEAN
    PROVE  /\ [NoRow EXCEPT !.status = "pending", !.money = m] \in Row
           /\ [[NoRow EXCEPT !.status = "pending", !.money = m]
                  EXCEPT !.state = "unpaid", !.credit = c, !.promo = p] \in Row
<1> DEFINE new == [NoRow EXCEPT !.status = "pending", !.money = m]
<1>1. new \in Row
  BY DEF NoRow, Row
<1> HIDE DEF new
<1>2. [new EXCEPT !.state = "unpaid", !.credit = c, !.promo = p] \in Row
  BY <1>1, Zenon DEF Row
<1> QED
  BY <1>1, <1>2 DEF new

LEMMA ReceiptsTyped ==
    ASSUME TypeOK, NEW o \in Orders, NEW r \in Receipts(o)
    PROVE  /\ r \in Receipt
           /\ req[o].method = "epay" => r.discount = 0 /\ r.tax = 0
<1> DEFINE Stripes(set) == IF req[o].method = "stripe" THEN set ELSE {0}
<1>1. PICK s \in Shortfalls, d \in Stripes(Discounts), t \in Stripes(Taxes) :
          /\ s + d =< checkout[o].asked
          /\ r = [subtotal |-> checkout[o].asked - s, discount |-> d, tax |-> t,
                  total |-> checkout[o].asked - s - d + t]
  BY DEF Receipts
<1>2. s \in Nat /\ d \in Nat /\ t \in Nat /\ checkout[o].asked \in Nat
  BY <1>1, TopUpAssumption DEF TypeOK, Checkout
<1>3. checkout[o].asked - s \in Nat /\ checkout[o].asked - s - d + t \in Nat
  BY <1>1, <1>2
<1>4. r \in Receipt
  BY <1>1, <1>2, <1>3 DEF Receipt
<1> QED
  BY <1>1, <1>4

\* What the types rest on: nothing happens at a provider that was not opened,
\* an Epay payment does not expire and has neither taxes nor discounts, and at
\* most one number of checks is left.
StageFits ==
    \A o \in Orders :
        /\ checkout[o].sent # {} => checkout[o].open
        /\ req[o].phase = "free" => ~checkout[o].open /\ checkout[o].receipt = NoReceipt
        /\ req[o].method = "epay" =>
               /\ checkout[o].sent \subseteq {"paid"}
               /\ checkout[o].receipt.discount = 0 /\ checkout[o].receipt.tax = 0
        /\ \A i, j \in monitor[o].left : i = j

LEMMA TypeInit == Init => TypeOK /\ StageFits
<1> SUFFICES ASSUME Init PROVE TypeOK /\ StageFits
  OBVIOUS
<1>1. PICK a \in Amounts, m \in Methods : page = FreshPage(a, m)
  BY DEF Init
<1>2. page \in Page
  BY <1>1, FreshPageTyped, TopUpAssumption
<1>3. (CHOOSE n \in Methods : TRUE) \in Methods
  BY TopUpAssumption
<1>4. NoRequest \in Request
  BY <1>3 DEF NoRequest, Request
<1>5. NoRow \in Row
  BY DEF NoRow, Row
<1>6. NoCheckout \in Checkout
  BY DEF NoCheckout, NoReceipt, Checkout, Receipt
<1>7. NoMonitor \in Monitor
  BY DEF NoMonitor, Monitor
<1>8. faults \in 0..MaxFaults
  BY TopUpAssumption DEF Init
<1>9. TypeOK
  BY <1>2, <1>4, <1>5, <1>6, <1>7, <1>8 DEF Init, TypeOK
<1>10. StageFits
  BY DEF Init, StageFits, NoRequest, NoCheckout, NoReceipt, NoMonitor
<1> QED
  BY <1>9, <1>10

\* What the steps of the page do to its state and its quotes.
LEMMA TypeAsks ==
    ASSUME TypeOK, NEW a \in Nat, NEW m \in Methods, NEW c \in BOOLEAN, Asks(a, m, c)
    PROVE  page' \in Page /\ quotes' \subseteq Quote
<1>1. page.seq + 1 \in Nat /\ (a > 0) \in BOOLEAN /\ (page.busy \/ c) \in BOOLEAN
  BY DEF TypeOK, Page
<1>2. page' \in Page
  BY <1>1, AskedPageTyped, Zenon DEF TypeOK, Asks
<1>3. [id |-> page.seq + 1, amount |-> a, method |-> m, choose |-> c] \in Quote
  BY <1>1 DEF Quote
<1> QED
  BY <1>2, <1>3 DEF Asks, TypeOK

LEMMA TypeQuoteArrives ==
    ASSUME TypeOK, NEW q \in quotes, NEW u \in Nat, QuoteArrives(q, u)
    PROVE  page' \in Page /\ quotes' \subseteq Quote
<1>1. q \in Quote /\ page \in Page
  BY DEF TypeOK
<1>2. q.amount \in Nat /\ q.method \in Methods /\ q.choose \in BOOLEAN
  BY <1>1 DEF Quote
<1>3. Cents(q.amount * u) \in Nat
  BY <1>2, MoneyNat
<1>4. (IF q.method = "stripe" /\ Cents(q.amount * u) > 0 THEN {<<q.amount, u>>} ELSE {})
          \in SUBSET (Nat \X Nat)
  BY <1>2
<1>5. page.busy \in BOOLEAN /\ page.dialog \in BOOLEAN
  BY <1>1 DEF Page
<1>6. <<q.amount, q.method>> \in Nat \X Methods
  BY <1>2
<1>7. CASE Newest(q)
  <2> DEFINE money == Cents(q.amount * u)
             asked == <<q.amount, q.method>>
             offer == IF q.method = "stripe" /\ money > 0 THEN {<<q.amount, u>>} ELSE {}
             busy == page.busy /\ ~q.choose
             dialog == page.dialog \/ (q.choose /\ money > 0)
  <2>1. page' = [page EXCEPT !.calculating = FALSE, !.shown = money, !.shownFor = asked,
                             !.fingerprint = offer, !.busy = busy, !.dialog = dialog]
    BY <1>7, Zenon DEF QuoteArrives
  <2>2. /\ money \in Nat /\ asked \in Nat \X Methods /\ offer \in SUBSET (Nat \X Nat)
        /\ busy \in BOOLEAN /\ dialog \in BOOLEAN
    BY <1>3, <1>4, <1>6
  <2> HIDE DEF money, asked, offer, busy, dialog
  <2>3. page' \in Page
    BY <1>1, <2>1, <2>2, QuotedPageTyped, Zenon
  <2> QED
    BY <2>3 DEF QuoteArrives, TypeOK
<1>8. CASE ~Newest(q)
  BY <1>1, <1>5, <1>8 DEF QuoteArrives, Page, TypeOK
<1> QED
  BY <1>7, <1>8

\* What the delivery of an event e, by the provider or an administrator, does to
\* the row and the credit of an order.
Answers(o, e, unit, ok) ==
    \/ req[o].method = "epay" /\ EpayPaid(o, unit, ok)
    \/ req[o].method = "stripe" /\ e = "paid" /\ StripePaid(o, ok)
    \/ req[o].method = "stripe" /\ e # "paid" /\ StripeEnded(o, e)

LEMMA CompleteTyped ==
    ASSUME TypeOK, NEW o \in Orders, NEW unit \in Nat, NEW s \in PaymentStates,
           NEW b \in {"nobody", "payment", "administrator"}, Complete(o, unit, s, b)
    PROVE  row' \in [Orders -> Row] /\ credited' \in [Orders -> Nat]
<1>1. row[o] \in Row /\ req[o] \in Request /\ credited[o] \in Nat
  BY DEF TypeOK
<1>2. row' = [row EXCEPT ![o] =
                 [row[o] EXCEPT !.status = "success", !.state = s, !.by = b]]
  BY DEF Complete
<1>3. [row[o] EXCEPT !.status = "success", !.state = s, !.by = b] \in Row
  BY <1>1, RowTyped, Zenon
<1>4. row[o].credit \in Nat /\ req[o].amount * unit \in Nat
  BY <1>1 DEF Row, Request
<1>5. credited' \in [Orders -> Nat]
  BY <1>1, <1>4 DEF Complete, TypeOK
<1> QED
  BY <1>2, <1>3, <1>5 DEF TypeOK

LEMMA AnswersTyped ==
    ASSUME TypeOK, NEW o \in Orders, NEW e \in Events, NEW unit \in Units,
           NEW ok \in BOOLEAN, Answers(o, e, unit, ok)
    PROVE  row' \in [Orders -> Row] /\ credited' \in [Orders -> Nat]
<1>1. /\ row[o] \in Row /\ row \in [Orders -> Row] /\ credited \in [Orders -> Nat]
      /\ unit \in Nat /\ row[o].state \in PaymentStates
  BY TopUpAssumption DEF TypeOK, Row, PaymentStates
<1>2. CASE UNCHANGED <<row, credited>>
  BY <1>1, <1>2
<1>3. CASE Complete(o, unit, row[o].state, "payment")
  BY <1>1, <1>3, CompleteTyped
<1>4. CASE Complete(o, 0, "paid", "payment")
  BY <1>4, CompleteTyped DEF PaymentStates
<1>5. CASE row' = [row EXCEPT ![o].state = "paid_review"] /\ UNCHANGED credited
  <2>1. [row[o] EXCEPT !.state = "paid_review"] \in Row
    BY <1>1, RowTyped, Zenon DEF PaymentStates
  <2>2. row' = [row EXCEPT ![o] = [row[o] EXCEPT !.state = "paid_review"]]
    BY <1>5
  <2> QED
    BY <1>1, <1>5, <2>1, <2>2
<1>6. CASE e # "paid" /\ StripeEnded(o, e)
  <2>1. [row[o] EXCEPT !.status = e] \in Row
    BY <1>1, <1>6 DEF Row, Events
  <2>2. row' = row \/ row' = [row EXCEPT ![o] = [row[o] EXCEPT !.status = e]]
    BY <1>6 DEF StripeEnded
  <2> QED
    BY <1>1, <1>6, <2>1, <2>2 DEF StripeEnded
<1> QED
  BY <1>2, <1>3, <1>4, <1>5, <1>6 DEF Answers, EpayPaid, StripePaid

\* An acknowledgement changes what is due and nothing else.
LEMMA AcknowledgeTyped ==
    ASSUME TypeOK, NEW o \in Orders, NEW e, NEW ok,
           Acknowledge(o, e, ok) \/ UNCHANGED checkout
    PROVE  /\ checkout' \in [Orders -> Checkout]
           /\ \A p \in Orders : /\ checkout'[p].open = checkout[p].open
                                /\ checkout'[p].asked = checkout[p].asked
                                /\ checkout'[p].sent = checkout[p].sent
                                /\ checkout'[p].receipt = checkout[p].receipt
                                /\ p # o => checkout'[p] = checkout[p]
<1>1. checkout \in [Orders -> Checkout] /\ checkout[o] \in Checkout
  BY DEF TypeOK
<1>2. \/ checkout' = checkout
      \/ checkout' = [checkout EXCEPT ![o] =
                         [checkout[o] EXCEPT !.due = checkout[o].due \ {e}]]
  BY DEF Acknowledge
<1>3. checkout[o].due \ {e} \in SUBSET Events
  BY <1>1 DEF Checkout
<1>4. [checkout[o] EXCEPT !.due = checkout[o].due \ {e}] \in Checkout
  BY <1>1, <1>3, Zenon DEF Checkout
<1>5. LET new == [checkout[o] EXCEPT !.due = checkout[o].due \ {e}] IN
      /\ new.open = checkout[o].open /\ new.asked = checkout[o].asked
      /\ new.sent = checkout[o].sent /\ new.receipt = checkout[o].receipt
  BY <1>1 DEF Checkout
<1> QED
  BY <1>1, <1>2, <1>4, <1>5

LEMMA StageKept ==
    ASSUME StageFits, UNCHANGED <<req, monitor>>,
           \A p \in Orders : /\ checkout'[p].open = checkout[p].open
                             /\ checkout'[p].sent = checkout[p].sent
                             /\ checkout'[p].receipt = checkout[p].receipt
    PROVE  StageFits'
  BY DEF StageFits

LEMMA StageUnchanged ==
    ASSUME StageFits, UNCHANGED <<req, checkout, monitor>> PROVE StageFits'
  BY DEF StageFits

\* Steps of the page.
LEMMA TypePage ==
    ASSUME TypeOK, StageFits, PageStep PROVE TypeOK' /\ StageFits'
<1>1. ASSUME NEW a \in Amounts \cup {0}, EditAmount(a) PROVE TypeOK' /\ StageFits'
  <2>1. a \in Nat /\ page.method \in Methods
    BY TopUpAssumption DEF TypeOK, Page
  <2>2. page' \in Page /\ quotes' \subseteq Quote
    BY <1>1, <2>1, TypeAsks DEF EditAmount
  <2> QED
    BY <1>1, <2>2 DEF EditAmount, TypeOK, StageFits
<1>2. ASSUME NEW m \in Methods, SelectMethod(m) PROVE TypeOK' /\ StageFits'
  <2>1. page.amount \in Nat /\ page \in Page
    BY DEF TypeOK, Page
  <2>2. CASE Asks(page.amount, m, TRUE)
    <3>1. page' \in Page /\ quotes' \subseteq Quote
      BY <2>1, <2>2, TypeAsks
    <3> QED
      BY <1>2, <3>1, StageUnchanged DEF SelectMethod, TypeOK
  <2>3. CASE page' = [page EXCEPT !.method = m] /\ UNCHANGED quotes
    <3>1. page' \in Page
      BY <2>1, <2>3 DEF Page
    <3> QED
      BY <1>2, <2>3, <3>1 DEF SelectMethod, TypeOK, StageFits
  <2> QED
    BY <1>2, <2>2, <2>3 DEF SelectMethod
<1>3. ASSUME NEW q \in quotes, NEW unit \in {price, 0}, QuoteArrives(q, unit)
      PROVE  TypeOK' /\ StageFits'
  <2>1. unit \in Nat
    BY PriceNat
  <2>2. page' \in Page /\ quotes' \subseteq Quote
    BY <1>3, <2>1, TypeQuoteArrives
  <2> QED
    BY <1>3, <2>2, StageUnchanged DEF QuoteArrives, TypeOK
<1>4. ASSUME CloseDialog PROVE TypeOK' /\ StageFits'
  <2>1. page' \in Page
    BY <1>4 DEF CloseDialog, TypeOK, Page
  <2> QED
    BY <1>4, <2>1 DEF CloseDialog, TypeOK, StageFits
<1>5. ASSUME NEW a \in Amounts, NEW m \in Methods, Leave(a, m)
      PROVE  TypeOK' /\ StageFits'
  <2>1. page' \in Page
    <3>1. FreshPage(a, m) \in Page /\ page.seq \in Nat
      BY FreshPageTyped, TopUpAssumption DEF TypeOK, Page
    <3>2. \A x \in Page : [x EXCEPT !.seq = page.seq] \in Page
      BY <3>1, Zenon DEF Page
    <3> QED
      BY <1>5, <3>1, <3>2 DEF Leave
  <2>2. req' \in [Orders -> Request]
    <3>1. \A x \in Request : [x EXCEPT !.mine = FALSE] \in Request
      BY Zenon DEF Request
    <3>2. \A o \in Orders : req[o] \in Request
      BY DEF TypeOK
    <3> QED
      BY <1>5, <3>1, <3>2 DEF Leave
  <2>3. NoMonitor \in Monitor
    BY DEF NoMonitor, Monitor
  <2>4. monitor' \in [Orders -> Monitor]
    BY <1>5, <2>3 DEF Leave, TypeOK
  <2>5. \A o \in Orders : /\ req'[o].phase = req[o].phase
                          /\ req'[o].method = req[o].method
                          /\ monitor'[o].left = {} \/ monitor'[o] = monitor[o]
    BY <1>5 DEF Leave, TypeOK, Request, NoMonitor
  <2>6. checkout' = checkout
    BY <1>5 DEF Leave
  <2>7. StageFits'
    BY <2>5, <2>6 DEF StageFits
  <2> QED
    BY <1>5, <2>1, <2>2, <2>4, <2>7 DEF Leave, TypeOK
<1> QED
  BY <1>1, <1>2, <1>3, <1>4, <1>5 DEF PageStep

\* Steps of one order.
LEMMA TypeOrder ==
    ASSUME TypeOK, StageFits, NEW o \in Orders, OrderStep(o)
    PROVE  TypeOK' /\ StageFits'
<1> USE DEF StageFits
<1>1. /\ page \in Page /\ req \in [Orders -> Request] /\ row \in [Orders -> Row]
      /\ credited \in [Orders -> Nat] /\ checkout \in [Orders -> Checkout]
      /\ monitor \in [Orders -> Monitor]
      /\ req[o] \in Request /\ row[o] \in Row /\ monitor[o] \in Monitor
      /\ checkout[o] \in Checkout
  BY DEF TypeOK
<1>2. NoMonitor \in Monitor /\ NoRow \in Row
  BY DEF NoMonitor, Monitor, NoRow, Row
<1>3. ASSUME Fault PROVE faults' \in 0..MaxFaults
  BY <1>3, TopUpAssumption DEF Fault, TypeOK
<1>4. CASE Confirm(o)
  <2>1. [phase |-> "asked", waits |-> TRUE, method |-> page.method,
         amount |-> page.amount, print |-> page.fingerprint,
         confirmed |-> page.shown, mine |-> TRUE] \in Request
    BY <1>1 DEF Page, Request
  <2>2. monitor' \in [Orders -> Monitor]
    BY <1>1, <1>4 DEF Confirm, Monitor
  <2> QED
    BY <1>1, <1>4, <2>1, <2>2 DEF Confirm, TypeOK, NoReceipt
<1>5. CASE Redirect(o)
  <2>1. req' \in [Orders -> Request]
    BY <1>1, <1>5 DEF Redirect, Request
  <2>2. checkout' \in [Orders -> Checkout]
    BY <1>1, <1>5 DEF Redirect, Checkout
  <2>3. [monitor[o] EXCEPT !.on = TRUE, !.mine = req[o].mine] \in Monitor
    BY <1>1 DEF Monitor, Request
  <2>4. monitor' \in [Orders -> Monitor]
    BY <1>1, <1>2, <1>5, <2>3 DEF Redirect
  <2>5. page' \in Page
    BY <1>1, <1>5 DEF Redirect, Page
  <2>6. /\ \A p \in Orders : p # o => /\ req'[p] = req[p] /\ checkout'[p] = checkout[p]
                                    /\ monitor'[p] = monitor[p]
        /\ req'[o].phase = "created" /\ req'[o].method = req[o].method
        /\ checkout'[o].open = TRUE /\ checkout'[o].sent = checkout[o].sent
        /\ checkout'[o].receipt = checkout[o].receipt
    BY <1>1, <1>5 DEF Redirect, Request, Checkout
  <2>7. monitor'[o].left = {} \/ monitor'[o].left = monitor[o].left
    BY <1>1, <1>5 DEF Redirect, Monitor, NoMonitor
  <2>8. StageFits'
    BY <2>6, <2>7
  <2> QED
    BY <1>5, <2>1, <2>2, <2>4, <2>5, <2>8 DEF Redirect, TypeOK
<1>6. CASE GiveUp(o)
  <2>1. req' \in [Orders -> Request]
    BY <1>1, <1>6 DEF GiveUp, Request
  <2>2. [page EXCEPT !.dialog = page.dialog /\ ~req[o].mine] \in Page
    <3>1. (page.dialog /\ ~req[o].mine) \in BOOLEAN
      OBVIOUS
    <3> QED
      BY <1>1, <3>1, Zenon DEF Page
  <2>3. page' \in Page
    BY <1>1, <1>6, <2>2 DEF GiveUp
  <2>4. /\ \A p \in Orders : req'[p].phase = req[p].phase /\ req'[p].method = req[p].method
        /\ \A p \in Orders : monitor'[p].left = {} \/ monitor'[p] = monitor[p]
        /\ UNCHANGED checkout
    BY <1>1, <1>6 DEF GiveUp, Request, NoMonitor
  <2>5. StageFits'
    BY <2>4
  <2> QED
    BY <1>2, <1>3, <1>6, <2>1, <2>3, <2>5 DEF GiveUp, TypeOK
<1>7. ASSUME NEW unit \in Units, NEW promo \in BOOLEAN, CreateOrder(o, unit, promo)
      PROVE  TypeOK' /\ StageFits'
  <2> DEFINE money == OrderMoney(req[o].method, req[o].amount, price)
             new == [NoRow EXCEPT !.status = "pending", !.money = money]
             fixed == [new EXCEPT !.state = "unpaid", !.credit = req[o].amount * unit,
                                  !.promo = promo]
  <2>1. /\ money \in Nat /\ Cents(req[o].amount * price) \in Nat
        /\ req[o].amount * unit \in Nat
    BY <1>1, PriceNat, MoneyNat, TopUpAssumption DEF Request
  <2>2. new \in Row /\ fixed \in Row
    BY <2>1, NewRowTyped, Zenon
  <2>3. row' = [row EXCEPT ![o] = IF req[o].method = "stripe" THEN fixed ELSE new]
    BY <1>7, Zenon DEF CreateOrder
  <2> HIDE DEF money, new, fixed
  <2>4. row' \in [Orders -> Row]
    BY <1>1, <2>2, <2>3
  <2>5. req' \in [Orders -> Request]
    BY <1>1, <1>7 DEF CreateOrder, Request
  <2>6. checkout' \in [Orders -> Checkout]
    BY <1>1, <1>7, <2>1 DEF CreateOrder, Checkout
  <2>7. \A p \in Orders :
            /\ req'[p].method = req[p].method
            /\ req'[p].phase = "free" => req[p].phase = "free"
            /\ checkout'[p].open = checkout[p].open /\ checkout'[p].sent = checkout[p].sent
            /\ checkout'[p].receipt = checkout[p].receipt
    BY <1>1, <1>7 DEF CreateOrder, Request, Checkout
  <2>8. StageFits'
    BY <1>7, <2>7 DEF CreateOrder
  <2> QED
    BY <1>7, <2>4, <2>5, <2>6, <2>8 DEF CreateOrder, TypeOK
<1>8. CASE RefuseOrder(o)
  <2>1. req' \in [Orders -> Request]
    BY <1>1, <1>8 DEF RefuseOrder, Request
  <2> QED
    BY <1>3, <1>8, <2>1 DEF RefuseOrder, TypeOK
<1>9. CASE CreateSession(o)
  <2>1. req' \in [Orders -> Request]
    BY <1>1, <1>9 DEF CreateSession, Request
  <2>2. checkout' \in [Orders -> Checkout]
    BY <1>1, <1>9 DEF CreateSession, Checkout
  <2> QED
    BY <1>9, <2>1, <2>2 DEF CreateSession, TypeOK
<1>10. CASE BindStripeCheckout(o)
  <2>1. req' \in [Orders -> Request] /\ row' \in [Orders -> Row]
    BY <1>1, <1>10 DEF BindStripeCheckout, Request, Row
  <2> QED
    BY <1>10, <2>1 DEF BindStripeCheckout, TypeOK
<1>11. CASE SessionFails(o)
  <2>1. req' \in [Orders -> Request] /\ row' \in [Orders -> Row]
    BY <1>1, <1>11 DEF SessionFails, Request, Row
  <2> QED
    BY <1>3, <1>11, <2>1 DEF SessionFails, TypeOK
<1>12. ASSUME NEW r \in Receipts(o), Pay(o, r) PROVE TypeOK' /\ StageFits'
  <2>1. r \in Receipt /\ (req[o].method = "epay" => r.discount = 0 /\ r.tax = 0)
    BY ReceiptsTyped
  <2>2. checkout' \in [Orders -> Checkout]
    BY <1>1, <1>12, <2>1 DEF Pay, Checkout, Events
  <2>3. /\ \A p \in Orders : p # o => checkout'[p] = checkout[p]
        /\ checkout'[o].open /\ checkout'[o].sent = checkout[o].sent \cup {"paid"}
        /\ checkout'[o].receipt = r
    BY <1>1, <1>12 DEF Pay, Checkout
  <2>4. UNCHANGED <<req, monitor>> /\ checkout[o].open /\ req[o].phase # "free"
    BY <1>12 DEF Pay
  <2>5. StageFits'
    <3> SUFFICES ASSUME NEW p \in Orders
                 PROVE /\ checkout'[p].sent # {} => checkout'[p].open
                       /\ req[p].phase = "free" =>
                              ~checkout'[p].open /\ checkout'[p].receipt = NoReceipt
                       /\ req[p].method = "epay" =>
                              /\ checkout'[p].sent \subseteq {"paid"}
                              /\ checkout'[p].receipt.discount = 0
                              /\ checkout'[p].receipt.tax = 0
      BY <2>4
    <3>1. CASE p = o
      BY <2>1, <2>3, <2>4, <3>1
    <3>2. CASE p # o
      BY <2>3, <3>2
    <3> QED
      BY <3>1, <3>2
  <2> QED
    BY <1>12, <2>2, <2>5 DEF Pay, TypeOK
<1>13. ASSUME NEW e \in {"expired", "failed"}, SessionEnds(o, e)
       PROVE TypeOK' /\ StageFits'
  <2>1. checkout' \in [Orders -> Checkout]
    BY <1>1, <1>13 DEF SessionEnds, Checkout, Events
  <2>2. /\ \A p \in Orders : p # o => checkout'[p] = checkout[p]
        /\ checkout'[o].open /\ checkout'[o].receipt = checkout[o].receipt
    BY <1>1, <1>13 DEF SessionEnds, Checkout
  <2>3. /\ UNCHANGED <<req, monitor>> /\ checkout[o].open /\ req[o].method # "epay"
        /\ req[o].phase # "free"
    BY <1>13 DEF SessionEnds
  <2>4. StageFits'
    <3> SUFFICES ASSUME NEW p \in Orders
                 PROVE /\ checkout'[p].sent # {} => checkout'[p].open
                       /\ req[p].phase = "free" =>
                              ~checkout'[p].open /\ checkout'[p].receipt = NoReceipt
                       /\ req[p].method = "epay" =>
                              /\ checkout'[p].sent \subseteq {"paid"}
                              /\ checkout'[p].receipt.discount = 0
                              /\ checkout'[p].receipt.tax = 0
      BY <2>3
    <3>1. CASE p = o
      BY <2>2, <2>3, <3>1
    <3>2. CASE p # o
      BY <2>2, <3>2
    <3> QED
      BY <3>1, <3>2
  <2> QED
    BY <1>13, <2>1, <2>4 DEF SessionEnds, TypeOK
<1>14. CASE CloseWindow(o)
  <2>1. monitor' \in [Orders -> Monitor]
    BY <1>1, <1>14 DEF CloseWindow, Monitor
  <2> QED
    BY <1>14, <2>1 DEF CloseWindow, TypeOK
<1>15. ASSUME NEW e \in Events, NEW unit \in Units, Webhook(o, e, unit)
       PROVE  TypeOK' /\ StageFits'
  <2>1. PICK ok \in BOOLEAN : /\ Answers(o, e, unit, ok)
                              /\ Acknowledge(o, e, ok) \/ UNCHANGED checkout
                              /\ UNCHANGED faults \/ Fault
    BY <1>15 DEF Webhook, Answers
  <2>2. row' \in [Orders -> Row] /\ credited' \in [Orders -> Nat]
    BY <2>1, AnswersTyped
  <2>3. checkout' \in [Orders -> Checkout]
    BY <2>1, AcknowledgeTyped
  <2>4. StageFits'
    BY <1>15, <2>1, AcknowledgeTyped, StageKept DEF Webhook
  <2> QED
    BY <1>3, <1>15, <2>1, <2>2, <2>3, <2>4 DEF Webhook, TypeOK
<1>16. ASSUME NEW e \in Events, WebhookFails(o, e) PROVE TypeOK' /\ StageFits'
  BY <1>3, <1>16, StageUnchanged DEF WebhookFails, Acknowledge, TypeOK
<1>17. ASSUME NEW unit \in Units, ManualComplete(o, unit) PROVE TypeOK' /\ StageFits'
  <2>1. (IF req[o].method = "stripe" THEN "manual_override" ELSE row[o].state)
            \in PaymentStates
    BY <1>1 DEF Row, PaymentStates
  <2>2. row' \in [Orders -> Row] /\ credited' \in [Orders -> Nat]
    BY <1>17, <2>1, CompleteTyped, TopUpAssumption DEF ManualComplete
  <2> QED
    BY <1>17, <2>2, StageUnchanged DEF ManualComplete, TypeOK
<1>21. CASE AdminBind(o)
  <2>1. row' \in [Orders -> Row]
    BY <1>1, <1>21 DEF AdminBind, Row
  <2> QED
    BY <1>21, <2>1, StageUnchanged DEF AdminBind, TypeOK
<1>22. ASSUME NEW e \in Events, AdminResolve(o, e) PROVE TypeOK' /\ StageFits'
  <2>1. PICK unit \in Units : TRUE
    BY TopUpAssumption
  <2>2. Answers(o, e, unit, TRUE)
    BY <1>22 DEF AdminResolve, Answers
  <2>3. row' \in [Orders -> Row] /\ credited' \in [Orders -> Nat]
    BY <2>2, AnswersTyped
  <2> QED
    BY <1>22, <2>3, StageUnchanged DEF AdminResolve, TypeOK
<1>18. CASE CheckSuccess(o)
  BY <1>2, <1>18 DEF CheckSuccess, Ends, TypeOK, NoMonitor
<1>19. CASE CheckPending(o)
  <2>1. ASSUME monitor[o].left # {0}
        PROVE  /\ GraceLeft(monitor[o].left) \in SUBSET Nat
               /\ \A i, j \in GraceLeft(monitor[o].left) : i = j
    <3>1. monitor[o].left \in SUBSET Nat
      BY <1>1 DEF Monitor
    <3>2. CASE monitor[o].left = {}
      BY <3>2, TopUpAssumption DEF GraceLeft
    <3>3. CASE monitor[o].left # {}
      <4>1. PICK n \in monitor[o].left : monitor[o].left = {n}
        BY <3>3
      <4>2. n \in Nat /\ n # 0
        BY <2>1, <3>1, <4>1
      <4>3. GraceLeft(monitor[o].left) = {n - 1}
        BY <3>3, <4>1 DEF GraceLeft
      <4> QED
        BY <4>2, <4>3
    <3> QED
      BY <3>2, <3>3
  <2>2. \/ UNCHANGED monitor
        \/ monitor' = [monitor EXCEPT ![o] = NoMonitor]
        \/ /\ monitor[o].left # {0}
           /\ monitor' = [monitor EXCEPT ![o].left = GraceLeft(monitor[o].left)]
    BY <1>19 DEF CheckPending, Ends
  <2>3. monitor' \in [Orders -> Monitor]
    <3>1. CASE monitor' = [monitor EXCEPT ![o] = NoMonitor] \/ UNCHANGED monitor
      BY <1>1, <1>2, <3>1
    <3>2. CASE /\ monitor[o].left # {0}
               /\ monitor' = [monitor EXCEPT ![o].left = GraceLeft(monitor[o].left)]
      <4>1. [monitor[o] EXCEPT !.left = GraceLeft(monitor[o].left)] \in Monitor
        BY <1>1, <2>1, <3>2 DEF Monitor
      <4> QED
        BY <1>1, <3>2, <4>1
    <3> QED
      BY <2>2, <3>1, <3>2
  <2>4. /\ \A p \in Orders : p # o => monitor'[p] = monitor[p]
        /\ \A i, j \in monitor'[o].left : i = j
    BY <1>1, <2>1, <2>2 DEF Monitor, NoMonitor
  <2>5. StageFits'
    BY <1>19, <2>4 DEF CheckPending
  <2> QED
    BY <1>3, <1>19, <2>3, <2>5 DEF CheckPending, TypeOK
<1>20. CASE ChecksUsedUp(o)
  BY <1>2, <1>20 DEF ChecksUsedUp, Ends, TypeOK, NoMonitor
<1> QED
  BY <1>4, <1>5, <1>6, <1>7, <1>8, <1>9, <1>10, <1>11, <1>12, <1>13, <1>14, <1>15,
     <1>16, <1>17, <1>18, <1>19, <1>20, <1>21, <1>22 DEF OrderStep

LEMMA TypeNext == TypeOK /\ StageFits /\ [Next]_vars => TypeOK' /\ StageFits'
<1> SUFFICES ASSUME TypeOK, StageFits, [Next]_vars PROVE TypeOK' /\ StageFits'
  OBVIOUS
<1>1. CASE PageStep
  BY <1>1, TypePage
<1>2. ASSUME NEW o \in Orders, OrderStep(o) PROVE TypeOK' /\ StageFits'
  BY <1>2, TypeOrder
<1>3. ASSUME NEW p \in Prices, ChangePrice(p) PROVE TypeOK' /\ StageFits'
  BY <1>3, StageUnchanged DEF ChangePrice, TypeOK
<1>4. CASE UNCHANGED vars
  BY <1>4, StageUnchanged DEF vars, TypeOK
<1> QED
  BY <1>1, <1>2, <1>3, <1>4 DEF Next

\* Every state of the page, the orders, the provider and the watch has its type.
THEOREM TypeCorrect == Spec => [](TypeOK /\ StageFits)
  BY TypeInit, TypeNext, PTL DEF Spec

-----------------------------------------------------------------------------
(* The page                                                                  *)

\* The price on display is the one of the fingerprint and of what is entered;
\* the newest quote on the wire asks for what is entered, so an open
\* confirmation can only be disturbed by quotes that are ignored.
PageFits ==
    /\ \A f \in page.fingerprint : page.shown = Cents(f[1] * f[2])
    /\ page.amount > 0 => page.shownFor = <<page.amount, page.method>>
    /\ page.dialog => page.amount > 0 /\ ~page.calculating
    /\ \A q \in quotes : /\ q.amount > 0 /\ q.id =< page.seq
                         /\ q.id = page.seq => /\ q.amount = page.amount
                                               /\ q.method = page.method

LEMMA PageAsks ==
    ASSUME TypeOK, PageFits, ~page.dialog,
           NEW a \in Nat, NEW m \in Methods, NEW c \in BOOLEAN, Asks(a, m, c)
    PROVE  PageFits'
<1>1. page \in Page /\ page.seq \in Nat /\ quotes \subseteq Quote
  BY DEF TypeOK, Page
<1>2. /\ page'.fingerprint = {} /\ page'.shownFor = <<a, m>> /\ page'.amount = a
      /\ page'.method = m /\ page'.seq = page.seq + 1 /\ page'.dialog = page.dialog
  BY <1>1 DEF Asks, Page
<1>3. ASSUME NEW q \in quotes'
      PROVE  /\ q.amount > 0 /\ q.id =< page'.seq
             /\ q.id = page'.seq => q.amount = page'.amount /\ q.method = page'.method
  <2>1. CASE q \in quotes
    <3>1. q.id \in Nat /\ q.id =< page.seq /\ q.amount > 0
      BY <1>1, <2>1 DEF PageFits, Quote
    <3> QED
      BY <1>1, <1>2, <3>1
  <2>2. CASE a # 0 /\ q = [id |-> page.seq + 1, amount |-> a, method |-> m, choose |-> c]
    BY <1>1, <1>2, <2>2
  <2> QED
    BY <1>3, <2>1, <2>2 DEF Asks
<1> QED
  BY <1>2, <1>3 DEF PageFits

LEMMA PageQuoteArrives ==
    ASSUME TypeOK, PageFits, NEW q \in quotes, NEW u \in Nat, QuoteArrives(q, u)
    PROVE  PageFits'
<1>1. page \in Page /\ quotes' \subseteq quotes
  BY DEF TypeOK, QuoteArrives
<1>2. page'.amount = page.amount /\ page'.method = page.method /\ page'.seq = page.seq
  BY <1>1 DEF QuoteArrives, Page
<1>3. CASE Newest(q)
  <2>1. /\ page'.calculating = FALSE /\ page'.shown = Cents(q.amount * u)
        /\ page'.shownFor = <<q.amount, q.method>>
        /\ page'.fingerprint = {} \/ page'.fingerprint = {<<q.amount, u>>}
    BY <1>1, <1>3 DEF QuoteArrives, Page
  <2>2. q.amount = page.amount /\ q.method = page.method /\ q.amount > 0
    BY <1>3 DEF PageFits, Newest
  <2> QED
    BY <1>1, <1>2, <2>1, <2>2 DEF PageFits
<1>4. CASE ~Newest(q)
  <2>1. /\ page'.calculating = page.calculating /\ page'.shown = page.shown
        /\ page'.shownFor = page.shownFor /\ page'.fingerprint = page.fingerprint
        /\ page'.dialog = page.dialog
    BY <1>1, <1>4 DEF QuoteArrives, Page
  <2> QED
    BY <1>1, <1>2, <2>1 DEF PageFits
<1> QED
  BY <1>3, <1>4

\* Closing the confirmation disturbs nothing else of the page.
LEMMA PageCloses ==
    ASSUME TypeOK, PageFits, UNCHANGED quotes, NEW d \in BOOLEAN,
           d => page.dialog, page' = [page EXCEPT !.dialog = d]
    PROVE  PageFits'
<1>1. /\ page'.dialog = d /\ page'.amount = page.amount /\ page'.method = page.method
      /\ page'.seq = page.seq /\ page'.calculating = page.calculating
      /\ page'.shown = page.shown /\ page'.shownFor = page.shownFor
      /\ page'.fingerprint = page.fingerprint
  BY DEF TypeOK, Page
<1> QED
  BY <1>1 DEF PageFits

LEMMA PageUnchanged == ASSUME PageFits, UNCHANGED <<page, quotes>> PROVE PageFits'
  BY DEF PageFits

LEMMA PageInit == Init => PageFits
  BY DEF Init, PageFits, FreshPage

LEMMA PageNext == TypeOK /\ PageFits /\ [Next]_vars => PageFits'
<1> SUFFICES ASSUME TypeOK, PageFits, [Next]_vars PROVE PageFits'
  OBVIOUS
<1>1. page \in Page
  BY DEF TypeOK
<1>2. ASSUME NEW a \in Amounts \cup {0}, EditAmount(a) PROVE PageFits'
  <2>1. a \in Nat /\ page.method \in Methods
    BY <1>1, TopUpAssumption DEF Page
  <2> QED
    BY <1>2, <2>1, PageAsks DEF EditAmount
<1>3. ASSUME NEW m \in Methods, SelectMethod(m) PROVE PageFits'
  <2>1. page.amount \in Nat
    BY <1>1 DEF Page
  <2>2. CASE Asks(page.amount, m, TRUE)
    BY <1>3, <2>1, <2>2, PageAsks DEF SelectMethod
  <2>3. CASE page.amount = 0 /\ page' = [page EXCEPT !.method = m] /\ UNCHANGED quotes
    <3>1. /\ page'.dialog = page.dialog /\ page'.amount = 0 /\ page'.seq = page.seq
          /\ page'.shown = page.shown /\ page'.fingerprint = page.fingerprint
      BY <1>1, <2>3 DEF Page
    <3> QED
      BY <1>3, <2>3, <3>1 DEF PageFits, SelectMethod
  <2> QED
    BY <1>3, <2>2, <2>3 DEF SelectMethod
<1>4. ASSUME NEW q \in quotes, NEW unit \in {price, 0}, QuoteArrives(q, unit)
      PROVE  PageFits'
  BY <1>4, PriceNat, PageQuoteArrives
<1>5. CASE CloseDialog
  BY <1>5, PageCloses DEF CloseDialog
<1>6. ASSUME NEW a \in Amounts, NEW m \in Methods, Leave(a, m) PROVE PageFits'
  BY <1>6 DEF Leave, FreshPage, PageFits
<1>7. ASSUME NEW o \in Orders, Redirect(o) PROVE PageFits'
  <2>1. CASE req[o].mine
    BY <1>7, <2>1, PageCloses DEF Redirect
  <2>2. CASE ~req[o].mine
    BY <1>7, <2>2, PageUnchanged DEF Redirect
  <2> QED
    BY <2>1, <2>2
<1>8. ASSUME NEW o \in Orders, GiveUp(o) PROVE PageFits'
  <2>1. CASE page' = page
    BY <1>8, <2>1, PageUnchanged DEF GiveUp
  <2>2. CASE page' = [page EXCEPT !.dialog = page.dialog /\ ~req[o].mine]
    <3>1. (page.dialog /\ ~req[o].mine) \in BOOLEAN
      OBVIOUS
    <3>2. UNCHANGED quotes
      BY <1>8 DEF GiveUp
    <3> QED
      BY <2>2, <3>1, <3>2, PageCloses, Zenon
  <2> QED
    BY <1>8, <2>1, <2>2 DEF GiveUp
<1>9. ASSUME UNCHANGED <<page, quotes>> PROVE PageFits'
  BY <1>9, PageUnchanged
<1>10. ASSUME NEW o \in Orders, OrderStep(o) PROVE PageFits'
  <2>1. \/ Redirect(o) \/ GiveUp(o) \/ UNCHANGED <<page, quotes>>
    BY <1>10 DEF OrderStep, Confirm, CreateOrder, RefuseOrder, CreateSession,
       BindStripeCheckout, SessionFails, Pay, SessionEnds, CloseWindow, Webhook,
       WebhookFails, ManualComplete, AdminBind, AdminResolve, CheckSuccess,
       CheckPending, ChecksUsedUp
  <2> QED
    BY <1>7, <1>8, <1>9, <2>1
<1> QED
  BY <1>2, <1>3, <1>4, <1>5, <1>6, <1>9, <1>10 DEF Next, PageStep, ChangePrice, vars

\* An open confirmation shows the price of the amount and the method that it
\* will order (usePayment ignores every quote but the newest).
THEOREM ConfirmationIsCurrent == Spec => []DialogShowsItsQuote
<1>1. Init => PageFits
  BY PageInit
<1>2. TypeOK /\ PageFits /\ [Next]_vars => PageFits'
  BY PageNext
<1>3. PageFits => DialogShowsItsQuote
  BY DEF PageFits, DialogShowsItsQuote
<1> QED
  BY <1>1, <1>2, <1>3, TypeCorrect, PTL DEF Spec

-----------------------------------------------------------------------------
(* Orders                                                                    *)

\* The receipt covers the order without its tax, and with a discount only if
\* the order allows one.
Covered(r, order) ==
    /\ r.total + r.discount >= order.money + r.tax
    /\ r.discount > 0 => order.promo

\* The row of an order, its request and its credit agree; what a payment
\* completed was paid for; what a request on the wire confirmed is the price of
\* the quote it carries.
OrderFits(o) ==
    /\ req[o].phase \in {"free", "asked"} => row[o].status = "none"
    /\ req[o].phase # "free" => req[o].amount > 0
    /\ row[o].status = "none" =>
           /\ row[o].by = "nobody" /\ row[o].state = "none"
           /\ req[o].phase \notin {"inserted", "open", "created"}
           /\ ~checkout[o].open
    /\ req[o].method = "epay" => row[o].state = "none"
    /\ row[o].status # "none" =>
           IF req[o].method = "stripe"
           THEN row[o].credit > 0 /\ row[o].money = req[o].confirmed
           ELSE row[o].credit = 0
    /\ IF row[o].status = "success"
       THEN credited[o] > 0 /\ (req[o].method = "stripe" => credited[o] = row[o].credit)
       ELSE credited[o] = 0
    /\ row[o].by = "payment" => /\ row[o].status = "success"
                                /\ "paid" \in checkout[o].sent
                                /\ Covered(checkout[o].receipt, row[o])
    /\ req[o].phase = "asked" =>
           \A f \in req[o].print : req[o].confirmed = Cents(f[1] * f[2])

OrdersFit == \A o \in Orders : OrderFits(o)

LEMMA OrdersInit == Init => OrdersFit
<1> SUFFICES ASSUME Init, NEW o \in Orders PROVE OrderFits(o)
  BY DEF OrdersFit
<1>1. /\ req[o].phase = "free" /\ row[o].status = "none" /\ row[o].by = "nobody"
      /\ row[o].state = "none" /\ ~checkout[o].open /\ credited[o] = 0
  BY DEF Init, NoRequest, NoRow, NoCheckout
<1> QED
  BY <1>1 DEF OrderFits

\* What of a request and a checkout an order depends on.
SameRequest(o) ==
    /\ req'[o].phase = req[o].phase /\ req'[o].method = req[o].method
    /\ req'[o].amount = req[o].amount /\ req'[o].print = req[o].print
    /\ req'[o].confirmed = req[o].confirmed

SameCheckout(o) ==
    /\ checkout'[o].open = checkout[o].open /\ checkout'[o].sent = checkout[o].sent
    /\ checkout'[o].receipt = checkout[o].receipt

LEMMA OrderUnchanged ==
    ASSUME NEW o \in Orders, OrderFits(o), SameRequest(o), SameCheckout(o),
           row'[o] = row[o], credited'[o] = credited[o]
    PROVE  OrderFits(o)'
  BY DEF OrderFits, SameRequest, SameCheckout

LEMMA MethodsAndUnits ==
    /\ \A m \in Methods : m = "stripe" \/ m = "epay"
    /\ \A u \in Units : u \in Nat /\ u > 0
<1>1. Methods \subseteq {"stripe", "epay"} /\ Units \subseteq Nat \ {0}
  BY TopUpAssumption
<1> QED
  BY <1>1

\* A completion, by b, and the quota it credits.
Fulfils(o, b) ==
    \E s \in PaymentStates, quota \in Nat \ {0} :
        /\ req[o].method = "stripe" => quota = row[o].credit
        /\ req[o].method = "epay" => s = "none"
        /\ s # "paid_review"
        /\ row' = [row EXCEPT ![o] =
                      [row[o] EXCEPT !.status = "success", !.state = s, !.by = b]]
        /\ credited' = [credited EXCEPT ![o] = credited[o] + quota]

LEMMA CompleteFulfils ==
    ASSUME TypeOK, NEW o \in Orders, OrderFits(o), row[o].status # "none",
           NEW unit \in Nat, req[o].method = "epay" => unit > 0,
           NEW s \in PaymentStates, s # "paid_review", req[o].method = "epay" => s = "none",
           NEW b, Complete(o, unit, s, b)
    PROVE  Fulfils(o, b)
<1> DEFINE quota == IF req[o].method = "stripe" THEN row[o].credit ELSE req[o].amount * unit
<1>1. req[o] \in Request /\ row[o] \in Row
  BY DEF TypeOK
<1>2. /\ req[o].amount \in Nat /\ row[o].credit \in Nat
      /\ req[o].method \in Methods
  BY <1>1 DEF Request, Row
<1>3. req[o].amount > 0 /\ (req[o].method = "stripe" => row[o].credit > 0)
  BY DEF OrderFits
<1>4. ASSUME req[o].method # "stripe" PROVE req[o].amount * unit \in Nat \ {0}
  <2>1. unit \in Nat \ {0}
    BY <1>2, <1>4, MethodsAndUnits
  <2> QED
    BY <1>2, <1>3, <2>1
<1>5. quota \in Nat \ {0}
  BY <1>2, <1>3, <1>4
<1>6. credited' = [credited EXCEPT ![o] = credited[o] + quota]
  BY DEF Complete
<1>7. row' = [row EXCEPT ![o] =
                 [row[o] EXCEPT !.status = "success", !.state = s, !.by = b]]
  BY DEF Complete
<1>8. req[o].method = "stripe" => quota = row[o].credit
  OBVIOUS
<1> HIDE DEF quota
<1> QED
  BY <1>5, <1>6, <1>7, <1>8 DEF Fulfils

\* ManualCompleteTopUp completes a pending order, too.
LEMMA ManualFulfils ==
    ASSUME TypeOK, NEW o \in Orders, OrderFits(o), NEW unit \in Units,
           ManualComplete(o, unit)
    PROVE  Fulfils(o, "administrator")
<1> DEFINE s == IF req[o].method = "stripe" THEN "manual_override" ELSE row[o].state
<1>1. row[o].status = "pending" /\ Complete(o, unit, s, "administrator")
  BY DEF ManualComplete
<1>2. unit \in Nat /\ unit > 0 /\ req[o].method \in {"stripe", "epay"}
  <2>1. req[o].method \in Methods
    BY DEF TypeOK, Request
  <2> QED
    BY <2>1, MethodsAndUnits
<1>3. s \in PaymentStates /\ s # "paid_review" /\ (req[o].method = "epay" => s = "none")
  BY <1>2 DEF OrderFits, PaymentStates
<1> HIDE DEF s
<1> QED
  BY <1>1, <1>2, <1>3, CompleteFulfils

\* What the delivery of an event that has happened does: nothing, a completion
\* of what was paid for, a review, or the end of a pending order nothing was
\* paid for.
Settled(o) ==
    /\ row[o].status \notin {"none", "success"} /\ "paid" \in checkout[o].sent
    /\ Covered(checkout[o].receipt, row[o])
    /\ Fulfils(o, "payment")

UnderReview(o) ==
    /\ row[o].status \notin {"none", "success"} /\ "paid" \in checkout[o].sent
    /\ req[o].method = "stripe"
    /\ row' = [row EXCEPT ![o].state = "paid_review"] /\ UNCHANGED credited

Ended(o) ==
    /\ row[o].status = "pending" /\ row[o].state # "paid_review"
    /\ \E e \in {"expired", "failed"} : row' = [row EXCEPT ![o].status = e]
    /\ UNCHANGED credited

LEMMA AnswersOutcome ==
    ASSUME TypeOK, StageFits, NEW o \in Orders, OrderFits(o),
           NEW e \in checkout[o].sent, NEW unit \in Units, NEW ok \in BOOLEAN,
           Answers(o, e, unit, ok)
    PROVE  UNCHANGED <<row, credited>> \/ Settled(o) \/ UnderReview(o) \/ Ended(o)
<1>1. /\ row[o] \in Row /\ checkout[o].receipt \in Receipt /\ e \in Events
      /\ unit \in Nat /\ unit > 0
  BY TopUpAssumption DEF TypeOK, Checkout
<1>2. row[o].status # "none"
  BY DEF StageFits, OrderFits
<1>3. /\ row[o].money \in Nat
      /\ checkout[o].receipt.total \in Nat /\ checkout[o].receipt.subtotal \in Nat
      /\ checkout[o].receipt.discount \in Nat /\ checkout[o].receipt.tax \in Nat
  BY <1>1 DEF Row, Receipt
<1>4. CASE req[o].method = "epay" /\ EpayPaid(o, unit, ok)
  <2>1. "paid" \in checkout[o].sent
    BY <1>4 DEF StageFits
  <2>2. CASE /\ row[o].status = "pending"
             /\ checkout[o].receipt.total >= row[o].money
             /\ Complete(o, unit, row[o].state, "payment")
    <3>1. Covered(checkout[o].receipt, row[o])
      BY <1>3, <1>4, <2>2 DEF StageFits, Covered
    <3>2. row[o].state = "none"
      BY <1>4 DEF OrderFits
    <3>3. Fulfils(o, "payment")
      BY <1>1, <1>2, <2>2, <3>2, CompleteFulfils DEF PaymentStates
    <3> QED
      BY <2>1, <2>2, <3>1, <3>3 DEF Settled
  <2> QED
    BY <1>4, <2>2 DEF EpayPaid, paidAmountCoversOrder
<1>5. CASE req[o].method = "stripe" /\ e = "paid" /\ StripePaid(o, ok)
  <2>1. CASE /\ row[o].status # "success" /\ Validates(checkout[o].receipt, row[o])
             /\ Complete(o, 0, "paid", "payment")
    <3>1. Covered(checkout[o].receipt, row[o])
      BY <1>3, <2>1 DEF Validates, Covered
    <3>2. Fulfils(o, "payment")
      BY <1>2, <1>5, <2>1, CompleteFulfils DEF PaymentStates
    <3> QED
      BY <1>2, <1>5, <2>1, <3>1, <3>2 DEF Settled
  <2>2. CASE /\ row[o].status # "success"
             /\ row' = [row EXCEPT ![o].state = "paid_review"] /\ UNCHANGED credited
    BY <1>2, <1>5, <2>2 DEF UnderReview
  <2> QED
    BY <1>5, <2>1, <2>2 DEF StripePaid
<1>6. CASE req[o].method = "stripe" /\ e # "paid" /\ StripeEnded(o, e)
  BY <1>1, <1>6 DEF StripeEnded, Ended, Events
<1> QED
  BY <1>4, <1>5, <1>6 DEF Answers

\* An order that is completed was pending or had ended unpaid, and gets its
\* credit now.
LEMMA OrderFulfilled ==
    ASSUME TypeOK, NEW o \in Orders, OrderFits(o), row[o].status \notin {"none", "success"},
           SameRequest(o), SameCheckout(o), NEW b, Fulfils(o, b),
           b = "payment" => /\ "paid" \in checkout[o].sent
                            /\ Covered(checkout[o].receipt, row[o])
    PROVE  OrderFits(o)'
<1>1. row \in [Orders -> Row] /\ row[o] \in Row /\ credited \in [Orders -> Nat]
  BY DEF TypeOK
<1>2. PICK s \in PaymentStates, quota \in Nat \ {0} :
        /\ req[o].method = "stripe" => quota = row[o].credit
        /\ req[o].method = "epay" => s = "none"
        /\ row' = [row EXCEPT ![o] =
                      [row[o] EXCEPT !.status = "success", !.state = s, !.by = b]]
        /\ credited' = [credited EXCEPT ![o] = credited[o] + quota]
  BY DEF Fulfils
<1>3. /\ row'[o].status = "success" /\ row'[o].by = b /\ row'[o].state = s
      /\ row'[o].money = row[o].money /\ row'[o].credit = row[o].credit
      /\ row'[o].promo = row[o].promo
  BY <1>1, <1>2 DEF Row
<1>4. credited'[o] = quota
  BY <1>1, <1>2 DEF OrderFits
<1>5. b = "payment" => Covered(checkout[o].receipt, row[o])'
  BY <1>3 DEF Covered, SameCheckout
<1> QED
  BY <1>2, <1>3, <1>4, <1>5 DEF OrderFits, SameRequest, SameCheckout

\* The delivery of an event keeps the order in order.
LEMMA OrderAnswered ==
    ASSUME TypeOK, StageFits, NEW o \in Orders, OrderFits(o),
           NEW e \in checkout[o].sent, NEW unit \in Units, NEW ok \in BOOLEAN,
           Answers(o, e, unit, ok), SameRequest(o), SameCheckout(o)
    PROVE  OrderFits(o)'
<1>1. row \in [Orders -> Row] /\ row[o] \in Row
  BY DEF TypeOK
<1>2. CASE UNCHANGED <<row, credited>>
  BY <1>2, OrderUnchanged
<1>3. CASE Settled(o)
  BY <1>3, OrderFulfilled DEF Settled
<1>4. CASE UnderReview(o) \/ Ended(o)
  <2>1. /\ row'[o].by = row[o].by /\ row'[o].money = row[o].money
        /\ row'[o].credit = row[o].credit /\ row'[o].promo = row[o].promo
        /\ row[o].status \notin {"none", "success"}
        /\ row'[o].status \notin {"none", "success"}
        /\ row'[o].state = row[o].state \/ req[o].method = "stripe"
        /\ UNCHANGED credited
    BY <1>1, <1>4 DEF UnderReview, Ended, Row
  <2>2. row[o].by # "payment"
    BY <2>1 DEF OrderFits
  <2> QED
    BY <2>1, <2>2 DEF OrderFits, SameRequest, SameCheckout
<1> QED
  BY <1>2, <1>3, <1>4, AnswersOutcome

\* A row that only changes in its binding or its state of payment.
LEMMA OrderTouched ==
    ASSUME TypeOK, NEW o \in Orders, OrderFits(o), row[o].status # "none",
           req'[o].phase \notin {"free", "asked"}, req[o].phase # "free",
           req'[o].method = req[o].method, req'[o].amount = req[o].amount,
           req'[o].confirmed = req[o].confirmed,
           row'[o].status = row[o].status, row'[o].by = row[o].by,
           row'[o].money = row[o].money, row'[o].credit = row[o].credit,
           row'[o].promo = row[o].promo,
           row[o].state = "none" => row'[o].state = "none",
           checkout'[o].sent = checkout[o].sent,
           checkout'[o].receipt = checkout[o].receipt, UNCHANGED credited
    PROVE  OrderFits(o)'
<1>1. Covered(checkout[o].receipt, row[o])' = Covered(checkout[o].receipt, row[o])
  BY DEF Covered
<1> QED
  BY <1>1 DEF OrderFits

\* The row as it is placed.
LEMMA OrderPlaced ==
    ASSUME TypeOK, NEW o \in Orders, OrderFits(o), NEW unit \in Units,
           NEW promo \in BOOLEAN, CreateOrder(o, unit, promo)
    PROVE  /\ row[o].status = "none" /\ row[o].by = "nobody" /\ row[o].state = "none"
           /\ row'[o].status = "pending" /\ row'[o].by = "nobody"
           /\ row'[o].state # "paid_review"
           /\ row'[o].money = OrderMoney(req[o].method, req[o].amount, price)
           /\ IF req[o].method = "stripe"
              THEN row'[o].credit \in Nat \ {0}
              ELSE row'[o].credit = 0 /\ row'[o].state = "none"
<1> DEFINE money == OrderMoney(req[o].method, req[o].amount, price)
           new == [NoRow EXCEPT !.status = "pending", !.money = money]
           fixed == [new EXCEPT !.state = "unpaid", !.credit = req[o].amount * unit,
                                !.promo = promo]
<1>1. row[o].status = "none" /\ row[o].by = "nobody" /\ row[o].state = "none"
  BY DEF CreateOrder, OrderFits
<1>2. row'[o] = IF req[o].method = "stripe" THEN fixed ELSE new
  BY Zenon DEF CreateOrder, TypeOK
<1>3. /\ new.status = "pending" /\ new.by = "nobody" /\ new.state = "none"
      /\ new.money = money /\ new.credit = 0
      /\ fixed.status = "pending" /\ fixed.by = "nobody" /\ fixed.state = "unpaid"
      /\ fixed.money = money /\ fixed.credit = req[o].amount * unit
  BY DEF NoRow
<1>4. req[o].amount \in Nat \ {0} /\ unit \in Nat \ {0}
  BY TopUpAssumption DEF CreateOrder, OrderFits, TypeOK, Request
<1>5. req[o].amount * unit \in Nat \ {0}
  BY <1>4
<1> HIDE DEF money, new, fixed
<1>6. CASE req[o].method = "stripe"
  BY <1>1, <1>2, <1>3, <1>5, <1>6 DEF money
<1>7. CASE req[o].method # "stripe"
  BY <1>1, <1>2, <1>3, <1>7 DEF money
<1> QED
  BY <1>6, <1>7

\* One step of an order keeps it in order.
LEMMA OrderOwnStep ==
    ASSUME TypeOK, StageFits, PageFits, NEW o \in Orders, OrderFits(o), OrderStep(o)
    PROVE  OrderFits(o)'
<1>1. /\ req \in [Orders -> Request] /\ row \in [Orders -> Row]
      /\ credited \in [Orders -> Nat] /\ checkout \in [Orders -> Checkout]
      /\ req[o] \in Request /\ row[o] \in Row /\ checkout[o] \in Checkout
  BY DEF TypeOK
<1>2. CASE Confirm(o)
  <2>1. /\ req'[o].phase = "asked" /\ req'[o].confirmed = page.shown
        /\ req'[o].print = page.fingerprint /\ req'[o].amount > 0
    BY <1>1, <1>2 DEF Confirm, MayPay
  <2>2. /\ row[o].status = "none" /\ credited[o] = 0 /\ row[o].by = "nobody"
        /\ row[o].state = "none" /\ ~checkout[o].open
    BY <1>2 DEF Confirm, OrderFits
  <2>3. UNCHANGED <<row, credited, checkout>>
    BY <1>2 DEF Confirm
  <2> QED
    BY <2>1, <2>2, <2>3 DEF OrderFits, PageFits
<1>3. CASE Redirect(o)
  <2>1. /\ req'[o].phase = "created" /\ req[o].phase = "created"
        /\ req'[o].method = req[o].method
        /\ req'[o].amount = req[o].amount /\ req'[o].confirmed = req[o].confirmed
        /\ checkout'[o].sent = checkout[o].sent
        /\ checkout'[o].receipt = checkout[o].receipt
        /\ UNCHANGED <<row, credited>>
    BY <1>1, <1>3 DEF Redirect, Request, Checkout
  <2>2. row[o].status # "none"
    BY <2>1 DEF OrderFits
  <2> QED
    BY <2>1, <2>2, OrderTouched
<1>4. CASE GiveUp(o)
  <2>1. SameRequest(o) /\ UNCHANGED <<row, credited, checkout>>
    BY <1>1, <1>4 DEF GiveUp, Request, SameRequest
  <2> QED
    BY <2>1, OrderUnchanged DEF SameCheckout
<1>5. CASE RefuseOrder(o)
  <2>1. /\ req'[o].phase = "refused" /\ req[o].phase = "asked"
        /\ req'[o].method = req[o].method /\ req'[o].amount = req[o].amount
        /\ UNCHANGED <<row, credited, checkout>>
    BY <1>1, <1>5 DEF RefuseOrder, Request
  <2>2. row[o].status = "none"
    BY <2>1 DEF OrderFits
  <2> QED
    BY <2>1, <2>2 DEF OrderFits
<1>6. ASSUME NEW unit \in Units, NEW promo \in BOOLEAN, CreateOrder(o, unit, promo)
      PROVE  OrderFits(o)'
  <2>1. /\ row[o].status = "none" /\ row'[o].status = "pending" /\ row'[o].by = "nobody"
        /\ row'[o].money = OrderMoney(req[o].method, req[o].amount, price)
        /\ IF req[o].method = "stripe" THEN row'[o].credit \in Nat \ {0}
           ELSE row'[o].credit = 0 /\ row'[o].state = "none"
    BY <1>6, OrderPlaced
  <2>2. /\ req'[o].phase \in {"inserted", "created"} /\ req[o].phase = "asked"
        /\ req'[o].method = req[o].method /\ req'[o].amount = req[o].amount
        /\ req'[o].confirmed = req[o].confirmed /\ UNCHANGED credited
    BY <1>1, <1>6 DEF CreateOrder, Request
  <2>3. ASSUME req[o].method = "stripe" PROVE row'[o].money = req[o].confirmed
    <3>1. req[o].print = {<<req[o].amount, price>>}
      BY <1>6, <2>3 DEF CreateOrder, SameQuote
    <3>2. req[o].confirmed = Cents(req[o].amount * price)
      BY <2>2, <3>1 DEF OrderFits
    <3> QED
      BY <2>1, <2>3, <3>2 DEF OrderMoney
  <2>4. req[o].method \in {"stripe", "epay"}
    BY <1>1, TopUpAssumption DEF Request
  <2> QED
    BY <2>1, <2>2, <2>3, <2>4 DEF OrderFits
<1>7. CASE CreateSession(o)
  <2>1. /\ req'[o].phase = "open" /\ req[o].phase = "inserted"
        /\ req'[o].method = req[o].method
        /\ req'[o].amount = req[o].amount /\ req'[o].confirmed = req[o].confirmed
        /\ checkout'[o].sent = checkout[o].sent
        /\ checkout'[o].receipt = checkout[o].receipt
        /\ UNCHANGED <<row, credited>>
    BY <1>1, <1>7 DEF CreateSession, Request, Checkout
  <2>2. row[o].status # "none"
    BY <2>1 DEF OrderFits
  <2> QED
    BY <2>1, <2>2, OrderTouched
<1>8. CASE BindStripeCheckout(o) \/ SessionFails(o)
  <2>1. /\ req'[o].phase \in {"created", "refused"} /\ req[o].phase \in {"inserted", "open"}
        /\ req'[o].method = req[o].method
        /\ req'[o].amount = req[o].amount /\ req'[o].confirmed = req[o].confirmed
        /\ UNCHANGED <<credited, checkout>>
    BY <1>1, <1>8 DEF BindStripeCheckout, SessionFails, Request
  <2>2. /\ row'[o].status = row[o].status /\ row'[o].by = row[o].by
        /\ row'[o].money = row[o].money /\ row'[o].credit = row[o].credit
        /\ row'[o].promo = row[o].promo
        /\ row[o].state = "none" => row'[o].state = "none"
    BY <1>1, <1>8 DEF BindStripeCheckout, SessionFails, Row
  <2>3. row[o].status # "none"
    BY <2>1 DEF OrderFits
  <2> QED
    BY <2>1, <2>2, <2>3, OrderTouched
<1>9. CASE AdminBind(o)
  <2>1. row[o].status # "none" /\ req[o].phase \notin {"free", "asked"}
    BY <1>9 DEF AdminBind, OrderFits
  <2>2. /\ row'[o].status = row[o].status /\ row'[o].by = row[o].by
        /\ row'[o].money = row[o].money /\ row'[o].credit = row[o].credit
        /\ row'[o].promo = row[o].promo /\ row'[o].state = row[o].state
    BY <1>1, <1>9 DEF AdminBind, Row
  <2> QED
    BY <1>9, <2>1, <2>2, OrderTouched DEF AdminBind
<1>10. ASSUME \/ \E r \in Receipts(o) : Pay(o, r)
              \/ \E e \in {"expired", "failed"} : SessionEnds(o, e)
       PROVE  OrderFits(o)'
  <2>1. checkout[o].open /\ UNCHANGED <<req, row, credited>>
    BY <1>10 DEF Pay, SessionEnds
  <2>2. row[o].status # "none"
    BY <2>1 DEF OrderFits
  <2>3. \/ "paid" \notin checkout[o].sent
        \/ /\ checkout'[o].receipt = checkout[o].receipt
           /\ "paid" \in checkout[o].sent => "paid" \in checkout'[o].sent
    <3>1. ASSUME NEW e \in {"expired", "failed"}, SessionEnds(o, e)
          PROVE  /\ checkout'[o].receipt = checkout[o].receipt
                 /\ checkout'[o].sent = checkout[o].sent \cup {e}
      BY <1>1, <3>1 DEF SessionEnds, Checkout
    <3> QED
      BY <1>10, <3>1 DEF Pay
  <2> QED
    BY <2>1, <2>2, <2>3 DEF OrderFits
<1>11. ASSUME NEW e \in Events, NEW unit \in Units, Webhook(o, e, unit)
       PROVE  OrderFits(o)'
  <2>1. PICK ok \in BOOLEAN : /\ Answers(o, e, unit, ok)
                              /\ Acknowledge(o, e, ok) \/ UNCHANGED checkout
    BY <1>11 DEF Webhook, Answers
  <2>2. SameRequest(o) /\ SameCheckout(o)
    BY <1>11, <2>1, AcknowledgeTyped DEF Webhook, SameRequest, SameCheckout
  <2> QED
    BY <1>11, <2>1, <2>2, OrderAnswered DEF Webhook
<1>12. ASSUME NEW e \in Events, AdminResolve(o, e) PROVE OrderFits(o)'
  <2>1. PICK unit \in Units : TRUE
    BY TopUpAssumption
  <2>2. Answers(o, e, unit, TRUE)
    BY <1>12 DEF AdminResolve, Answers
  <2>3. SameRequest(o) /\ SameCheckout(o)
    BY <1>12 DEF AdminResolve, SameRequest, SameCheckout
  <2> QED
    BY <1>12, <2>2, <2>3, OrderAnswered DEF AdminResolve
<1>13. ASSUME NEW unit \in Units, ManualComplete(o, unit) PROVE OrderFits(o)'
  <2>1. Fulfils(o, "administrator")
    BY <1>13, ManualFulfils
  <2>2. SameRequest(o) /\ SameCheckout(o)
    BY <1>13 DEF ManualComplete, SameRequest, SameCheckout
  <2> QED
    BY <1>13, <2>1, <2>2, OrderFulfilled DEF ManualComplete
<1>14. ASSUME \/ CloseWindow(o) \/ CheckSuccess(o) \/ CheckPending(o) \/ ChecksUsedUp(o)
              \/ \E e \in Events : WebhookFails(o, e)
       PROVE  OrderFits(o)'
  <2>1. UNCHANGED <<req, row, credited, checkout>>
    BY <1>14 DEF CloseWindow, WebhookFails, Acknowledge, CheckSuccess, CheckPending,
                 ChecksUsedUp
  <2> QED
    BY <2>1, OrderUnchanged DEF SameRequest, SameCheckout
<1> QED
  BY <1>2, <1>3, <1>4, <1>5, <1>6, <1>7, <1>8, <1>9, <1>10, <1>11, <1>12, <1>13, <1>14
     DEF OrderStep

\* A step of one order leaves the others alone.
LEMMA OtherOrders ==
    ASSUME TypeOK, NEW o \in Orders, NEW p \in Orders, p # o, OrderStep(o)
    PROVE  /\ req'[p] = req[p] /\ row'[p] = row[p] /\ credited'[p] = credited[p]
           /\ checkout'[p] = checkout[p] /\ monitor'[p] = monitor[p]
<1>1. /\ req \in [Orders -> Request] /\ row \in [Orders -> Row]
      /\ credited \in [Orders -> Nat] /\ checkout \in [Orders -> Checkout]
      /\ monitor \in [Orders -> Monitor]
  BY DEF TypeOK
<1>2. ASSUME NEW u, NEW s, NEW b, Complete(o, u, s, b)
      PROVE  row'[p] = row[p] /\ credited'[p] = credited[p]
  BY <1>1, <1>2 DEF Complete
<1>3. ASSUME NEW e, NEW u, NEW ok, Answers(o, e, u, ok)
      PROVE  row'[p] = row[p] /\ credited'[p] = credited[p]
  <2>1. \/ UNCHANGED <<row, credited>>
        \/ Complete(o, u, row[o].state, "payment")
        \/ Complete(o, 0, "paid", "payment")
        \/ row' = [row EXCEPT ![o].state = "paid_review"] /\ UNCHANGED credited
        \/ row' = [row EXCEPT ![o].status = e] /\ UNCHANGED credited
    BY <1>3 DEF Answers, EpayPaid, StripePaid, StripeEnded
  <2> QED
    BY <1>1, <1>2, <2>1
<1>4. ASSUME NEW e \in Events, NEW unit \in Units, Webhook(o, e, unit)
      PROVE  /\ req'[p] = req[p] /\ row'[p] = row[p] /\ credited'[p] = credited[p]
             /\ checkout'[p] = checkout[p] /\ monitor'[p] = monitor[p]
  <2>1. PICK ok \in BOOLEAN : /\ Answers(o, e, unit, ok)
                              /\ Acknowledge(o, e, ok) \/ UNCHANGED checkout
    BY <1>4 DEF Webhook, Answers
  <2> QED
    BY <1>3, <1>4, <2>1, AcknowledgeTyped DEF Webhook
<1>11. ASSUME NEW e \in Events, AdminResolve(o, e)
       PROVE  /\ req'[p] = req[p] /\ row'[p] = row[p] /\ credited'[p] = credited[p]
              /\ checkout'[p] = checkout[p] /\ monitor'[p] = monitor[p]
  <2>1. Answers(o, e, 0, TRUE)
    BY <1>11 DEF AdminResolve, Answers
  <2> QED
    BY <1>3, <1>11, <2>1 DEF AdminResolve
<1>12. ASSUME NEW unit \in Units, ManualComplete(o, unit)
       PROVE  /\ req'[p] = req[p] /\ row'[p] = row[p] /\ credited'[p] = credited[p]
              /\ checkout'[p] = checkout[p] /\ monitor'[p] = monitor[p]
  BY <1>2, <1>12 DEF ManualComplete
<1>13. CASE AdminBind(o)
  BY <1>1, <1>13 DEF AdminBind
<1>5. CASE Confirm(o) \/ Redirect(o) \/ GiveUp(o)
  BY <1>1, <1>5 DEF Confirm, Redirect, GiveUp
<1>6. CASE \/ \E unit \in Units, promo \in BOOLEAN : CreateOrder(o, unit, promo)
           \/ RefuseOrder(o) \/ CreateSession(o)
  BY <1>1, <1>6 DEF CreateOrder, RefuseOrder, CreateSession
<1>7. CASE BindStripeCheckout(o) \/ SessionFails(o)
  BY <1>1, <1>7 DEF BindStripeCheckout, SessionFails
<1>8. CASE \/ \E r \in Receipts(o) : Pay(o, r)
           \/ \E e \in {"expired", "failed"} : SessionEnds(o, e)
  BY <1>1, <1>8 DEF Pay, SessionEnds
<1>9. CASE CloseWindow(o) \/ \E e \in Events : WebhookFails(o, e)
  BY <1>1, <1>9 DEF CloseWindow, WebhookFails, Acknowledge
<1>10. CASE CheckSuccess(o) \/ CheckPending(o) \/ ChecksUsedUp(o)
  BY <1>1, <1>10 DEF CheckSuccess, CheckPending, ChecksUsedUp, Ends
<1> QED
  BY <1>4, <1>5, <1>6, <1>7, <1>8, <1>9, <1>10, <1>11, <1>12, <1>13 DEF OrderStep

LEMMA OrdersNext ==
    TypeOK /\ StageFits /\ PageFits /\ OrdersFit /\ [Next]_vars => OrdersFit'
<1> SUFFICES ASSUME TypeOK, StageFits, PageFits, OrdersFit, [Next]_vars,
                    NEW p \in Orders
             PROVE  OrderFits(p)'
  BY DEF OrdersFit
<1>1. OrderFits(p)
  BY DEF OrdersFit
<1>2. ASSUME NEW o \in Orders, OrderStep(o) PROVE OrderFits(p)'
  <2>1. CASE p = o
    BY <1>1, <1>2, <2>1, OrderOwnStep
  <2>2. CASE p # o
    BY <1>1, <1>2, <2>2, OtherOrders, OrderUnchanged DEF SameRequest, SameCheckout
  <2> QED
    BY <2>1, <2>2
<1>3. ASSUME NEW a \in Amounts, NEW m \in Methods, Leave(a, m) PROVE OrderFits(p)'
  <2>1. SameRequest(p)
    BY <1>3 DEF Leave, TypeOK, Request, SameRequest
  <2> QED
    BY <1>1, <1>3, <2>1, OrderUnchanged DEF Leave, SameCheckout
<1>4. ASSUME UNCHANGED <<req, row, credited, checkout>> PROVE OrderFits(p)'
  BY <1>1, <1>4, OrderUnchanged DEF SameRequest, SameCheckout
<1>5. CASE PageStep
  BY <1>3, <1>4, <1>5 DEF PageStep, EditAmount, SelectMethod, QuoteArrives, CloseDialog
<1> QED
  BY <1>2, <1>4, <1>5 DEF Next, ChangePrice, vars

\* Orders, page and types in one invariant of the specification.
THEOREM OrdersStay == Spec => [](StageFits /\ OrdersFit)
  BY TypeCorrect, PageInit, PageNext, OrdersInit, OrdersNext, PTL DEF Spec

\* An order is credited once, a Stripe order with the quota of its snapshot,
\* exactly when its row says success, for any number of orders, prices, faults
\* and repeated or late webhooks (CompleteEpayTopUpWithPaidAmount,
\* CompleteStripeCheckout, EndStripeCheckout, ManualCompleteTopUp).
THEOREM OrdersCreditedOnce == Spec => []CreditedOnce
<1>1. OrdersFit /\ TypeOK => CreditedOnce
  <2> SUFFICES ASSUME OrdersFit, TypeOK, NEW o \in Orders
               PROVE  /\ credited[o] > 0 <=> row[o].status = "success"
                      /\ credited[o] > 0 /\ req[o].method = "stripe" =>
                             credited[o] = row[o].credit
    BY DEF CreditedOnce
  <2>1. OrderFits(o)
    BY DEF OrdersFit
  <2> QED
    BY <2>1 DEF OrderFits
<1> QED
  BY <1>1, OrdersStay, TypeCorrect, PTL

\* What a webhook or a reconciliation credits was paid for: the receipt covers
\* the price of the order, without its tax, and with a discount only if the
\* order allows promotion codes (validate of StripeCheckoutReceipt,
\* paidAmountCoversOrder).
THEOREM CreditsArePaid == Spec => []CreditIsPaid
<1>1. OrdersFit => CreditIsPaid
  BY DEF OrdersFit, OrderFits, Covered, CreditIsPaid
<1> QED
  BY <1>1, OrdersStay, PTL

\* A Stripe order costs what the user confirmed, whatever happens to the price
\* between the quote and the order.
THEOREM StripePriceIsConfirmed == Spec => []StripeCostsWhatWasShown
<1>1. OrdersFit => StripeCostsWhatWasShown
  BY DEF OrdersFit, OrderFits, StripeCostsWhatWasShown
<1> QED
  BY <1>1, OrdersStay, PTL

-----------------------------------------------------------------------------
(* Topping up implements Purchase.                                           *)

\* What one step of an order may do to its row, its money and its credit.
SameMoney(o) == "paid" \in checkout'[o].sent <=> "paid" \in checkout[o].sent
SameReview(o) == row'[o].state = "paid_review" <=> row[o].state = "paid_review"

Rests(o) ==
    /\ row'[o].status = row[o].status /\ row'[o].credit = row[o].credit
    /\ row'[o].by = row[o].by /\ credited'[o] = credited[o]
    /\ SameMoney(o) /\ SameReview(o)

Placed(o) ==
    /\ row[o].status = "none" /\ row'[o].status = "pending"
    /\ row'[o].credit \in Nat /\ row'[o].by = row[o].by
    /\ credited'[o] = credited[o]
    /\ SameMoney(o) /\ SameReview(o)

PaidFor(o) ==
    /\ row[o].status # "none"
    /\ row'[o] = row[o] /\ credited'[o] = credited[o]
    /\ "paid" \notin checkout[o].sent /\ "paid" \in checkout'[o].sent

Completed(o) ==
    /\ row[o].status \notin {"none", "success"} /\ row'[o].status = "success"
    /\ row'[o].credit = row[o].credit
    /\ credited'[o] \in IF row[o].credit > 0 THEN {row[o].credit} ELSE Nat \ {0}
    /\ \/ row'[o].by = "administrator" /\ row[o].status = "pending"
       \/ row'[o].by = "payment" /\ "paid" \in checkout[o].sent
    /\ SameMoney(o) /\ row'[o].state # "paid_review"

Reviewed(o) ==
    /\ row[o].status \notin {"none", "success"} /\ "paid" \in checkout[o].sent
    /\ row'[o].status = row[o].status /\ row'[o].credit = row[o].credit
    /\ row'[o].by = row[o].by /\ credited'[o] = credited[o]
    /\ SameMoney(o) /\ row'[o].state = "paid_review"

Lapsed(o) ==
    /\ row[o].status = "pending" /\ row'[o].status \in {"failed", "expired"}
    /\ row'[o].credit = row[o].credit /\ row'[o].by = row[o].by
    /\ credited'[o] = credited[o]
    /\ SameMoney(o) /\ row[o].state # "paid_review" /\ SameReview(o)

Moves(o) ==
    Rests(o) \/ Placed(o) \/ PaidFor(o) \/ Completed(o) \/ Reviewed(o) \/ Lapsed(o)

\* A completion credits what was ordered, once.
LEMMA FulfilmentMoves ==
    ASSUME TypeOK, NEW o \in Orders, OrderFits(o), row[o].status \notin {"none", "success"},
           NEW b, Fulfils(o, b), SameMoney(o),
           \/ b = "administrator" /\ row[o].status = "pending"
           \/ b = "payment" /\ "paid" \in checkout[o].sent
    PROVE  Moves(o)
<1>1. /\ row \in [Orders -> Row] /\ row[o] \in Row /\ credited \in [Orders -> Nat]
      /\ row[o].credit \in Nat /\ req[o].method \in Methods
  BY DEF TypeOK, Row, Request
<1>2. PICK s \in PaymentStates, quota \in Nat \ {0} :
        /\ req[o].method = "stripe" => quota = row[o].credit
        /\ s # "paid_review"
        /\ row' = [row EXCEPT ![o] =
                      [row[o] EXCEPT !.status = "success", !.state = s, !.by = b]]
        /\ credited' = [credited EXCEPT ![o] = credited[o] + quota]
  BY DEF Fulfils
<1>3. /\ row'[o].status = "success" /\ row'[o].by = b /\ row'[o].state = s
      /\ row'[o].credit = row[o].credit
  BY <1>1, <1>2 DEF Row
<1>4. credited'[o] = quota
  BY <1>1, <1>2 DEF OrderFits
<1>5. req[o].method # "stripe" => row[o].credit = 0
  BY DEF OrderFits
<1>6. credited'[o] \in IF row[o].credit > 0 THEN {row[o].credit} ELSE Nat \ {0}
  BY <1>1, <1>2, <1>4, <1>5
<1> QED
  BY <1>2, <1>3, <1>6 DEF Moves, Completed

\* The delivery of an event settles an order that was paid for, puts it under
\* review, ends one that was not, or changes nothing a user sees.
LEMMA AnswerMoves ==
    ASSUME TypeOK, StageFits, NEW o \in Orders, OrderFits(o),
           NEW e \in checkout[o].sent, NEW unit \in Units, NEW ok \in BOOLEAN,
           Answers(o, e, unit, ok), SameMoney(o)
    PROVE  Moves(o)
<1>1. row \in [Orders -> Row] /\ row[o] \in Row
  BY DEF TypeOK
<1>2. CASE UNCHANGED <<row, credited>>
  BY <1>2 DEF Moves, Rests, SameReview
<1>3. CASE Settled(o)
  BY <1>3, FulfilmentMoves DEF Settled
<1>4. CASE UnderReview(o)
  <2>1. /\ row'[o].status = row[o].status /\ row'[o].by = row[o].by
        /\ row'[o].credit = row[o].credit /\ row'[o].state = "paid_review"
    BY <1>1, <1>4 DEF UnderReview, Row
  <2> QED
    BY <1>4, <2>1 DEF UnderReview, Moves, Reviewed
<1>5. CASE Ended(o)
  <2>1. /\ row'[o].status \in {"expired", "failed"} /\ row'[o].by = row[o].by
        /\ row'[o].credit = row[o].credit /\ row'[o].state = row[o].state
    BY <1>1, <1>5 DEF Ended, Row
  <2> QED
    BY <1>5, <2>1 DEF Ended, Moves, Lapsed, SameReview
<1> QED
  BY <1>2, <1>3, <1>4, <1>5, AnswersOutcome

\* Every step of an order is one of these moves.
LEMMA OrderMoves ==
    ASSUME TypeOK, StageFits, NEW o \in Orders, OrderFits(o), OrderStep(o)
    PROVE  Moves(o)
<1>1. /\ row \in [Orders -> Row] /\ checkout \in [Orders -> Checkout]
      /\ req[o] \in Request /\ row[o] \in Row /\ checkout[o] \in Checkout
  BY DEF TypeOK
<1>2. CASE Redirect(o) \/ CreateSession(o)
  <2>1. checkout'[o].sent = checkout[o].sent /\ UNCHANGED <<row, credited>>
    BY <1>1, <1>2 DEF Redirect, CreateSession, Checkout
  <2> QED
    BY <2>1 DEF Moves, Rests, SameMoney, SameReview
<1>3. CASE \/ Confirm(o) \/ GiveUp(o) \/ RefuseOrder(o) \/ CloseWindow(o)
           \/ \E e \in Events : WebhookFails(o, e)
           \/ CheckSuccess(o) \/ CheckPending(o) \/ ChecksUsedUp(o)
  <2>1. UNCHANGED <<row, credited, checkout>>
    BY <1>3 DEF Confirm, GiveUp, RefuseOrder, CloseWindow, WebhookFails, Acknowledge,
                CheckSuccess, CheckPending, ChecksUsedUp
  <2> QED
    BY <2>1 DEF Moves, Rests, SameMoney, SameReview
<1>4. ASSUME NEW unit \in Units, NEW promo \in BOOLEAN, CreateOrder(o, unit, promo)
      PROVE  Moves(o)
  <2>1. /\ row[o].status = "none" /\ row[o].by = "nobody" /\ row[o].state = "none"
        /\ row'[o].status = "pending" /\ row'[o].by = "nobody"
        /\ row'[o].state # "paid_review" /\ row'[o].credit \in Nat
    BY <1>4, OrderPlaced
  <2>2. checkout'[o].sent = checkout[o].sent /\ UNCHANGED credited
    BY <1>1, <1>4 DEF CreateOrder, Checkout
  <2> QED
    BY <2>1, <2>2 DEF Moves, Placed, SameMoney, SameReview
<1>5. CASE BindStripeCheckout(o) \/ SessionFails(o) \/ AdminBind(o)
  <2>1. /\ row'[o].status = row[o].status /\ row'[o].by = row[o].by
        /\ row'[o].credit = row[o].credit
        /\ row'[o].state = "paid_review" <=> row[o].state = "paid_review"
        /\ UNCHANGED <<credited, checkout>>
    BY <1>1, <1>5 DEF BindStripeCheckout, SessionFails, AdminBind, Row
  <2> QED
    BY <2>1 DEF Moves, Rests, SameMoney, SameReview
<1>6. ASSUME NEW r \in Receipts(o), Pay(o, r) PROVE Moves(o)
  <2>1. /\ checkout[o].open /\ "paid" \notin checkout[o].sent
        /\ checkout'[o].sent = checkout[o].sent \cup {"paid"}
        /\ UNCHANGED <<row, credited>>
    BY <1>1, <1>6 DEF Pay, Checkout
  <2>2. row[o].status # "none"
    BY <2>1 DEF OrderFits
  <2> QED
    BY <2>1, <2>2 DEF Moves, PaidFor
<1>7. ASSUME NEW e \in {"expired", "failed"}, SessionEnds(o, e) PROVE Moves(o)
  <2>1. checkout'[o].sent = checkout[o].sent \cup {e} /\ UNCHANGED <<row, credited>>
    BY <1>1, <1>7 DEF SessionEnds, Checkout
  <2>2. SameMoney(o)
    BY <1>7, <2>1 DEF SameMoney
  <2> QED
    BY <2>1, <2>2 DEF Moves, Rests, SameReview
<1>8. ASSUME NEW e \in Events, NEW unit \in Units, Webhook(o, e, unit) PROVE Moves(o)
  <2>1. PICK ok \in BOOLEAN : /\ Answers(o, e, unit, ok)
                              /\ Acknowledge(o, e, ok) \/ UNCHANGED checkout
    BY <1>8 DEF Webhook, Answers
  <2>2. SameMoney(o)
    BY <2>1, AcknowledgeTyped DEF SameMoney
  <2> QED
    BY <1>8, <2>1, <2>2, AnswerMoves DEF Webhook
<1>9. ASSUME NEW e \in Events, AdminResolve(o, e) PROVE Moves(o)
  <2>1. PICK unit \in Units : TRUE
    BY TopUpAssumption
  <2>2. Answers(o, e, unit, TRUE)
    BY <1>9 DEF AdminResolve, Answers
  <2> QED
    BY <1>9, <2>2, AnswerMoves DEF AdminResolve, SameMoney
<1>10. ASSUME NEW unit \in Units, ManualComplete(o, unit) PROVE Moves(o)
  BY <1>10, ManualFulfils, FulfilmentMoves DEF ManualComplete, SameMoney
<1> QED
  BY <1>2, <1>3, <1>4, <1>5, <1>6, <1>7, <1>8, <1>9, <1>10 DEF OrderStep

\* Topping up keeps the promise of Purchase for any number of orders: late and
\* repeated webhooks, payments before the session is bound and after it ended,
\* manual completions and reconciliations in any order, with lost answers and
\* rolled back transactions, place, pay, settle, grant, review or lapse one
\* order at a time (CompleteEpayTopUpWithPaidAmount, CompleteStripeCheckout,
\* EndStripeCheckout, ManualCompleteTopUp, AdminReconcileStripeCheckout).
THEOREM ImplementsPurchase == Spec => PurchaseSpec
<1>1. Init => Account!Init
  BY DEF Init, Account!Init, NoRow, NoCheckout
<1>2. ASSUME TypeOK, StageFits, OrdersFit, [Next]_vars
      PROVE  [Account!Next]_(Account!vars)
  <2>1. ASSUME NEW o \in Orders, OrderStep(o)
        PROVE  Account!Next \/ UNCHANGED Account!vars
    <3> DEFINE status == [x \in Orders |-> row[x].status]
               worth == [x \in Orders |-> row[x].credit]
               paid == {x \in Orders : "paid" \in checkout[x].sent}
               review == {x \in Orders : row[x].state = "paid_review"}
               by == [x \in Orders |-> row[x].by]
    <3>1. Moves(o)
      BY <1>2, <2>1, OrderMoves DEF OrdersFit
    <3>2. \A x \in Orders : x # o =>
              row'[x] = row[x] /\ credited'[x] = credited[x] /\ checkout'[x] = checkout[x]
      BY <1>2, <2>1, OtherOrders
    <3>3. /\ status' = [status EXCEPT ![o] = row'[o].status]
          /\ worth' = [worth EXCEPT ![o] = row'[o].credit]
          /\ by' = [by EXCEPT ![o] = row'[o].by]
      BY <3>2
    <3>4. credited \in [Orders -> Nat] /\ credited' \in [Orders -> Nat]
      BY <1>2, TypeNext DEF TypeOK
    <3>5. credited' = [credited EXCEPT ![o] = credited'[o]]
      BY <3>2, <3>4
    <3>6. /\ row'[o].status = row[o].status => status' = status
          /\ row'[o].credit = row[o].credit => worth' = worth
          /\ row'[o].by = row[o].by => by' = by
          /\ credited'[o] = credited[o] => credited' = credited
      <4>1. row'[o].status = row[o].status => status' = status
        BY <3>2
      <4>2. row'[o].credit = row[o].credit => worth' = worth
        BY <3>2
      <4>3. row'[o].by = row[o].by => by' = by
        BY <3>2
      <4>4. credited'[o] = credited[o] => credited' = credited
        BY <3>4, <3>5
      <4> QED
        BY <4>1, <4>2, <4>3, <4>4
    <3>7. /\ status[o] = row[o].status /\ worth[o] = row[o].credit
          /\ worth'[o] = row'[o].credit
          /\ o \in paid <=> "paid" \in checkout[o].sent
          /\ o \in review <=> row[o].state = "paid_review"
      OBVIOUS
    <3>8. SameMoney(o) => paid' = paid
      BY <3>2 DEF SameMoney
    <3>9. /\ SameReview(o) => review' = review
          /\ row'[o].state = "paid_review" => review' = review \cup {o}
          /\ row'[o].state # "paid_review" => review' = review \ {o}
      BY <3>2 DEF SameReview
    <3>10. CASE Rests(o)
      BY <3>6, <3>8, <3>9, <3>10 DEF Rests, Account!vars
    <3>11. CASE Placed(o)
      <4>1. Account!Place(o)
        BY <3>3, <3>6, <3>7, <3>8, <3>9, <3>11 DEF Placed, Account!Place
      <4> QED
        BY <4>1 DEF Account!Next
    <3>12. CASE PaidFor(o)
      <4>1. paid' = paid \cup {o} /\ SameReview(o)
        BY <3>2, <3>12 DEF PaidFor, SameReview
      <4>2. Account!Pay(o)
        BY <3>6, <3>7, <3>9, <3>12, <4>1 DEF PaidFor, Account!Pay
      <4> QED
        BY <4>2 DEF Account!Next
    <3>13. CASE Completed(o)
      <4>1. /\ credited'[o] \in IF worth[o] > 0 THEN {worth[o]} ELSE Nat \ {0}
            /\ status' = [status EXCEPT ![o] = "success"]
            /\ review' = review \ {o} /\ UNCHANGED <<worth, paid>>
        BY <3>3, <3>6, <3>7, <3>8, <3>9, <3>13 DEF Completed
      <4>2. ASSUME NEW who, row'[o].by = who PROVE Account!Complete(o, who)
        BY <3>3, <3>5, <4>1, <4>2 DEF Account!Complete
      <4>3. CASE row'[o].by = "payment" /\ "paid" \in checkout[o].sent
        BY <3>7, <3>13, <4>2, <4>3 DEF Completed, Account!Next, Account!Settle
      <4>4. CASE row'[o].by = "administrator" /\ row[o].status = "pending"
        BY <3>7, <4>2, <4>4 DEF Account!Next, Account!Grant
      <4> QED
        BY <3>13, <4>3, <4>4 DEF Completed
    <3>14. CASE Reviewed(o)
      <4>1. Account!Review(o)
        BY <3>6, <3>7, <3>8, <3>9, <3>14 DEF Reviewed, Account!Review
      <4> QED
        BY <4>1 DEF Account!Next
    <3>15. CASE Lapsed(o)
      <4>1. Account!Lapse(o)
        BY <3>3, <3>6, <3>7, <3>8, <3>9, <3>15 DEF Lapsed, Account!Lapse
      <4> QED
        BY <4>1 DEF Account!Next
    <3> QED
      BY <3>1, <3>10, <3>11, <3>12, <3>13, <3>14, <3>15 DEF Moves
  <2>2. ASSUME UNCHANGED <<row, credited, checkout>> PROVE UNCHANGED Account!vars
    BY <2>2 DEF Account!vars
  <2> QED
    BY <1>2, <2>1, <2>2
       DEF Next, vars, PageStep, EditAmount, SelectMethod, QuoteArrives, CloseDialog,
           Leave, ChangePrice
<1>3. TypeOK /\ StageFits /\ OrdersFit /\ [Next]_vars => [Account!Next]_(Account!vars)
  BY <1>2
<1> QED
  BY <1>1, <1>3, TypeCorrect, OrdersStay, PTL DEF Spec, PurchaseSpec, Account!Spec

-----------------------------------------------------------------------------
(* One payment at a time                                                     *)

LEMMA OnePaymentNext ==
    TypeOK /\ OneCheckoutPerPage /\ [Next]_vars => OneCheckoutPerPage'
<1> DEFINE Busy(o) == Processing(o) \/ Watching(o)
<1> SUFFICES ASSUME TypeOK, OneCheckoutPerPage, [Next]_vars PROVE OneCheckoutPerPage'
  OBVIOUS
<1>1. /\ req \in [Orders -> Request] /\ monitor \in [Orders -> Monitor]
  BY DEF TypeOK
<1>2. ASSUME \A p \in Orders : Busy(p)' => Busy(p) PROVE OneCheckoutPerPage'
  BY <1>2 DEF OneCheckoutPerPage
<1>3. ASSUME UNCHANGED <<req, monitor>> PROVE OneCheckoutPerPage'
  BY <1>2, <1>3 DEF Processing, Watching
<1>4. ASSUME NEW o \in Orders, OrderStep(o) PROVE OneCheckoutPerPage'
  <2>1. \A p \in Orders : p # o => (Busy(p)' <=> Busy(p))
    BY <1>4, OtherOrders DEF Processing, Watching
  <2>2. CASE Confirm(o)
    <3>1. \A p \in Orders : ~Busy(p)
      BY <2>2 DEF Confirm, MayPay
    <3> QED
      BY <2>1, <3>1 DEF OneCheckoutPerPage
  <2>3. CASE ~Confirm(o)
    <3>1. ASSUME req'[o].mine => req[o].mine, req'[o].waits => req[o].waits,
                 monitor'[o] = monitor[o] \/ ~monitor'[o].on
          PROVE  OneCheckoutPerPage'
      BY <1>2, <2>1, <3>1 DEF Processing, Watching
    <3>2. CASE Redirect(o)
      <4>1. /\ req[o].waits /\ ~req'[o].waits
            /\ monitor'[o].on => monitor'[o].mine = req[o].mine
        BY <1>1, <3>2 DEF Redirect, Request, Monitor, NoMonitor
      <4> QED
        BY <1>2, <2>1, <4>1 DEF Processing, Watching
    <3>3. CASE GiveUp(o)
      <4>1. /\ req'[o].mine = req[o].mine /\ req[o].waits /\ ~req'[o].waits
            /\ ~monitor'[o].on
        BY <1>1, <3>3 DEF GiveUp, Request, NoMonitor
      <4> QED
        BY <3>1, <4>1
    <3>7. CASE \/ RefuseOrder(o) \/ CreateSession(o)
               \/ \E unit \in Units, promo \in BOOLEAN : CreateOrder(o, unit, promo)
      <4>1. /\ req'[o].mine = req[o].mine /\ req'[o].waits = req[o].waits
            /\ UNCHANGED monitor
        <5>1. req[o] \in Request /\ UNCHANGED monitor
          BY <1>1, <3>7 DEF CreateOrder, RefuseOrder, CreateSession
        <5>2. \E phase : req' = [req EXCEPT ![o].phase = phase]
          BY <3>7, Zenon DEF CreateOrder, RefuseOrder, CreateSession
        <5> QED
          BY <1>1, <5>1, <5>2 DEF Request
      <4> QED
        BY <3>1, <4>1
    <3>4. CASE BindStripeCheckout(o) \/ SessionFails(o)
      <4>1. /\ req'[o].mine = req[o].mine /\ req'[o].waits = req[o].waits
            /\ UNCHANGED monitor
        BY <1>1, <3>4 DEF BindStripeCheckout, SessionFails, Request
      <4> QED
        BY <3>1, <4>1
    <3>5. CASE \/ \E r \in Receipts(o) : Pay(o, r)
               \/ \E e \in {"expired", "failed"} : SessionEnds(o, e)
               \/ \E e \in Events, unit \in Units : Webhook(o, e, unit)
               \/ \E e \in Events : WebhookFails(o, e) \/ AdminResolve(o, e)
               \/ \E unit \in Units : ManualComplete(o, unit)
               \/ AdminBind(o)
      BY <1>3, <3>5 DEF Pay, SessionEnds, Webhook, WebhookFails, ManualComplete,
                        AdminBind, AdminResolve
    <3>6. CASE CloseWindow(o) \/ CheckSuccess(o) \/ CheckPending(o) \/ ChecksUsedUp(o)
      <4>1. /\ UNCHANGED req
            /\ monitor'[o].on => /\ monitor'[o].mine = monitor[o].mine
                                 /\ monitor[o].on
        BY <1>1, <3>6 DEF CloseWindow, CheckSuccess, CheckPending, ChecksUsedUp, Ends,
                          NoMonitor, Monitor
      <4> QED
        BY <1>2, <2>1, <4>1 DEF Processing, Watching
    <3> QED
      BY <1>4, <2>3, <3>2, <3>3, <3>4, <3>5, <3>6, <3>7 DEF OrderStep
  <2> QED
    BY <2>2, <2>3
<1>5. ASSUME NEW a \in Amounts, NEW m \in Methods, Leave(a, m) PROVE OneCheckoutPerPage'
  <2>1. \A p \in Orders : ~req'[p].mine /\ (monitor'[p].on => ~monitor'[p].mine)
    BY <1>1, <1>5 DEF Leave, Request, Monitor, NoMonitor, Watching
  <2> QED
    BY <1>2, <2>1 DEF Processing, Watching
<1>6. CASE PageStep
  BY <1>3, <1>5, <1>6 DEF PageStep, EditAmount, SelectMethod, QuoteArrives, CloseDialog
<1> QED
  BY <1>3, <1>4, <1>6 DEF Next, ChangePrice, vars

\* While a page prepares one payment or watches its window, it starts no second
\* one (processingRef and activeMonitorRef of usePayment), for any number of
\* orders and however often the user leaves and returns.
THEOREM OnePaymentAtATime == Spec => []OneCheckoutPerPage
<1>1. Init => OneCheckoutPerPage
  BY DEF Init, OneCheckoutPerPage, Processing, Watching, NoRequest, NoMonitor
<1> QED
  BY <1>1, OnePaymentNext, TypeCorrect, PTL DEF Spec
=============================================================================
