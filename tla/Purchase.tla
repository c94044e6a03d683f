------------------------------ MODULE Purchase ------------------------------
(***************************************************************************)
(* What the top-up of a wallet promises the user and the operator, without *)
(* pages, webhooks and retries: an order is placed, settled by its payment *)
(* or granted by an administrator, once and for good, and credited in the  *)
(* very step that completes it.  An order may lapse while it is pending    *)
(* and is then only revived by its payment; a payment that does not fit is *)
(* put under review, and such an order does not lapse any more.            *)
(* TopUp implements this module (PurchaseSpec there).                      *)
(***************************************************************************)
EXTENDS Naturals

CONSTANT Orders

VARIABLES
    status,   \* status[o]: "none", "pending", "success", "failed", "expired"
    worth,    \* worth[o]: the quota that was ordered, 0 if the completion sets it
    paid,     \* the orders for which the provider has the user's money
    review,   \* the orders whose payment is under review
    by,       \* by[o]: what completed the order
    credited  \* credited[o]: the quota the user got for it

vars == <<status, worth, paid, review, by, credited>>

Init ==
    /\ status = [o \in Orders |-> "none"]
    /\ worth = [o \in Orders |-> 0]
    /\ paid = {}
    /\ review = {}
    /\ by = [o \in Orders |-> "nobody"]
    /\ credited = [o \in Orders |-> 0]

Place(o) ==
    /\ status[o] = "none"
    /\ status' = [status EXCEPT ![o] = "pending"]
    /\ worth'[o] \in Nat
    /\ worth' = [worth EXCEPT ![o] = worth'[o]]
    /\ UNCHANGED <<paid, review, by, credited>>

\* Also for an order that is completed or has lapsed meanwhile.
Pay(o) ==
    /\ status[o] # "none" /\ o \notin paid
    /\ paid' = paid \cup {o}
    /\ UNCHANGED <<status, worth, review, by, credited>>

Complete(o, who) ==
    /\ status' = [status EXCEPT ![o] = "success"]
    /\ by' = [by EXCEPT ![o] = who]
    /\ review' = review \ {o}
    /\ credited'[o] \in IF worth[o] > 0 THEN {worth[o]} ELSE Nat \ {0}
    /\ credited' = [credited EXCEPT ![o] = credited'[o]]
    /\ UNCHANGED <<worth, paid>>

Settle(o) == o \in paid /\ status[o] \notin {"none", "success"} /\ Complete(o, "payment")

Grant(o) == status[o] = "pending" /\ Complete(o, "administrator")

Review(o) ==
    /\ o \in paid /\ status[o] \notin {"none", "success"}
    /\ review' = review \cup {o}
    /\ UNCHANGED <<status, worth, paid, by, credited>>

Lapse(o) ==
    /\ status[o] = "pending" /\ o \notin review
    /\ \E s \in {"failed", "expired"} : status' = [status EXCEPT ![o] = s]
    /\ UNCHANGED <<worth, paid, review, by, credited>>

Next ==
    \E o \in Orders :
        Place(o) \/ Pay(o) \/ Settle(o) \/ Grant(o) \/ Review(o) \/ Lapse(o)

Spec == Init /\ [][Next]_vars
=============================================================================
