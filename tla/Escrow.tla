------------------------------- MODULE Escrow -------------------------------
(***************************************************************************)
(* What the billing ledger promises a user about the wallet: an escrow     *)
(* account.  A request opens one hold, the hold follows the price of the   *)
(* request up and down as long as the wallet can pay for it, and a hold    *)
(* that has been voided has returned everything and stays void.            *)
(* BillingLedger implements this module (EscrowSpec there).                *)
(***************************************************************************)
EXTENDS Integers

CONSTANT Requests

VARIABLES
    balance, \* what the user can spend
    held,    \* held[r]: what request r is charged
    status   \* status[r]: "new", "open" or "void"

vars == <<balance, held, status>>

Init ==
    /\ balance \in Nat
    /\ held = [r \in Requests |-> 0]
    /\ status = [r \in Requests |-> "new"]

\* Only the charge of r changes, and the balance pays for it or gets it back.
Charge(r) ==
    /\ held'[r] \in Nat
    /\ held' = [held EXCEPT ![r] = held'[r]]
    /\ balance' \in Nat
    /\ balance' = balance + held[r] - held'[r]

Open(r) ==
    /\ status[r] = "new"
    /\ Charge(r)
    /\ status' = [status EXCEPT ![r] = "open"]

Adjust(r) ==
    /\ status[r] = "open"
    /\ Charge(r)
    /\ UNCHANGED status

Void(r) ==
    /\ status[r] = "open"
    /\ Charge(r)
    /\ held'[r] = 0
    /\ status' = [status EXCEPT ![r] = "void"]

Credit ==
    /\ balance' \in Nat /\ balance' > balance
    /\ UNCHANGED <<held, status>>

Next ==
    \/ \E r \in Requests : Open(r) \/ Adjust(r) \/ Void(r)
    \/ Credit

Spec == Init /\ [][Next]_vars
=============================================================================
