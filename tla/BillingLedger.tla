--------------------------- MODULE BillingLedger ---------------------------
(***************************************************************************)
(* What the billing promises about money: every confirmed payment, deposit  *)
(* or promo code is credited once, and a charge only takes what is there.   *)
(***************************************************************************)
EXTENDS Integers

CONSTANTS
    Credits,    \* provider transactions and promo codes
    Amount,     \* what each of them is worth
    Prices      \* what a period of some plan costs

VARIABLES
    balance,    \* user_balances.balance
    credited,   \* the credits that were applied
    deposited,  \* their worth
    charged     \* the sum of all payments

vars == <<balance, credited, deposited, charged>>

TypeOK == balance \in Nat /\ credited \subseteq Credits /\ deposited \in Nat /\ charged \in Nat

Init == balance = 0 /\ credited = {} /\ deposited = 0 /\ charged = 0

Credit(c) ==
    /\ c \in Credits \ credited
    /\ credited' = credited \cup {c}
    /\ balance' = balance + Amount[c]
    /\ deposited' = deposited + Amount[c]
    /\ UNCHANGED charged

Charge(price) ==
    /\ price \in Prices /\ price > 0 /\ price <= balance
    /\ balance' = balance - price
    /\ charged' = charged + price
    /\ UNCHANGED <<credited, deposited>>

Next == (\E c \in Credits : Credit(c)) \/ (\E price \in Prices : Charge(price))

Spec == Init /\ [][Next]_vars

-----------------------------------------------------------------------------
\* No money appears or disappears: what came in is either still there or was
\* paid for a period.
Conserved == balance + charged = deposited
=============================================================================
