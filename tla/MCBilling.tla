------------------------------ MODULE MCBilling ------------------------------
(* Billing for TLC: one payment covers a month; a year takes two, or a payment *)
(* and the promo codes that make up for the rest.                             *)
EXTENDS Billing

CONSTANT yearly     \* the plan that costs two payments

MCAmount == [c \in Txs \cup Promos |-> IF c \in Txs THEN 2 ELSE 1]
MCPrice == [p \in PaidPlans |-> IF p = yearly THEN 4 ELSE 2]
=============================================================================
