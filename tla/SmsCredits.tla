----------------------------- MODULE SmsCredits -----------------------------
(***************************************************************************)
(* What the monthly SMS quota promises, without rows, devices or crons: a   *)
(* message takes one credit before it exists, and keeps it, spends it or    *)
(* gets it back exactly once.  SmsLifecycle implements this specification   *)
(* as long as no two find-to-save windows on a row overlap and no tickle    *)
(* fails after its message has moved on.                                    *)
(***************************************************************************)
EXTENDS Integers, FiniteSets

CONSTANTS
    Messages,   \* message ids
    SmsLimit    \* max_sms_per_month of the user's plan

VARIABLES
    credit,     \* where each message's credit is
    used,       \* user_quotas.sms_sent_this_month
    lost        \* credits of requests that died in a crash or could not release them

vars == <<credit, used, lost>>

\* "held": the message exists, its credit may still come back;
\* "spent": it was sent, invariant (b) of MarkMessageTerminal
Credit == {"free", "reserved", "held", "spent", "refunded"}

TypeOK == credit \in [Messages -> Credit] /\ used \in Nat /\ lost \in Nat

In(state) == {m \in Messages : credit[m] = state}

\* credit with the messages of a batch moved to a state
Move(batch, state) == [m \in Messages |-> IF m \in batch THEN state ELSE credit[m]]

Init ==
    /\ credit = [m \in Messages |-> "free"]
    /\ used = 0
    /\ lost = 0

-----------------------------------------------------------------------------
\* ReserveSMSQuota: all of the batch or nothing, within the limit
Reserve(batch) ==
    /\ batch # {} /\ batch \subseteq In("free")
    /\ used + Cardinality(batch) <= SmsLimit
    /\ credit' = Move(batch, "reserved")
    /\ used' = used + Cardinality(batch)
    /\ UNCHANGED lost

\* createMessageRecords committed its transaction.
Hold(batch) ==
    /\ batch \subseteq In("reserved")
    /\ credit' = Move(batch, "held")
    /\ UNCHANGED <<used, lost>>

\* SendSMS failed after its reservation.
GiveBack(batch) ==
    /\ batch \subseteq In("reserved")
    /\ credit' = Move(batch, "free")
    /\ used' = used - Cardinality(batch)
    /\ UNCHANGED lost

\* The message was sent: whatever happens later, its credit is gone.
Spend(m) ==
    /\ credit[m] = "held"
    /\ credit' = [credit EXCEPT ![m] = "spent"]
    /\ UNCHANGED <<used, lost>>

\* The message failed for good without being sent.
Refund(m) ==
    /\ credit[m] = "held"
    /\ credit' = [credit EXCEPT ![m] = "refunded"]
    /\ used' = used - 1
    /\ UNCHANGED lost

\* A crash between reservation and creation, or a release that failed: nobody
\* returns those credits.
Lose(batch) ==
    /\ batch \subseteq In("reserved")
    /\ credit' = Move(batch, "free")
    /\ lost' = lost + Cardinality(batch)
    /\ UNCHANGED used

Next ==
    \/ \E batch \in SUBSET Messages :
           Reserve(batch) \/ Hold(batch) \/ GiveBack(batch) \/ Lose(batch)
    \/ \E m \in Messages : Spend(m) \/ Refund(m)

Spec == Init /\ [][Next]_vars

-----------------------------------------------------------------------------
\* Every credit charged to the user is accounted for: it is reserved by a
\* request in flight, held or spent by a message, or was lost.
\* Releases and refunds never touch a credit that is not their own, so the
\* MAX(... - n, 0) of ReleaseSMSQuota never clamps.
Charged == {m \in Messages : credit[m] \in {"reserved", "held", "spent"}}

Balanced == used = Cardinality(Charged) + lost

\* The counter stays within the plan's limit.
WithinLimit == used <= SmsLimit
=============================================================================
