------------------------------- MODULE Billing -------------------------------
(***************************************************************************)
(* One user's balance, subscription and plan: payments credited by provider *)
(* webhooks, promo codes, StartSubscription, CancelSubscription and the      *)
(* daily CheckRenewals.                                                     *)
(*                                                                         *)
(* The money moves inside transactions.  What a request knows about the     *)
(* subscription it read before, outside of them, and the plan in the quota  *)
(* is a third record that is saved after the subscription.  Time is kept as  *)
(* the relation of current_period_end to the clock.                         *)
(***************************************************************************)
EXTENDS Integers

CONSTANTS
    Txs,         \* confirmed provider transactions
    Promos,      \* promo codes the user may redeem
    Amount,      \* what each of them credits
    PaidPlans,   \* public plans with a price, one per billing cycle
    Free,        \* the free plan
    Price,       \* price of a period of a paid plan
    Handlers,    \* requests that may run at once
    NoTask,      \* a handler with nothing to do
    MaxStarts,   \* bound: calls of StartSubscription
    MaxFaults,   \* bound: crashes
    Overlap      \* FALSE: no two requests or cron passes overlap in time

Plans == PaidPlans \cup {Free}

ASSUME BillingAssumption ==
    /\ Txs \cap Promos = {}
    /\ Amount \in [Txs \cup Promos -> Nat \ {0}]
    /\ Price \in [PaidPlans -> Nat \ {0}]
    /\ Free \notin PaidPlans
    /\ MaxStarts \in Nat /\ MaxFaults \in Nat /\ Overlap \in BOOLEAN

\* calculateBilling
PriceOf(plan) == IF plan = Free THEN 0 ELSE Price[plan]

\* current_period_end: not reached, reached, or past pastDueGracePeriod as well
PeriodEnd == {"ahead", "reached", "graceOver"}

Sub == [id     : 0..MaxStarts,      \* 0: the user has none
        plan   : Plans,
        status : {"none", "pending", "active", "past_due", "canceled"},
        end    : PeriodEnd,
        cancel : BOOLEAN]           \* cancel_at_period_end

NoSub == [id |-> 0, plan |-> Free, status |-> "none", end |-> "ahead", cancel |-> FALSE]

\* createSubscriptionRecord: a pending one has no period yet
NewSub(id, plan) ==
    [id |-> id, plan |-> plan, status |-> IF plan = Free THEN "active" ELSE "pending",
     end |-> IF plan = Free THEN "ahead" ELSE "reached", cancel |-> FALSE]

-----------------------------------------------------------------------------
VARIABLES
    balance,    \* user_balances.balance
    markers,    \* payment_idempotency
    redeemed,   \* promo_redemptions
    sub,        \* the user's row in subscriptions (unique by user)
    payments,   \* completed payments per subscription
    quotaPlan,  \* user_quotas.plan
    task,       \* where each request is, and what it read
    cron,       \* where the CheckRenewals pass is, and what it read
    starts,     \* calls of StartSubscription so far (bound)
    faults,     \* crashes so far (bound)
    elapsed,    \* history: periods that ended, per subscription
    deposited,  \* history: money credited
    charged     \* history: money taken

moneyVars == <<balance, markers, redeemed, payments, deposited, charged>>
boundVars == <<starts, faults>>
vars == <<balance, markers, redeemed, sub, payments, quotaPlan, task, cron, starts,
          faults, elapsed, deposited, charged>>

Step == {"readSub", "activate", "replace", "create", "freeQuota", "saveFree",
         "cancel", "flag", "downgrade", "saveQuota"}

Task == [step : Step,
         seen : Sub,        \* the subscription as it was read or created
         plan : Plans,      \* the plan asked for, or the quota's as read
         have : Nat,        \* newBalance of the credit
         id   : 0..MaxStarts]   \* of the row to create

\* A handler with nothing to do is at no step.
ASSUME NoTaskAssumption == NoTask \notin Task

NewTask(step) == [step |-> step, seen |-> NoSub, plan |-> Free, have |-> 0, id |-> 0]

Phase == {"idle", "due", "charge", "unpaid", "finalize", "expire", "cancel",
          "downgrade", "saveQuota"}

Pass == [phase : Phase, seen : Sub, plan : Plans, next : {"finalize", "expire", "idle"}]

IdlePass == [phase |-> "idle", seen |-> NoSub, plan |-> Free, next |-> "idle"]

Ids == 1..MaxStarts

TypeOK ==
    /\ balance \in Nat
    /\ markers \subseteq Txs /\ redeemed \subseteq Promos
    /\ sub \in Sub /\ (sub.id = 0 <=> sub = NoSub)
    /\ payments \in [Ids -> Nat]
    /\ quotaPlan \in Plans
    /\ task \in [Handlers -> Task \cup {NoTask}]
    /\ cron \in Pass
    /\ starts \in 0..MaxStarts
    /\ faults \in 0..MaxFaults
    /\ elapsed \in [Ids -> Nat]
    /\ deposited \in Nat /\ charged \in Nat

Init ==
    /\ balance = 0
    /\ markers = {} /\ redeemed = {}
    /\ sub = NoSub
    /\ payments = [i \in Ids |-> 0]
    /\ quotaPlan = Free
    /\ task = [h \in Handlers |-> NoTask]
    /\ cron = IdlePass
    /\ starts = 0 /\ faults = 0
    /\ elapsed = [i \in Ids |-> 0]
    /\ deposited = 0 /\ charged = 0

-----------------------------------------------------------------------------
(* Records and transactions                                                  *)

\* Nobody else is between a read and a write.
Quiet ==
    \/ Overlap
    \/ cron.phase = "idle" /\ \A h \in Handlers : task[h] = NoTask

Begin(h, new) ==
    /\ task[h] = NoTask
    /\ Quiet
    /\ task' = [task EXCEPT ![h] = new]

At(h, step) == task[h] # NoTask /\ task[h].step = step

Done(h) == task' = [task EXCEPT ![h] = NoTask]

\* A save of a loaded copy: of a row that is gone it changes nothing.
SaveStatus(seen, status) ==
    sub' = IF sub.id = seen.id THEN [sub EXCEPT !.status = status] ELSE sub

\* Mutant: the balance is not compared.
CanChargeUnfunded(seen) == sub.id = seen.id /\ PriceOf(seen.plan) > 0

\* A payment needs its subscription, a positive amount and the money.
CanCharge(seen) ==
    /\ sub.id = seen.id
    /\ PriceOf(seen.plan) > 0
    /\ balance >= PriceOf(seen.plan)

ChargeFor(seen) ==
    /\ balance' = balance - PriceOf(seen.plan)
    /\ charged' = charged + PriceOf(seen.plan)
    /\ payments' = [payments EXCEPT ![seen.id] = @ + 1]
    /\ UNCHANGED <<markers, redeemed, deposited>>

\* A subscription some payment requires cannot be deleted.
Deletable(seen) == sub.id = seen.id /\ seen.id # 0 /\ payments[seen.id] = 0

-----------------------------------------------------------------------------
(* Credits                                                                   *)

\* Mutant: the marker is only compared, never written.
CreditUnmarked(h, tx) ==
    /\ tx \notin markers
    /\ Begin(h, [NewTask("readSub") EXCEPT !.have = balance + Amount[tx]])
    /\ balance' = balance + Amount[tx]
    /\ deposited' = deposited + Amount[tx]
    /\ UNCHANGED <<markers, redeemed, sub, payments, quotaPlan, cron, boundVars, elapsed,
                   charged>>

\* creditAndActivate, its transaction: a redelivery finds the marker and ends.
Credit(h, tx) ==
    /\ tx \notin markers
    /\ Begin(h, [NewTask("readSub") EXCEPT !.have = balance + Amount[tx]])
    /\ balance' = balance + Amount[tx]
    /\ deposited' = deposited + Amount[tx]
    /\ markers' = markers \cup {tx}
    /\ UNCHANGED <<redeemed, sub, payments, quotaPlan, cron, boundVars, elapsed, charged>>

\* Mutant: whatever is not active is activated.
ActivatableUnlessActive(s, have) == s.status # "active" /\ have >= PriceOf(s.plan)

Activatable(s, have) == s.status \in {"pending", "past_due"} /\ have >= PriceOf(s.plan)

\* ... then, outside of it, the subscription is read.
ReadSub(h) ==
    /\ At(h, "readSub")
    /\ IF Activatable(sub, task[h].have)
       THEN task' = [task EXCEPT ![h].step = "activate", ![h].seen = sub]
       ELSE Done(h)
    /\ UNCHANGED <<moneyVars, sub, quotaPlan, cron, boundVars, elapsed>>

\* Mutant: only the quota forgets to follow.
ActivateKeepingQuota(h) ==
    /\ At(h, "activate")
    /\ Done(h)
    /\ LET seen == task[h].seen
       IN  IF CanCharge(seen)
           THEN /\ ChargeFor(seen)
                /\ sub' = [sub EXCEPT !.status = "active", !.end = "ahead"]
                /\ UNCHANGED quotaPlan
           ELSE UNCHANGED <<moneyVars, sub, quotaPlan>>
    /\ UNCHANGED <<cron, boundVars, elapsed>>

\* activateBalanceSubscription: one transaction, of a deposit or of a start
Activate(h) ==
    /\ At(h, "activate")
    /\ Done(h)
    /\ LET seen == task[h].seen
       IN  IF CanCharge(seen)
           THEN /\ ChargeFor(seen)
                /\ sub' = [sub EXCEPT !.status = "active", !.end = "ahead"]
                /\ quotaPlan' = seen.plan
           ELSE UNCHANGED <<moneyVars, sub, quotaPlan>>
    /\ UNCHANGED <<cron, boundVars, elapsed>>

\* Redeeming a promo code credits the balance and activates nothing.
Redeem(code) ==
    /\ code \in Promos \ redeemed
    /\ redeemed' = redeemed \cup {code}
    /\ balance' = balance + Amount[code]
    /\ deposited' = deposited + Amount[code]
    /\ UNCHANGED <<markers, sub, payments, quotaPlan, task, cron, boundVars, elapsed, charged>>

-----------------------------------------------------------------------------
(* StartSubscription                                                         *)

StartFinds(h, plan) ==
    /\ starts < MaxStarts
    /\ sub.status # "active"
    /\ starts' = starts + 1
    /\ Begin(h, [NewTask("replace") EXCEPT !.seen = sub, !.plan = plan, !.id = starts'])
    /\ UNCHANGED <<moneyVars, sub, quotaPlan, cron, faults, elapsed>>

\* The old row is deleted, or not (the error is ignored), and the balance read.
StartReplaces(h) ==
    /\ At(h, "replace")
    /\ sub' = IF Deletable(task[h].seen) THEN NoSub ELSE sub
    /\ IF balance >= PriceOf(task[h].plan)
       THEN task' = [task EXCEPT ![h].step = "create", ![h].seen = NoSub]
       ELSE Done(h)
    /\ UNCHANGED <<moneyVars, quotaPlan, cron, boundVars, elapsed>>

\* A second row of the same user violates the unique index.
StartCreates(h) ==
    /\ At(h, "create")
    /\ LET new == NewSub(task[h].id, task[h].plan)
       IN  IF sub = NoSub
           THEN /\ sub' = new
                /\ task' = [task EXCEPT ![h].seen = new,
                                        ![h].step = IF new.plan = Free THEN "freeQuota"
                                                    ELSE "activate"]
           ELSE Done(h) /\ UNCHANGED sub
    /\ UNCHANGED <<moneyVars, quotaPlan, cron, boundVars, elapsed>>

\* updateUserQuota finds the quota and saves the copy, the plan only if it had another one.
FreeQuotaFinds(h) ==
    /\ At(h, "freeQuota")
    /\ task' = [task EXCEPT ![h].step = "saveFree", ![h].plan = quotaPlan]
    /\ UNCHANGED <<moneyVars, sub, quotaPlan, cron, boundVars, elapsed>>

FreeQuotaSaves(h) ==
    /\ At(h, "saveFree")
    /\ quotaPlan' = IF task[h].plan # Free THEN Free ELSE quotaPlan
    /\ Done(h)
    /\ UNCHANGED <<moneyVars, sub, cron, boundVars, elapsed>>

-----------------------------------------------------------------------------
(* CancelSubscription                                                        *)

CancelFinds(h, immediate) ==
    /\ sub.status \notin {"none", "canceled"}
    /\ Begin(h, [NewTask(IF immediate THEN "cancel" ELSE "flag") EXCEPT !.seen = sub])
    /\ UNCHANGED <<moneyVars, sub, quotaPlan, cron, boundVars, elapsed>>

CancelSaves(h) ==
    /\ At(h, "cancel")
    /\ SaveStatus(task[h].seen, "canceled")
    /\ task' = [task EXCEPT ![h] = NewTask("downgrade")]
    /\ UNCHANGED <<moneyVars, quotaPlan, cron, boundVars, elapsed>>

FlagSaves(h) ==
    /\ At(h, "flag")
    /\ sub' = IF sub.id = task[h].seen.id THEN [sub EXCEPT !.cancel = TRUE] ELSE sub
    /\ Done(h)
    /\ UNCHANGED <<moneyVars, quotaPlan, cron, boundVars, elapsed>>

\* downgradeToFreePlan: the quota is found ...
DowngradeFinds(h) ==
    /\ At(h, "downgrade")
    /\ task' = [task EXCEPT ![h].step = "saveQuota", ![h].plan = quotaPlan]
    /\ UNCHANGED <<moneyVars, sub, quotaPlan, cron, boundVars, elapsed>>

\* ... and saved, the plan only if the copy had another one.
DowngradeSaves(h) ==
    /\ At(h, "saveQuota")
    /\ quotaPlan' = IF task[h].plan # Free THEN Free ELSE quotaPlan
    /\ Done(h)
    /\ UNCHANGED <<moneyVars, sub, cron, boundVars, elapsed>>

-----------------------------------------------------------------------------
(* CheckRenewals                                                             *)

\* The next phase of the pass, with what it reads
Pursue(phase, seen, next) ==
    cron' = [cron EXCEPT !.phase = phase, !.seen = seen, !.next = next]

\* Mutant: the end of the period is not compared.
RenewalDueAlways(s) == s.status = "active" /\ ~s.cancel

\* The filter of CheckRenewals
RenewalDue(s) == s.status = "active" /\ s.end # "ahead" /\ ~s.cancel

CronStarts ==
    /\ cron.phase = "idle"
    /\ Quiet
    /\ IF RenewalDue(sub)
       THEN Pursue("due", sub, "finalize")
       ELSE Pursue("finalize", NoSub, "expire")
    /\ UNCHANGED <<moneyVars, sub, quotaPlan, task, boundVars, elapsed>>

\* ProcessBalanceRenewal finds the subscription again.
RenewalReads ==
    /\ cron.phase = "due"
    /\ IF sub.id # cron.seen.id \/ sub.status # "active"
       THEN Pursue("finalize", NoSub, "expire")
       ELSE Pursue(IF sub.cancel THEN "cancel" ELSE "charge", sub, "finalize")
    /\ UNCHANGED <<moneyVars, sub, quotaPlan, task, boundVars, elapsed>>

\* Its transaction.  The new period follows the old one: after a long outage it
\* may be over already.
RenewalCharges ==
    /\ cron.phase = "charge"
    /\ IF CanCharge(cron.seen)
       THEN /\ ChargeFor(cron.seen)
            /\ \E end \in {"ahead", "reached"} :
                  /\ end = "reached" => cron.seen.end = "graceOver"
                  /\ sub' = [sub EXCEPT !.end = end]
                  /\ elapsed' = IF end = "ahead" THEN elapsed
                                ELSE [elapsed EXCEPT ![sub.id] = @ + 1]
            /\ Pursue("finalize", NoSub, "expire")
       ELSE /\ Pursue("unpaid", cron.seen, "finalize")
            /\ UNCHANGED <<moneyVars, sub, elapsed>>
    /\ UNCHANGED <<quotaPlan, task, boundVars>>

RenewalFails ==
    /\ cron.phase = "unpaid"
    /\ SaveStatus(cron.seen, "past_due")
    /\ Pursue("finalize", NoSub, "expire")
    /\ UNCHANGED <<moneyVars, quotaPlan, task, boundVars, elapsed>>

\* Mutant: current_period_end is compared the wrong way round.
CancellationDueReversed(s) == s.status = "active" /\ s.cancel /\ s.end = "ahead"

\* The filter of finalizePeriodEndCancellations
CancellationDue(s) == s.status = "active" /\ s.cancel /\ s.end # "ahead"

CronFinalizes ==
    /\ cron.phase = "finalize"
    /\ IF CancellationDue(sub) THEN Pursue("cancel", sub, "expire")
       ELSE Pursue("expire", NoSub, "idle")
    /\ UNCHANGED <<moneyVars, sub, quotaPlan, task, boundVars, elapsed>>

\* Mutant: current_period_end is compared the wrong way round.
GraceOverReversed(s) == s.status = "past_due" /\ s.end = "ahead"

\* The filter of downgradeExpiredPastDue
GraceOver(s) == s.status = "past_due" /\ s.end = "graceOver"

CronExpires ==
    /\ cron.phase = "expire"
    /\ IF GraceOver(sub) THEN Pursue("cancel", sub, "idle")
       ELSE cron' = IdlePass
    /\ UNCHANGED <<moneyVars, sub, quotaPlan, task, boundVars, elapsed>>

CronCancels ==
    /\ cron.phase = "cancel"
    /\ SaveStatus(cron.seen, "canceled")
    /\ Pursue("downgrade", NoSub, cron.next)
    /\ UNCHANGED <<moneyVars, quotaPlan, task, boundVars, elapsed>>

CronDowngradeFinds ==
    /\ cron.phase = "downgrade"
    /\ cron' = [cron EXCEPT !.phase = "saveQuota", !.plan = quotaPlan]
    /\ UNCHANGED <<moneyVars, sub, quotaPlan, task, boundVars, elapsed>>

CronDowngradeSaves ==
    /\ cron.phase = "saveQuota"
    /\ quotaPlan' = IF cron.plan # Free THEN Free ELSE quotaPlan
    /\ cron' = IF cron.next = "idle" THEN IdlePass
               ELSE [IdlePass EXCEPT !.phase = cron.next,
                                     !.next = IF cron.next = "finalize" THEN "expire" ELSE "idle"]
    /\ UNCHANGED <<moneyVars, sub, task, boundVars, elapsed>>

-----------------------------------------------------------------------------
(* Time and crashes                                                          *)

PeriodEnds ==
    /\ Quiet
    /\ sub.status \in {"active", "past_due"} /\ sub.end = "ahead"
    /\ sub' = [sub EXCEPT !.end = "reached"]
    /\ elapsed' = [elapsed EXCEPT ![sub.id] = @ + 1]
    /\ UNCHANGED <<moneyVars, quotaPlan, task, cron, boundVars>>

\* Seven days more: the cron may have been down all that time.
GraceEnds ==
    /\ Quiet
    /\ sub.status \in {"active", "past_due"} /\ sub.end = "reached"
    /\ sub' = [sub EXCEPT !.end = "graceOver"]
    /\ UNCHANGED <<moneyVars, quotaPlan, task, cron, boundVars, elapsed>>

Crash ==
    /\ faults < MaxFaults
    /\ faults' = faults + 1
    /\ task' = [h \in Handlers |-> NoTask]
    /\ cron' = IdlePass
    /\ UNCHANGED <<moneyVars, sub, quotaPlan, starts, elapsed>>

-----------------------------------------------------------------------------
Proceed(h) ==
    \/ ReadSub(h) \/ Activate(h)
    \/ StartReplaces(h) \/ StartCreates(h) \/ FreeQuotaFinds(h) \/ FreeQuotaSaves(h)
    \/ CancelSaves(h) \/ FlagSaves(h) \/ DowngradeFinds(h) \/ DowngradeSaves(h)

CronStep ==
    \/ CronStarts \/ RenewalReads \/ RenewalCharges \/ RenewalFails
    \/ CronFinalizes \/ CronExpires
    \/ CronCancels \/ CronDowngradeFinds \/ CronDowngradeSaves

Request(h) ==
    \/ \E tx \in Txs : Credit(h, tx)
    \/ \E plan \in Plans : StartFinds(h, plan)
    \/ \E immediate \in BOOLEAN : CancelFinds(h, immediate)

Next ==
    \/ \E h \in Handlers : Request(h) \/ Proceed(h)
    \/ \E code \in Promos : Redeem(code)
    \/ CronStep
    \/ PeriodEnds \/ GraceEnds \/ Crash

Spec == Init /\ [][Next]_vars

\* Requests run to completion, the cron is called every day, time passes.
Fairness ==
    /\ \A h \in Handlers : WF_vars(Proceed(h))
    /\ WF_vars(CronStep)
    /\ WF_vars(PeriodEnds) /\ WF_vars(GraceEnds)

FairSpec == Spec /\ Fairness

-----------------------------------------------------------------------------
(* Properties                                                                *)

Ledger == INSTANCE BillingLedger
    WITH Credits <- Txs \cup Promos,
         Prices <- {PriceOf(p) : p \in Plans},
         credited <- markers \cup redeemed

\* However webhooks, requests and the cron overlap and wherever the process
\* dies, money behaves as in BillingLedger: creditAndActivate and the promo
\* redemption credit each transaction and code once, and activations and
\* renewals take the price of a plan, once per payment, from what is there.
LedgerImplemented == Ledger!Spec

\* When no two of them overlap, activations (by a deposit or by a start) and
\* renewals together charge a subscription once for every period it ran: the
\* first one and those that ended.
OneChargePerPeriod == \A i \in Ids : payments[i] <= 1 + elapsed[i]

\* When no two requests overlap, nothing is taken for a subscription that was
\* cancelled, by the user, at the end of its period or of its grace period,
\* whatever deposits follow: neither creditAndActivate nor the cron revives it.
NoChargeAfterCancel == [][sub.status = "canceled" => payments' = payments]_vars

\* Without overlaps and crashes the plan in user_quotas, which every path
\* writes in a save of its own, is the subscription's while it is active or in
\* its grace period, and the free plan otherwise.
QuotaFollowsSubscription ==
    (cron.phase = "idle" /\ (\A h \in Handlers : task[h] = NoTask) /\ faults = 0)
        => quotaPlan = IF sub.status \in {"active", "past_due"} THEN sub.plan ELSE Free

\* An active subscription that is to end with its period is cancelled, though
\* renewals, deposits and crashes get in between (finalizePeriodEndCancellations).
CancelTakesEffect ==
    \A i \in Ids : (sub.id = i /\ sub.status = "active" /\ sub.cancel)
                      ~> (sub.id # i \/ sub.status = "canceled")

\* No subscription stays past_due: it is paid, replaced or cancelled after its
\* grace period (downgradeExpiredPastDue).
PastDueEnds == sub.status = "past_due" ~> sub.status # "past_due"

\* "Auto-activate pending or past_due subscription if balance is now sufficient"
\* (creditAndActivate): after a credit, no subscription is charged for and
\* activated that meanwhile was activated, or cancelled.
ActivatesOnlyUnpaid ==
    [][\A h \in Handlers : (Activate(h) /\ task[h].have > 0 /\ payments' # payments)
                                => sub.status \in {"pending", "past_due"}]_vars
=============================================================================
