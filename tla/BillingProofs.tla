---------------------------- MODULE BillingProofs ----------------------------
(***************************************************************************)
(* The types of Billing and its refinement of BillingLedger, for any         *)
(* transactions, codes, plans and prices and any number of overlapping       *)
(* requests, starts and crashes; and what activations, renewals and          *)
(* cancellations keep while no two requests or cron passes overlap.          *)
(***************************************************************************)
EXTENDS Billing, TLAPS

\* What a request holds: what it is about to save, charge or create is the copy
\* of a row that existed, or has an id.
TaskOK(t) ==
    t # NoTask =>
        /\ t.step \in {"activate", "cancel", "flag"} => t.seen.id # 0
        /\ t.step \in {"replace", "create"} => t.id # 0

\* The inductive invariant, by the parts that actions leave alone: TypeOK, and
\* the copies that requests and the cron hold are of rows that existed.
MoneyTyped ==
    /\ balance \in Nat /\ deposited \in Nat /\ charged \in Nat
    /\ markers \subseteq Txs /\ redeemed \subseteq Promos
    /\ payments \in [Ids -> Nat]

SubTyped == sub \in Sub /\ (sub.id = 0 <=> sub = NoSub)

TasksOK ==
    /\ task \in [Handlers -> Task \cup {NoTask}]
    /\ \A h \in Handlers : TaskOK(task[h])

PassOK ==
    /\ cron \in Pass
    /\ cron.phase \in {"due", "charge", "unpaid", "cancel"} => cron.seen.id # 0

RestTyped ==
    /\ quotaPlan \in Plans
    /\ starts \in 0..MaxStarts /\ faults \in 0..MaxFaults
    /\ elapsed \in [Ids -> Nat]

IInv == MoneyTyped /\ SubTyped /\ TasksOK /\ PassOK /\ RestTyped

-----------------------------------------------------------------------------
(* Records                                                                   *)

\* calculateBilling yields an amount of money.
LEMMA PriceIsAmount == ASSUME NEW p \in Plans PROVE PriceOf(p) \in Nat
BY BillingAssumption DEF BillingAssumption, PriceOf, Plans

\* The fields of a subscription are typed.
LEMMA SubFields ==
    ASSUME NEW s \in Sub
    PROVE  s.id \in 0..MaxStarts /\ s.plan \in Plans /\ (s.id # 0 => s.id \in Ids)
BY BillingAssumption DEF Sub, Ids, BillingAssumption

\* The user has no subscription exactly when the id is 0.
LEMMA NoSubIsSub ==
    /\ NoSub \in Sub /\ NoSub.id = 0 /\ NoSub.status = "none"
    /\ IdlePass \in Pass /\ IdlePass.phase = "idle"
BY BillingAssumption DEF BillingAssumption, NoSub, Sub, Plans, PeriodEnd, IdlePass, Pass, Phase

\* createSubscriptionRecord makes a row of its own.
LEMMA NewSubIsSub ==
    ASSUME NEW id \in Ids, NEW p \in Plans
    PROVE  NewSub(id, p) \in Sub /\ NewSub(id, p).id = id /\ id # 0
BY BillingAssumption DEF BillingAssumption, NewSub, NoSub, Sub, PeriodEnd, Ids, Plans

\* The edits of a subscription keep its id and its type.
LEMMA EditedIsSub ==
    ASSUME NEW s \in Sub,
           NEW status \in {"pending", "active", "past_due", "canceled"}, NEW end \in PeriodEnd
    PROVE  /\ [s EXCEPT !.status = status] \in Sub /\ [s EXCEPT !.status = status].id = s.id
           /\ [s EXCEPT !.end = end] \in Sub /\ [s EXCEPT !.end = end].id = s.id
           /\ [s EXCEPT !.cancel = TRUE] \in Sub /\ [s EXCEPT !.cancel = TRUE].id = s.id
           /\ [s EXCEPT !.status = status, !.end = end] \in Sub
           /\ [s EXCEPT !.status = status, !.end = end].id = s.id
BY DEF Sub

\* A task that begins is typed, whatever it has read.
LEMMA NewTaskIsTask ==
    ASSUME NEW step \in Step PROVE NewTask(step) \in Task /\ NewTask(step).step = step
BY NoSubIsSub, BillingAssumption DEF NewTask, Task, Plans, BillingAssumption

\* One that credited.
LEMMA CreditedIsTask ==
    ASSUME NEW n \in Nat
    PROVE  LET t == [NewTask("readSub") EXCEPT !.have = n] IN t \in Task /\ t.step = "readSub"
BY NewTaskIsTask DEF Task, Step

\* One that found a subscription.
LEMMA FoundIsTask ==
    ASSUME NEW step \in Step, NEW s \in Sub
    PROVE  LET t == [NewTask(step) EXCEPT !.seen = s]
           IN  t \in Task /\ t.step = step /\ t.seen = s
BY NewTaskIsTask DEF Task

\* One that is to replace it.
LEMMA StartedIsTask ==
    ASSUME NEW s \in Sub, NEW p \in Plans, NEW id \in 0..MaxStarts
    PROVE  LET t == [NewTask("replace") EXCEPT !.seen = s, !.plan = p, !.id = id]
           IN  t \in Task /\ t.step = "replace" /\ t.id = id
<1> DEFINE u == NewTask("replace")
<1>1. u \in Task /\ u.step = "replace"
    BY NewTaskIsTask DEF Step
<1> HIDE DEF u
<1>2. LET t == [u EXCEPT !.seen = s, !.plan = p, !.id = id]
      IN  t \in Task /\ t.step = "replace" /\ t.id = id
    BY <1>1 DEF Task
<1> QED
    BY <1>2 DEF u

\* The save of a status leaves the user with the same row or none.
LEMMA StatusSaved ==
    ASSUME SubTyped, NEW seen \in Sub, seen.id # 0,
           NEW status \in {"pending", "active", "past_due", "canceled"},
           SaveStatus(seen, status)
    PROVE  SubTyped'
<1>1. CASE sub.id = seen.id
    BY <1>1, EditedIsSub, NoSubIsSub DEF SubTyped, SaveStatus, PeriodEnd
<1>2. CASE sub.id # seen.id
    BY <1>2 DEF SubTyped, SaveStatus
<1> QED
    BY <1>1, <1>2

\* A charge takes a price, which was there, and adds one payment.
LEMMA ChargeTyped ==
    ASSUME MoneyTyped, NEW seen \in Sub, seen.id # 0, CanCharge(seen), ChargeFor(seen)
    PROVE  MoneyTyped' /\ sub.id # 0
<1>1. PriceOf(seen.plan) \in Nat /\ seen.id \in Ids
    BY PriceIsAmount, SubFields
<1>2. balance' \in Nat /\ charged' \in Nat
    BY <1>1 DEF MoneyTyped, CanCharge, ChargeFor
<1>3. payments' \in [Ids -> Nat]
    BY <1>1 DEF MoneyTyped, ChargeFor
<1> QED
    BY <1>2, <1>3 DEF MoneyTyped, ChargeFor, CanCharge

\* One request goes on to what it may hold.
LEMMA TaskMoves ==
    ASSUME TasksOK, NEW h \in Handlers, NEW t \in Task \cup {NoTask}, TaskOK(t),
           task' = [task EXCEPT ![h] = t]
    PROVE  TasksOK'
<1>1. task' \in [Handlers -> Task \cup {NoTask}]
    BY DEF TasksOK
<1>2. ASSUME NEW g \in Handlers PROVE TaskOK(task'[g])
    <2>1. task'[g] = IF g = h THEN t ELSE task[g]
        BY DEF TasksOK
    <2> QED
        BY <2>1 DEF TasksOK
<1> QED
    BY <1>1, <1>2 DEF TasksOK, TaskOK

\* A request that ends holds nothing.
LEMMA TaskEnds == ASSUME TasksOK, NEW h \in Handlers, Done(h) PROVE TasksOK'
<1>1. TaskOK(NoTask)
    BY DEF TaskOK
<1> QED
    BY <1>1, TaskMoves DEF Done

\* The pass of the cron goes on to a phase with what it has read.
LEMMA PassMoves ==
    ASSUME PassOK, NEW phase \in Phase, NEW s \in Sub,
           NEW next \in {"finalize", "expire", "idle"},
           phase \in {"due", "charge", "unpaid", "cancel"} => s.id # 0,
           Pursue(phase, s, next)
    PROVE  PassOK'
BY DEF PassOK, Pursue, Pass

\* What an action leaves alone stays as it was.
LEMMA Untouched ==
    /\ MoneyTyped /\ UNCHANGED moneyVars => MoneyTyped'
    /\ SubTyped /\ UNCHANGED sub => SubTyped'
    /\ TasksOK /\ UNCHANGED task => TasksOK'
    /\ PassOK /\ UNCHANGED cron => PassOK'
    /\ RestTyped /\ UNCHANGED <<quotaPlan, boundVars, elapsed>> => RestTyped'
<1>1. TasksOK /\ UNCHANGED task => TasksOK'
    BY DEF TasksOK, TaskOK
<1> QED
    BY <1>1 DEF MoneyTyped, moneyVars, SubTyped, PassOK, RestTyped, boundVars

-----------------------------------------------------------------------------
(* One lemma per action                                                      *)

\* What a request that is at a step holds.
LEMMA AtStep ==
    ASSUME IInv, NEW h \in Handlers, NEW step, At(h, step)
    PROVE  /\ task[h] \in Task /\ task[h].step = step /\ task[h].seen \in Sub
           /\ task[h].plan \in Plans /\ task[h].id \in 0..MaxStarts
           /\ step \in {"activate", "cancel", "flag"} => task[h].seen.id # 0
           /\ step \in {"replace", "create"} => task[h].id # 0
BY DEF IInv, TasksOK, TaskOK, At, Task

\* The credit of creditAndActivate.
LEMMA CreditStep ==
    ASSUME IInv, NEW h \in Handlers, NEW tx \in Txs, Credit(h, tx) PROVE IInv'
<1> DEFINE t == [NewTask("readSub") EXCEPT !.have = balance + Amount[tx]]
<1>1. Amount[tx] \in Nat
    BY BillingAssumption DEF BillingAssumption
<1>2. balance + Amount[tx] \in Nat /\ deposited + Amount[tx] \in Nat
    BY <1>1 DEF IInv, MoneyTyped
<1>3. t \in Task /\ t.step = "readSub"
    BY <1>2, CreditedIsTask
<1>4. task' = [task EXCEPT ![h] = t]
    BY DEF Credit, Begin
<1> HIDE DEF t
<1>5. TasksOK'
    BY <1>3, <1>4, TaskMoves DEF IInv, TaskOK
<1>6. MoneyTyped'
    BY <1>2 DEF IInv, MoneyTyped, Credit
<1> QED
    BY <1>5, <1>6, Untouched DEF IInv, Credit

\* The read of the subscription after it.
LEMMA ReadSubStep == ASSUME IInv, NEW h \in Handlers, ReadSub(h) PROVE IInv'
<1>1. CASE Activatable(sub, task[h].have)
    <2> DEFINE t == [task[h] EXCEPT !.step = "activate", !.seen = sub]
    <2>1. sub \in Sub /\ sub.id # 0
        BY <1>1, NoSubIsSub DEF IInv, SubTyped, Activatable
    <2>2. t \in Task /\ t.step = "activate" /\ t.seen = sub
        BY <2>1, AtStep DEF ReadSub, Task, Step
    <2>3. task' = [task EXCEPT ![h] = t]
        BY <1>1 DEF ReadSub
    <2> HIDE DEF t
    <2>4. TasksOK'
        BY <2>1, <2>2, <2>3, TaskMoves DEF IInv, TaskOK
    <2> QED
        BY <2>4, Untouched DEF IInv, ReadSub
<1>2. CASE ~Activatable(sub, task[h].have)
    BY <1>2, TaskEnds, Untouched DEF IInv, ReadSub
<1> QED
    BY <1>1, <1>2

\* activateBalanceSubscription.
LEMMA ActivateStep == ASSUME IInv, NEW h \in Handlers, Activate(h) PROVE IInv'
<1> DEFINE seen == task[h].seen
<1>1. seen \in Sub /\ seen.id # 0
    BY AtStep DEF Activate
<1>2. TasksOK' /\ PassOK'
    BY TaskEnds, Untouched DEF IInv, Activate
<1>3. CASE CanCharge(seen)
    <2>1. MoneyTyped' /\ sub.id # 0
        BY <1>1, <1>3, ChargeTyped DEF IInv, Activate
    <2>2. SubTyped'
        BY <1>3, <2>1, EditedIsSub, NoSubIsSub, ZenonT(40) DEF IInv, SubTyped, Activate, PeriodEnd
    <2>3. RestTyped'
        BY <1>1, <1>3, SubFields DEF IInv, RestTyped, Activate, boundVars
    <2> QED
        BY <1>2, <2>1, <2>2, <2>3 DEF IInv
<1>4. CASE ~CanCharge(seen)
    BY <1>2, <1>4, Untouched DEF IInv, Activate
<1> QED
    BY <1>3, <1>4

\* The redemption of a promo code.
LEMMA RedeemStep == ASSUME IInv, NEW code \in Promos, Redeem(code) PROVE IInv'
<1>1. Amount[code] \in Nat
    BY BillingAssumption DEF BillingAssumption
<1>2. MoneyTyped'
    BY <1>1 DEF IInv, MoneyTyped, Redeem
<1> QED
    BY <1>2, Untouched DEF IInv, Redeem

\* StartSubscription, until it knows which row to replace.
LEMMA StartFindsStep ==
    ASSUME IInv, NEW h \in Handlers, NEW plan \in Plans, StartFinds(h, plan) PROVE IInv'
<1> DEFINE t == [NewTask("replace") EXCEPT !.seen = sub, !.plan = plan, !.id = starts']
<1>1. starts' \in 0..MaxStarts /\ starts' # 0
    BY BillingAssumption DEF IInv, RestTyped, StartFinds, BillingAssumption
<1>2. sub \in Sub
    BY DEF IInv, SubTyped
<1>3. t \in Task /\ t.step = "replace" /\ t.id = starts'
    BY <1>1, <1>2, StartedIsTask, ZenonT(40)
<1>4. task' = [task EXCEPT ![h] = t]
    BY DEF StartFinds, Begin
<1> HIDE DEF t
<1>5. TasksOK'
    BY <1>1, <1>3, <1>4, TaskMoves DEF IInv, TaskOK
<1>6. RestTyped'
    BY <1>1 DEF IInv, RestTyped, StartFinds
<1> QED
    BY <1>5, <1>6, Untouched DEF IInv, StartFinds

\* Its deletion of the old row.
LEMMA StartReplacesStep == ASSUME IInv, NEW h \in Handlers, StartReplaces(h) PROVE IInv'
<1> DEFINE t == [task[h] EXCEPT !.step = "create", !.seen = NoSub]
<1>1. t \in Task /\ t.step = "create" /\ t.id # 0
    BY AtStep, NoSubIsSub DEF StartReplaces, Task, Step
<1>2. task' = [task EXCEPT ![h] = t] \/ Done(h)
    BY DEF StartReplaces
<1> HIDE DEF t
<1>3. TasksOK'
    BY <1>1, <1>2, TaskMoves, TaskEnds DEF IInv, TaskOK
<1>4. SubTyped'
    BY NoSubIsSub DEF IInv, SubTyped, StartReplaces
<1> QED
    BY <1>3, <1>4, Untouched DEF IInv, StartReplaces

\* createSubscriptionRecord.
LEMMA StartCreatesStep == ASSUME IInv, NEW h \in Handlers, StartCreates(h) PROVE IInv'
<1> DEFINE new == NewSub(task[h].id, task[h].plan)
           step == IF new.plan = Free THEN "freeQuota" ELSE "activate"
           t == [task[h] EXCEPT !.seen = new, !.step = step]
<1>1. task[h] \in Task /\ task[h].id \in Ids /\ task[h].plan \in Plans
    BY AtStep, BillingAssumption DEF StartCreates, Ids, BillingAssumption
<1>2. new \in Sub /\ new.id # 0
    BY <1>1, NewSubIsSub
<1>3. CASE sub = NoSub
    <2>1. sub' = new /\ task' = [task EXCEPT ![h] = t]
        BY <1>3 DEF StartCreates
    <2>2. step \in {"freeQuota", "activate"}
        OBVIOUS
    <2> HIDE DEF step, new
    <2>3. t \in Task /\ t.seen = new /\ t.step = step
        BY <1>1, <1>2, <2>2 DEF Task, Step
    <2> HIDE DEF t
    <2>4. TasksOK'
        BY <1>2, <2>1, <2>2, <2>3, TaskMoves DEF IInv, TaskOK
    <2>5. SubTyped'
        BY <1>2, <2>1, NoSubIsSub DEF SubTyped
    <2> QED
        BY <2>4, <2>5, Untouched DEF IInv, StartCreates
<1>4. CASE sub # NoSub
    BY <1>4, TaskEnds, Untouched DEF IInv, StartCreates
<1> QED
    BY <1>3, <1>4

\* updateUserQuota of a start with the free plan: the quota is read ...
LEMMA FreeQuotaFindsStep == ASSUME IInv, NEW h \in Handlers, FreeQuotaFinds(h) PROVE IInv'
<1> DEFINE t == [task[h] EXCEPT !.step = "saveFree", !.plan = quotaPlan]
<1>1. t \in Task /\ t.step = "saveFree" /\ task' = [task EXCEPT ![h] = t]
    BY AtStep DEF FreeQuotaFinds, Task, Step, IInv, RestTyped
<1> HIDE DEF t
<1>2. TasksOK'
    BY <1>1, TaskMoves DEF IInv, TaskOK
<1> QED
    BY <1>2, Untouched DEF IInv, FreeQuotaFinds

\* ... and saved.
LEMMA FreeQuotaSavesStep == ASSUME IInv, NEW h \in Handlers, FreeQuotaSaves(h) PROVE IInv'
<1>1. RestTyped'
    BY DEF IInv, RestTyped, FreeQuotaSaves, boundVars, Plans
<1> QED
    BY <1>1, TaskEnds, Untouched DEF IInv, FreeQuotaSaves

\* CancelSubscription, until it decided what to save.
LEMMA CancelFindsStep ==
    ASSUME IInv, NEW h \in Handlers, NEW immediate \in BOOLEAN, CancelFinds(h, immediate)
    PROVE  IInv'
<1> DEFINE step == IF immediate THEN "cancel" ELSE "flag"
           t == [NewTask(step) EXCEPT !.seen = sub]
<1>1. sub \in Sub /\ sub.id # 0
    BY NoSubIsSub DEF IInv, SubTyped, CancelFinds
<1>2. step \in Step /\ task' = [task EXCEPT ![h] = t]
    BY DEF CancelFinds, Begin, Step
<1> HIDE DEF step
<1>3. t \in Task /\ t.seen = sub /\ t.step = step
    BY <1>1, <1>2, FoundIsTask
<1>4. step \notin {"replace", "create"}
    BY DEF step
<1> HIDE DEF t
<1>5. TasksOK'
    BY <1>1, <1>2, <1>3, <1>4, TaskMoves DEF IInv, TaskOK
<1> QED
    BY <1>5, Untouched DEF IInv, CancelFinds

\* Its save of an immediate cancellation.
LEMMA CancelSavesStep == ASSUME IInv, NEW h \in Handlers, CancelSaves(h) PROVE IInv'
<1>1. SubTyped'
    BY AtStep, StatusSaved DEF IInv, CancelSaves
<1>2. NewTask("downgrade") \in Task /\ NewTask("downgrade").step = "downgrade"
    BY NewTaskIsTask DEF Step
<1>3. TasksOK'
    BY <1>2, TaskMoves DEF IInv, TaskOK, CancelSaves
<1> QED
    BY <1>1, <1>3, Untouched DEF IInv, CancelSaves

\* Its save of a cancellation at the end of the period.
LEMMA FlagSavesStep == ASSUME IInv, NEW h \in Handlers, FlagSaves(h) PROVE IInv'
<1>1. task[h].seen.id # 0
    BY AtStep DEF FlagSaves
<1>2. [sub EXCEPT !.cancel = TRUE] \in Sub /\ [sub EXCEPT !.cancel = TRUE].id = sub.id
    BY EditedIsSub DEF IInv, SubTyped, PeriodEnd
<1>3. SubTyped'
    BY <1>1, <1>2, NoSubIsSub DEF IInv, SubTyped, FlagSaves
<1> QED
    BY <1>3, TaskEnds, Untouched DEF IInv, FlagSaves

\* downgradeToFreePlan: the quota is read ...
LEMMA DowngradeFindsStep == ASSUME IInv, NEW h \in Handlers, DowngradeFinds(h) PROVE IInv'
<1> DEFINE t == [task[h] EXCEPT !.step = "saveQuota", !.plan = quotaPlan]
<1>1. t \in Task /\ t.step = "saveQuota" /\ task' = [task EXCEPT ![h] = t]
    BY AtStep DEF DowngradeFinds, Task, Step, IInv, RestTyped
<1> HIDE DEF t
<1>2. TasksOK'
    BY <1>1, TaskMoves DEF IInv, TaskOK
<1> QED
    BY <1>2, Untouched DEF IInv, DowngradeFinds

\* ... and saved.
LEMMA DowngradeSavesStep == ASSUME IInv, NEW h \in Handlers, DowngradeSaves(h) PROVE IInv'
<1>1. RestTyped'
    BY DEF IInv, RestTyped, DowngradeSaves, boundVars, Plans
<1> QED
    BY <1>1, TaskEnds, Untouched DEF IInv, DowngradeSaves

\* The copy the cron works on.
LEMMA PassHolds ==
    ASSUME PassOK
    PROVE  /\ cron.seen \in Sub /\ cron.plan \in Plans /\ cron.phase \in Phase
           /\ cron.next \in {"finalize", "expire", "idle"}
           /\ cron.phase \in {"due", "charge", "unpaid", "cancel"} => cron.seen.id # 0
BY DEF PassOK, Pass

\* CheckRenewals looks for a renewal.
LEMMA CronStartsStep == ASSUME IInv, CronStarts PROVE IInv'
<1>1. sub \in Sub /\ (RenewalDue(sub) => sub.id # 0)
    BY NoSubIsSub DEF IInv, SubTyped, RenewalDue
<1>2. PassOK'
    BY <1>1, PassMoves, NoSubIsSub DEF IInv, CronStarts, Phase
<1> QED
    BY <1>2, Untouched DEF IInv, CronStarts

\* ProcessBalanceRenewal, until its transaction.
LEMMA RenewalReadsStep == ASSUME IInv, RenewalReads PROVE IInv'
<1>1. sub \in Sub /\ (sub.status = "active" => sub.id # 0)
    BY NoSubIsSub DEF IInv, SubTyped
<1>2. ASSUME Pursue("finalize", NoSub, "expire") PROVE PassOK'
    BY <1>2, PassMoves, NoSubIsSub DEF IInv, Phase
<1>3. ASSUME NEW phase \in {"cancel", "charge"}, sub.status = "active",
             Pursue(phase, sub, "finalize")
      PROVE  PassOK'
    BY <1>1, <1>3, PassMoves DEF IInv, Phase
<1>4. PassOK'
    BY <1>2, <1>3 DEF RenewalReads
<1> QED
    BY <1>4, Untouched DEF IInv, RenewalReads

\* Its transaction.
LEMMA RenewalChargesStep == ASSUME IInv, RenewalCharges PROVE IInv'
<1>1. cron.seen \in Sub /\ cron.seen.id # 0
    BY PassHolds DEF IInv, RenewalCharges
<1>2. CASE CanCharge(cron.seen)
    <2>1. MoneyTyped' /\ sub.id # 0
        BY <1>1, <1>2, ChargeTyped DEF IInv, RenewalCharges
    <2>2. PICK end \in {"ahead", "reached"} :
             /\ sub' = [sub EXCEPT !.end = end]
             /\ elapsed' = IF end = "ahead" THEN elapsed
                           ELSE [elapsed EXCEPT ![sub.id] = @ + 1]
        BY <1>2 DEF RenewalCharges
    <2>3. SubTyped'
        BY <2>1, <2>2, EditedIsSub, NoSubIsSub, ZenonT(40) DEF IInv, SubTyped, PeriodEnd
    <2>4. sub.id \in Ids
        BY <2>1, SubFields DEF IInv, SubTyped
    <2>5. RestTyped'
        BY <2>2, <2>4 DEF IInv, RestTyped, RenewalCharges, boundVars
    <2>6. PassOK'
        BY <1>2, PassMoves, NoSubIsSub DEF IInv, RenewalCharges, Phase
    <2> QED
        BY <2>1, <2>3, <2>5, <2>6, Untouched DEF IInv, RenewalCharges
<1>3. CASE ~CanCharge(cron.seen)
    <2>1. PassOK'
        BY <1>1, <1>3, PassMoves DEF IInv, RenewalCharges, Phase
    <2> QED
        BY <1>3, <2>1, Untouched DEF IInv, RenewalCharges
<1> QED
    BY <1>2, <1>3

\* Its save of a failure.
LEMMA RenewalFailsStep == ASSUME IInv, RenewalFails PROVE IInv'
<1>1. SubTyped'
    BY PassHolds, StatusSaved DEF IInv, RenewalFails
<1>2. PassOK'
    BY PassMoves, NoSubIsSub DEF IInv, RenewalFails, Phase
<1> QED
    BY <1>1, <1>2, Untouched DEF IInv, RenewalFails

\* finalizePeriodEndCancellations looks for one.
LEMMA CronFinalizesStep == ASSUME IInv, CronFinalizes PROVE IInv'
<1>1. sub \in Sub /\ (CancellationDue(sub) => sub.id # 0)
    BY NoSubIsSub DEF IInv, SubTyped, CancellationDue
<1>2. PassOK'
    BY <1>1, PassMoves, NoSubIsSub DEF IInv, CronFinalizes, Phase
<1> QED
    BY <1>2, Untouched DEF IInv, CronFinalizes

\* downgradeExpiredPastDue looks for one.
LEMMA CronExpiresStep == ASSUME IInv, CronExpires PROVE IInv'
<1>1. sub \in Sub /\ (GraceOver(sub) => sub.id # 0)
    BY NoSubIsSub DEF IInv, SubTyped, GraceOver
<1>2. CASE GraceOver(sub)
    BY <1>1, <1>2, PassMoves, Untouched DEF IInv, CronExpires, Phase
<1>3. CASE ~GraceOver(sub)
    <2>1. PassOK'
        BY <1>3, NoSubIsSub DEF PassOK, CronExpires
    <2> QED
        BY <2>1, Untouched DEF IInv, CronExpires
<1> QED
    BY <1>2, <1>3

\* The cron's save of a cancellation.
LEMMA CronCancelsStep == ASSUME IInv, CronCancels PROVE IInv'
<1>1. SubTyped'
    BY PassHolds, StatusSaved DEF IInv, CronCancels
<1>2. PassOK'
    BY PassHolds, PassMoves, NoSubIsSub DEF IInv, CronCancels, Phase
<1> QED
    BY <1>1, <1>2, Untouched DEF IInv, CronCancels

\* downgradeToFreePlan after it: the quota is read ...
LEMMA CronDowngradeFindsStep == ASSUME IInv, CronDowngradeFinds PROVE IInv'
<1>1. PassOK'
    BY DEF IInv, PassOK, Pass, Phase, RestTyped, CronDowngradeFinds
<1> QED
    BY <1>1, Untouched DEF IInv, CronDowngradeFinds

\* ... and saved.
LEMMA CronDowngradeSavesStep == ASSUME IInv, CronDowngradeSaves PROVE IInv'
<1>1. RestTyped'
    BY DEF IInv, RestTyped, CronDowngradeSaves, boundVars, Plans
<1>2. ASSUME NEW phase \in {"finalize", "expire"}, NEW next \in {"expire", "idle"},
             cron' = [IdlePass EXCEPT !.phase = phase, !.next = next]
      PROVE  PassOK'
    BY <1>2, NoSubIsSub DEF PassOK, Pass, Phase
<1>3. ASSUME cron.next = "idle" PROVE PassOK'
    BY <1>3, NoSubIsSub DEF PassOK, CronDowngradeSaves
<1>4. ASSUME cron.next # "idle" PROVE PassOK'
    BY <1>2, <1>4, PassHolds DEF IInv, CronDowngradeSaves
<1> QED
    BY <1>1, <1>3, <1>4, Untouched DEF IInv, CronDowngradeSaves

\* Time and crashes.
LEMMA EnvironmentStep == ASSUME IInv, PeriodEnds \/ GraceEnds \/ Crash PROVE IInv'
<1>1. CASE PeriodEnds
    <2>1. sub \in Sub /\ sub.id # 0 /\ sub.id \in Ids
        BY <1>1, NoSubIsSub, SubFields DEF IInv, SubTyped, PeriodEnds
    <2>2. SubTyped'
        BY <1>1, <2>1, EditedIsSub, NoSubIsSub DEF SubTyped, PeriodEnds, PeriodEnd
    <2>3. RestTyped'
        BY <1>1, <2>1 DEF IInv, RestTyped, PeriodEnds, boundVars
    <2> QED
        BY <1>1, <2>2, <2>3, Untouched DEF IInv, PeriodEnds
<1>2. CASE GraceEnds
    <2>1. sub \in Sub /\ sub.id # 0
        BY <1>2, NoSubIsSub DEF IInv, SubTyped, GraceEnds
    <2>2. SubTyped'
        BY <1>2, <2>1, EditedIsSub, NoSubIsSub DEF SubTyped, GraceEnds, PeriodEnd
    <2> QED
        BY <1>2, <2>2, Untouched DEF IInv, GraceEnds
<1>3. CASE Crash
    <2>1. TasksOK'
        BY <1>3 DEF TasksOK, TaskOK, Crash
    <2>2. PassOK'
        BY <1>3, NoSubIsSub DEF PassOK, Crash
    <2>3. RestTyped'
        BY <1>3, BillingAssumption DEF IInv, RestTyped, Crash, BillingAssumption
    <2> QED
        BY <1>3, <2>1, <2>2, <2>3, Untouched DEF IInv, Crash
<1> QED
    BY <1>1, <1>2, <1>3

-----------------------------------------------------------------------------
(* Theorems                                                                  *)

\* Nothing is there at first.
LEMMA InitIInv == Init => IInv
<1> SUFFICES ASSUME Init PROVE IInv
    OBVIOUS
<1>1. MoneyTyped
    BY DEF Init, MoneyTyped
<1>2. SubTyped /\ PassOK
    BY NoSubIsSub DEF Init, SubTyped, PassOK
<1>3. TasksOK
    BY DEF Init, TasksOK, TaskOK
<1>4. RestTyped
    BY BillingAssumption DEF Init, RestTyped, BillingAssumption, Plans
<1> QED
    BY <1>1, <1>2, <1>3, <1>4 DEF IInv

\* Every step of a request, of the cron or of the environment keeps IInv.
LEMMA NextIInv == IInv /\ [Next]_vars => IInv'
<1> SUFFICES ASSUME IInv, [Next]_vars PROVE IInv'
    OBVIOUS
<1>1. ASSUME NEW h \in Handlers, Request(h) PROVE IInv'
    BY <1>1, CreditStep, StartFindsStep, CancelFindsStep DEF Request
<1>2. ASSUME NEW h \in Handlers, Proceed(h) PROVE IInv'
    BY <1>2, ReadSubStep, ActivateStep, StartReplacesStep, StartCreatesStep,
       FreeQuotaFindsStep, FreeQuotaSavesStep, CancelSavesStep, FlagSavesStep, DowngradeFindsStep, DowngradeSavesStep DEF Proceed
<1>3. ASSUME NEW code \in Promos, Redeem(code) PROVE IInv'
    BY <1>3, RedeemStep
<1>4. CASE CronStep
    BY <1>4, CronStartsStep, RenewalReadsStep, RenewalChargesStep, RenewalFailsStep,
       CronFinalizesStep, CronExpiresStep, CronCancelsStep, CronDowngradeFindsStep,
       CronDowngradeSavesStep DEF CronStep
<1>5. CASE PeriodEnds \/ GraceEnds \/ Crash
    BY <1>5, EnvironmentStep
<1>6. CASE UNCHANGED vars
    BY <1>6, Untouched DEF IInv, vars, moneyVars, boundVars
<1> QED
    BY <1>1, <1>2, <1>3, <1>4, <1>5, <1>6 DEF Next

\* Every variable keeps its type in every behaviour; in particular no charge
\* takes more than the balance and no payment is made without its subscription.
THEOREM TypeCorrect == Spec => []TypeOK
<1>1. IInv => TypeOK
    BY DEF IInv, MoneyTyped, SubTyped, TasksOK, PassOK, RestTyped, TypeOK
<1> QED
    BY <1>1, InitIInv, NextIInv, PTL DEF Spec

\* Nothing credited, nothing charged: the ledger begins empty.
LEMMA LedgerInit == Init => Ledger!Init
BY DEF Init, Ledger!Init

\* A charge is one of the ledger: the price of a plan, and the money was there.
LEMMA LedgerCharge ==
    ASSUME NEW seen \in Sub, CanCharge(seen), ChargeFor(seen)
    PROVE  Ledger!Next
<1>1. seen.plan \in Plans
    BY SubFields
<1>2. PriceOf(seen.plan) \in {PriceOf(p) : p \in Plans} /\ PriceOf(seen.plan) \in Nat
    BY <1>1, PriceIsAmount
<1>3. Ledger!Charge(PriceOf(seen.plan))
    BY <1>2 DEF Ledger!Charge, CanCharge, ChargeFor
<1> QED
    BY <1>2, <1>3 DEF Ledger!Next

\* A step of the billing that moves money is one of the ledger: a transaction or
\* a code that was not credited before, or a charge.
LEMMA LedgerStep == IInv /\ [Next]_vars => [Ledger!Next]_(Ledger!vars)
<1> SUFFICES ASSUME IInv, [Next]_vars PROVE [Ledger!Next]_(Ledger!vars)
    OBVIOUS
<1>1. UNCHANGED moneyVars => UNCHANGED Ledger!vars
    BY DEF moneyVars, Ledger!vars
<1>2. ASSUME NEW h \in Handlers, NEW tx \in Txs, Credit(h, tx) PROVE Ledger!Next
    <2>1. tx \notin redeemed
        BY BillingAssumption DEF BillingAssumption, IInv, MoneyTyped
    <2>2. Ledger!Credit(tx)
        BY <1>2, <2>1 DEF Credit, Ledger!Credit
    <2> QED
        BY <2>2 DEF Ledger!Next
<1>3. ASSUME NEW code \in Promos, Redeem(code) PROVE Ledger!Next
    <2>1. code \notin markers
        BY BillingAssumption DEF BillingAssumption, IInv, MoneyTyped
    <2>2. Ledger!Credit(code)
        BY <1>3, <2>1 DEF Redeem, Ledger!Credit
    <2> QED
        BY <2>2 DEF Ledger!Next
<1>4. ASSUME NEW h \in Handlers, Activate(h) PROVE Ledger!Next \/ UNCHANGED moneyVars
    BY <1>4, AtStep, LedgerCharge DEF Activate
<1>5. CASE RenewalCharges
    BY <1>5, <1>1, PassHolds, LedgerCharge DEF RenewalCharges, IInv
<1>6. ASSUME NEW h \in Handlers, Request(h) PROVE Ledger!Next \/ UNCHANGED moneyVars
    BY <1>6, <1>2 DEF Request, StartFinds, CancelFinds
<1>7. ASSUME NEW h \in Handlers, Proceed(h) PROVE Ledger!Next \/ UNCHANGED moneyVars
    BY <1>7, <1>4 DEF Proceed, ReadSub, StartReplaces, StartCreates, FreeQuotaFinds,
       FreeQuotaSaves, CancelSaves, FlagSaves, DowngradeFinds, DowngradeSaves
<1>8. CASE CronStep
    BY <1>8, <1>5, <1>1 DEF CronStep, CronStarts, RenewalReads, RenewalFails, CronFinalizes,
       CronExpires, CronCancels, CronDowngradeFinds, CronDowngradeSaves
<1>9. CASE PeriodEnds \/ GraceEnds \/ Crash
    BY <1>9, <1>1 DEF PeriodEnds, GraceEnds, Crash
<1>10. CASE UNCHANGED vars
    BY <1>10, <1>1 DEF vars, moneyVars
<1> QED
    BY <1>1, <1>3, <1>6, <1>7, <1>8, <1>9, <1>10 DEF Next

\* Billing implements BillingLedger: every transaction and code is credited at
\* most once and only money that is there is spent, for any number of
\* overlapping webhooks, requests and renewals and any crashes.
THEOREM ImplementsLedger == Spec => LedgerImplemented
<1>1. Spec => []IInv
    BY InitIInv, NextIInv, PTL DEF Spec
<1> QED
    BY <1>1, LedgerInit, LedgerStep, PTL DEF Spec, LedgerImplemented, Ledger!Spec

\* No money appears or disappears: what was credited is still there or was paid.
THEOREM MoneyConserved == Spec => []Ledger!Conserved
<1>1. Init => Ledger!Conserved
    BY DEF Init, Ledger!Conserved
<1>2. IInv /\ Ledger!Conserved /\ [Ledger!Next]_(Ledger!vars) => Ledger!Conserved'
    <2> SUFFICES ASSUME IInv, Ledger!Conserved, [Ledger!Next]_(Ledger!vars)
                 PROVE  Ledger!Conserved'
        OBVIOUS
    <2>1. ASSUME NEW c \in Txs \cup Promos, Ledger!Credit(c) PROVE Ledger!Conserved'
        <3>1. Amount[c] \in Nat
            BY BillingAssumption DEF BillingAssumption
        <3> QED
            BY <2>1, <3>1 DEF Ledger!Credit, Ledger!Conserved, IInv, MoneyTyped
    <2>2. ASSUME NEW price \in {PriceOf(p) : p \in Plans}, Ledger!Charge(price)
          PROVE  Ledger!Conserved'
        <3>1. price \in Nat
            BY PriceIsAmount
        <3> QED
            BY <2>2, <3>1 DEF Ledger!Charge, Ledger!Conserved, IInv, MoneyTyped
    <2>3. CASE UNCHANGED Ledger!vars
        BY <2>3 DEF Ledger!vars, Ledger!Conserved
    <2> QED
        BY <2>1, <2>2, <2>3 DEF Ledger!Next
<1> QED
    BY <1>1, <1>2, InitIInv, NextIInv, LedgerStep, PTL DEF Spec

-----------------------------------------------------------------------------
(* One at a time: what holds when no two requests or passes of the cron      *)
(* overlap                                                                   *)

\* No two requests run at once, and none while the cron does.
Alone ==
    /\ \A h, g \in Handlers : task[h] # NoTask /\ task[g] # NoTask => h = g
    /\ \A h \in Handlers : task[h] # NoTask => cron.phase = "idle"

\* What a request has read is still so: nobody wrote in between.
TaskFresh(t) ==
    /\ t.step \in {"activate", "replace", "cancel", "flag"} => t.seen = sub
    /\ t.step = "activate" => sub.status \in {"pending", "past_due"}
    /\ t.step = "replace" => sub.status # "active"
    /\ t.step \in {"replace", "create"} =>
          t.id \in Ids /\ t.id <= starts /\ payments[t.id] = 0
    /\ t.step \in {"freeQuota", "saveFree"} => sub.plan = Free
    /\ t.step = "saveFree" => t.plan = quotaPlan
    /\ t.step \in {"downgrade", "saveQuota"} => sub.status = "canceled"
    /\ t.step = "saveQuota" => t.plan = quotaPlan

\* The same of the cron.
PassFresh ==
    /\ cron.phase \in {"due", "charge", "unpaid", "cancel"} => cron.seen = sub
    /\ cron.phase \in {"due", "charge", "unpaid"} => sub.status = "active" /\ sub.end # "ahead"
    /\ cron.phase \in {"downgrade", "saveQuota"} => sub.status = "canceled"
    /\ cron.phase = "saveQuota" => cron.plan = quotaPlan

Fresh == (\A h \in Handlers : task[h] # NoTask => TaskFresh(task[h])) /\ PassFresh

\* The payments of a subscription are those of the periods it ran, and while its
\* period is over and it was not renewed, of those that ended.
Periods ==
    /\ sub.id <= starts
    /\ \A i \in Ids : payments[i] <= 1 + elapsed[i]
    /\ \A i \in Ids : i > starts => payments[i] = 0
    /\ sub.status = "pending" => payments[sub.id] = 0
    /\ sub.status = "active" /\ sub.end # "ahead" => payments[sub.id] <= elapsed[sub.id]
    /\ sub.status = "past_due" => sub.end # "ahead" /\ payments[sub.id] <= elapsed[sub.id]

\* Between the save of a cancellation and that of the quota
Downgrading ==
    \/ \E h \in Handlers : task[h] # NoTask /\ task[h].step \in {"downgrade", "saveQuota"}
    \/ cron.phase \in {"downgrade", "saveQuota"}

InForce == sub.status \in {"active", "past_due"}

\* What is in force was paid for, and the quota follows it.
Follows ==
    /\ InForce /\ sub.plan # Free => payments[sub.id] > 0
    /\ faults = 0 => \/ quotaPlan = IF InForce THEN sub.plan ELSE Free
                     \/ Downgrading

Sequential == Alone /\ Fresh /\ Periods /\ Follows

\* A request that begins finds nobody at work.
LEMMA Begins ==
    ASSUME ~Overlap, IInv, NEW h \in Handlers, NEW new, Begin(h, new)
    PROVE  /\ task'[h] = new /\ \A g \in Handlers \ {h} : task'[g] = NoTask
           /\ cron.phase = "idle" /\ ~Downgrading
BY DEF Begin, Quiet, IInv, TasksOK, Downgrading

\* A request that goes on is the only one at work.
LEMMA GoesOn ==
    ASSUME IInv, Alone, NEW h \in Handlers, task[h] # NoTask,
           NEW t, task' = [task EXCEPT ![h] = t]
    PROVE  /\ task'[h] = t /\ \A g \in Handlers \ {h} : task[g] = NoTask /\ task'[g] = NoTask
           /\ cron.phase = "idle"
           /\ task[h].step \notin {"downgrade", "saveQuota"} => ~Downgrading
BY DEF Alone, IInv, TasksOK, Downgrading

\* Nobody else is there to have read anything.
LEMMA OneRequest ==
    ASSUME NEW h \in Handlers, \A g \in Handlers \ {h} : task'[g] = NoTask,
           cron'.phase = "idle", task'[h] # NoTask => TaskFresh(task[h])'
    PROVE  Alone' /\ Fresh'
<1>1. Alone'
    BY DEF Alone
<1>2. PassFresh'
    BY DEF PassFresh
<1> QED
    BY <1>1, <1>2 DEF Fresh

\* While the cron works no request does.
LEMMA OnePass ==
    ASSUME \A g \in Handlers : task'[g] = NoTask, PassFresh'
    PROVE  Alone' /\ Fresh'
BY DEF Alone, Fresh

\* What no payment, period or status changes.
LEMMA KeepPeriods ==
    ASSUME IInv, IInv', Periods, UNCHANGED <<payments, elapsed>>, starts' >= starts,
           sub'.id = sub.id, sub'.status = sub.status, sub'.end = sub.end
    PROVE  Periods'
<1>1. sub.id \in Int /\ starts \in Int /\ starts' \in Int /\ \A i \in Ids : i \in Int
    BY BillingAssumption DEF IInv, SubTyped, Sub, RestTyped, Ids, BillingAssumption
<1>2. sub'.id <= starts'
    BY <1>1 DEF Periods
<1>3. \A i \in Ids : i > starts' => payments'[i] = 0
    BY <1>1 DEF Periods
<1> QED
    BY <1>2, <1>3 DEF Periods

\* What no payment, plan or status changes.
LEMMA KeepFollows ==
    ASSUME Follows, UNCHANGED <<payments, quotaPlan, faults>>,
           sub'.id = sub.id, sub'.status = sub.status, sub'.plan = sub.plan,
           ~Downgrading
    PROVE  Follows'
BY DEF Follows, InForce

\* The fields of the subscription, and of what an edit makes of it
LEMMA SubEdits ==
    ASSUME SubTyped
    PROVE  /\ sub.id \in 0..MaxStarts /\ sub.plan \in Plans
           /\ sub.status # "none" => sub.id \in Ids
           /\ sub = NoSub => sub.status = "none" /\ sub.id = 0
           /\ \A status \in {"active", "past_due", "canceled"} :
                 LET s == [sub EXCEPT !.status = status]
                 IN  /\ s.status = status /\ s.id = sub.id /\ s.plan = sub.plan
                     /\ s.end = sub.end
           /\ \A end \in PeriodEnd :
                 LET s == [sub EXCEPT !.end = end]
                 IN  /\ s.end = end /\ s.id = sub.id /\ s.plan = sub.plan
                     /\ s.status = sub.status
           /\ LET s == [sub EXCEPT !.cancel = TRUE]
              IN  /\ s.end = sub.end /\ s.id = sub.id /\ s.plan = sub.plan
                  /\ s.status = sub.status
           /\ LET s == [sub EXCEPT !.status = "active", !.end = "ahead"]
              IN  /\ s.end = "ahead" /\ s.id = sub.id /\ s.plan = sub.plan
                  /\ s.status = "active"
<1>1. sub.id \in 0..MaxStarts /\ sub.plan \in Plans /\ (sub.id # 0 => sub.id \in Ids)
    BY SubFields DEF SubTyped
<1>2. sub.status # "none" => sub.id # 0
    BY NoSubIsSub DEF SubTyped
<1> QED
    BY <1>1, <1>2, NoSubIsSub DEF SubTyped, Sub

\* A charge adds one payment to the subscription it is for.
LEMMA Charged ==
    ASSUME IInv, sub.id \in Ids, ChargeFor(sub)
    PROVE  /\ payments'[sub.id] = payments[sub.id] + 1 /\ payments[sub.id] \in Nat
           /\ \A i \in Ids : i # sub.id => payments'[i] = payments[i]
           /\ \A i \in Ids : payments[i] \in Nat /\ elapsed[i] \in Nat /\ i \in Nat
           /\ starts \in Nat
BY BillingAssumption DEF IInv, MoneyTyped, ChargeFor, Ids, RestTyped, BillingAssumption

\* A credit.
LEMMA CreditAlone ==
    ASSUME ~Overlap, IInv, IInv', Sequential, NEW h \in Handlers, NEW tx \in Txs, Credit(h, tx)
    PROVE  Sequential'
<1> DEFINE t == [NewTask("readSub") EXCEPT !.have = balance + Amount[tx]]
<1>1. Amount[tx] \in Nat /\ balance \in Nat
    BY BillingAssumption DEF BillingAssumption, IInv, MoneyTyped
<1>2. t.step = "readSub" /\ Begin(h, t)
    BY <1>1, CreditedIsTask DEF Credit
<1> HIDE DEF t
<1>3. /\ task'[h] = t /\ \A g \in Handlers \ {h} : task'[g] = NoTask
      /\ cron.phase = "idle" /\ ~Downgrading
    BY <1>2, Begins
<1>4. UNCHANGED <<cron, sub, payments, elapsed, quotaPlan, starts, faults>>
    BY DEF Credit, boundVars
<1>5. TaskFresh(task[h])'
    BY <1>2, <1>3 DEF TaskFresh
<1>6. Alone' /\ Fresh'
    BY <1>3, <1>4, <1>5, OneRequest
<1>7. starts' >= starts
    BY <1>4 DEF IInv, RestTyped
<1> QED
    BY <1>3, <1>4, <1>6, <1>7, KeepPeriods, KeepFollows DEF Sequential

\* StartSubscription begins.
LEMMA StartFindsAlone ==
    ASSUME ~Overlap, IInv, IInv', Sequential, NEW h \in Handlers, NEW plan \in Plans,
           StartFinds(h, plan)
    PROVE  Sequential'
<1> DEFINE t == [NewTask("replace") EXCEPT !.seen = sub, !.plan = plan, !.id = starts']
<1>1. starts \in Nat /\ starts' = starts + 1 /\ starts' \in Ids /\ starts' \in 0..MaxStarts
    BY BillingAssumption DEF StartFinds, IInv, RestTyped, Ids, BillingAssumption
<1>2. t.step = "replace" /\ t.id = starts' /\ t.seen = sub
    <2> DEFINE u == NewTask("replace")
    <2>1. u \in Task /\ u.step = "replace"
        BY NewTaskIsTask DEF Step
    <2> HIDE DEF u
    <2>2. LET v == [u EXCEPT !.seen = sub, !.plan = plan, !.id = starts']
          IN  v.step = "replace" /\ v.id = starts' /\ v.seen = sub
        BY <2>1 DEF Task
    <2> QED
        BY <2>2 DEF u
<1>3. Begin(h, t) /\ sub.status # "active"
    BY DEF StartFinds
<1> HIDE DEF t
<1>4. /\ task'[h] = t /\ \A g \in Handlers \ {h} : task'[g] = NoTask
      /\ cron.phase = "idle" /\ ~Downgrading
    BY <1>3, Begins
<1>5. UNCHANGED <<cron, sub, payments, elapsed, quotaPlan, faults>>
    BY DEF StartFinds, moneyVars
<1>6. payments[starts'] = 0
    BY <1>1 DEF Sequential, Periods
<1>7. TaskFresh(task[h])'
    BY <1>1, <1>2, <1>3, <1>4, <1>5, <1>6 DEF TaskFresh
<1>8. Alone' /\ Fresh'
    BY <1>4, <1>5, <1>7, OneRequest
<1> QED
    BY <1>1, <1>4, <1>5, <1>8, KeepPeriods, KeepFollows DEF Sequential

\* CancelSubscription begins.
LEMMA CancelFindsAlone ==
    ASSUME ~Overlap, IInv, IInv', Sequential, NEW h \in Handlers, NEW immediate \in BOOLEAN,
           CancelFinds(h, immediate)
    PROVE  Sequential'
<1>1. PICK step \in {"cancel", "flag"} : Begin(h, [NewTask(step) EXCEPT !.seen = sub])
    BY DEF CancelFinds
<1> DEFINE t == [NewTask(step) EXCEPT !.seen = sub]
<1>2. t.step = step /\ t.seen = sub /\ Begin(h, t)
    BY <1>1, FoundIsTask DEF IInv, SubTyped, Step
<1> HIDE DEF t
<1>3. /\ task'[h] = t /\ \A g \in Handlers \ {h} : task'[g] = NoTask
      /\ cron.phase = "idle" /\ ~Downgrading
    BY <1>2, Begins
<1>4. UNCHANGED <<cron, sub, payments, elapsed, quotaPlan, starts, faults>>
    BY DEF CancelFinds, boundVars, moneyVars
<1>5. TaskFresh(task[h])'
    BY <1>2, <1>3, <1>4 DEF TaskFresh
<1>6. Alone' /\ Fresh'
    BY <1>3, <1>4, <1>5, OneRequest
<1>7. starts' >= starts
    BY <1>4 DEF IInv, RestTyped
<1> QED
    BY <1>3, <1>4, <1>6, <1>7, KeepPeriods, KeepFollows DEF Sequential

\* A request at a step is alone, and what it has read is still so.
LEMMA AtAlone ==
    ASSUME IInv, Sequential, NEW h \in Handlers, NEW step, At(h, step),
           NEW t, task' = [task EXCEPT ![h] = t]
    PROVE  /\ TaskFresh(task[h]) /\ task[h].step = step
           /\ task'[h] = t /\ \A g \in Handlers \ {h} : task'[g] = NoTask
           /\ cron.phase = "idle"
BY GoesOn DEF At, Sequential, Fresh

\* Nobody is downgrading while a request does something else.
LEMMA NotDowngrading ==
    ASSUME Sequential, NEW h \in Handlers,
           \E step \in {"readSub", "activate", "replace", "create", "freeQuota", "flag"} : At(h, step)
    PROVE  ~Downgrading
<1>1. task[h] # NoTask /\ task[h].step \notin {"downgrade", "saveQuota"}
    BY DEF At
<1>2. cron.phase = "idle" /\ \A g \in Handlers : task[g] # NoTask => g = h
    BY <1>1 DEF Sequential, Alone
<1> QED
    BY <1>1, <1>2 DEF Downgrading

\* The read after the credit.
LEMMA ReadSubAlone ==
    ASSUME IInv, IInv', Sequential, NEW h \in Handlers, ReadSub(h) PROVE Sequential'
<1>1. PICK t : /\ task' = [task EXCEPT ![h] = t]
               /\ t # NoTask => t.step = "activate" /\ t.seen = sub
                                /\ sub.status \in {"pending", "past_due"}
    <2>1. CASE Activatable(sub, task[h].have)
        <3>1. LET t == [task[h] EXCEPT !.step = "activate", !.seen = sub]
              IN  task' = [task EXCEPT ![h] = t] /\ t.step = "activate" /\ t.seen = sub
            BY <2>1, AtStep DEF ReadSub, Task
        <3> QED
            BY <2>1, <3>1 DEF Activatable
    <2>2. CASE ~Activatable(sub, task[h].have)
        BY <2>2 DEF ReadSub, Done
    <2> QED
        BY <2>1, <2>2
<1>2. /\ task'[h] = t /\ \A g \in Handlers \ {h} : task'[g] = NoTask
      /\ cron.phase = "idle" /\ ~Downgrading
    <2>1. At(h, "readSub") /\ task' = [task EXCEPT ![h] = t]
        BY <1>1 DEF ReadSub
    <2> QED
        BY <2>1, AtAlone, NotDowngrading
<1>3. UNCHANGED <<cron, sub, payments, elapsed, quotaPlan, starts, faults>>
    BY DEF ReadSub, boundVars, moneyVars
<1>4. task'[h] # NoTask => TaskFresh(task[h])'
    BY <1>1, <1>2, <1>3 DEF TaskFresh
<1>5. Alone' /\ Fresh'
    BY <1>2, <1>3, <1>4, OneRequest
<1>6. starts' >= starts
    BY <1>3 DEF IInv, RestTyped
<1> QED
    BY <1>2, <1>3, <1>5, <1>6, KeepPeriods, KeepFollows DEF Sequential

\* An activation: the first payment, or that of the period that is over.
LEMMA ActivateAlone ==
    ASSUME IInv, IInv', Sequential, NEW h \in Handlers, Activate(h) PROVE Sequential'
<1>1. /\ task[h].seen = sub /\ sub.status \in {"pending", "past_due"}
      /\ task'[h] = NoTask /\ \A g \in Handlers \ {h} : task'[g] = NoTask
      /\ cron.phase = "idle" /\ ~Downgrading
    BY AtAlone, NotDowngrading DEF Activate, Done, TaskFresh
<1>2. UNCHANGED <<cron, elapsed, starts, faults>>
    BY DEF Activate, boundVars
<1>3. Alone' /\ Fresh'
    BY <1>1, <1>2, OneRequest
<1>4. CASE CanCharge(sub)
    <2>1. /\ ChargeFor(sub) /\ sub' = [sub EXCEPT !.status = "active", !.end = "ahead"]
          /\ quotaPlan' = sub.plan
        BY <1>1, <1>4 DEF Activate
    <2>2. /\ sub.id \in Ids /\ sub'.id = sub.id /\ sub'.plan = sub.plan
          /\ sub'.status = "active" /\ sub'.end = "ahead"
        BY <1>1, <2>1, SubEdits DEF IInv
    <2>3. /\ payments'[sub.id] = payments[sub.id] + 1 /\ payments[sub.id] \in Nat
          /\ \A i \in Ids : i # sub.id => payments'[i] = payments[i]
          /\ \A i \in Ids : payments[i] \in Nat /\ elapsed[i] \in Nat /\ i \in Nat
          /\ starts \in Nat
        BY <2>1, <2>2, Charged
    <2>4. payments[sub.id] <= elapsed[sub.id]
        BY <1>1, <2>2, <2>3 DEF Sequential, Periods
    <2>5. Periods'
        BY <1>2, <2>2, <2>3, <2>4 DEF Sequential, Periods
    <2>6. Follows'
        BY <2>1, <2>2, <2>3 DEF Follows, InForce
    <2> QED
        BY <1>3, <2>5, <2>6 DEF Sequential
<1>5. CASE ~CanCharge(sub)
    <2>1. UNCHANGED <<sub, payments, quotaPlan>>
        BY <1>1, <1>5 DEF Activate, moneyVars
    <2>2. starts' >= starts
        BY <1>2 DEF IInv, RestTyped
    <2> QED
        BY <1>1, <1>2, <1>3, <2>1, <2>2, KeepPeriods, KeepFollows DEF Sequential
<1> QED
    BY <1>4, <1>5

\* StartSubscription deletes the old subscription, which nothing was paid for, or
\* fails to.
LEMMA StartReplacesAlone ==
    ASSUME IInv, IInv', Sequential, NEW h \in Handlers, StartReplaces(h) PROVE Sequential'
<1>1. PICK t : /\ task' = [task EXCEPT ![h] = t]
               /\ t # NoTask => t.step = "create" /\ t.id = task[h].id
    <2>1. LET t == [task[h] EXCEPT !.step = "create", !.seen = NoSub]
          IN  t.step = "create" /\ t.id = task[h].id
        BY AtStep DEF StartReplaces, Task
    <2> QED
        BY <2>1 DEF StartReplaces, Done
<1>2. /\ TaskFresh(task[h]) /\ task[h].step = "replace"
      /\ task'[h] = t /\ \A g \in Handlers \ {h} : task'[g] = NoTask
      /\ cron.phase = "idle" /\ ~Downgrading
    <2>1. At(h, "replace") /\ task' = [task EXCEPT ![h] = t]
        BY <1>1 DEF StartReplaces
    <2> QED
        BY <2>1, AtAlone, NotDowngrading
<1>3. UNCHANGED <<cron, payments, elapsed, quotaPlan, starts, faults>>
    BY DEF StartReplaces, boundVars, moneyVars
<1>4. task'[h] # NoTask => TaskFresh(task[h])'
    BY <1>1, <1>2, <1>3 DEF TaskFresh
<1>5. Alone' /\ Fresh'
    BY <1>2, <1>3, <1>4, OneRequest
<1>6. CASE sub' = sub
    <2>1. starts' >= starts
        BY <1>3 DEF IInv, RestTyped
    <2> QED
        BY <1>2, <1>3, <1>5, <1>6, <2>1, KeepPeriods, KeepFollows DEF Sequential
<1>7. CASE Deletable(sub) /\ sub' = NoSub
    <2>1. sub'.status = "none" /\ sub'.id = 0 /\ starts \in Nat
        BY <1>7, NoSubIsSub, BillingAssumption DEF IInv, RestTyped, BillingAssumption
    <2>2. Periods'
        BY <1>3, <2>1 DEF Sequential, Periods
    <2>3. InForce => sub.plan = Free
        BY <1>7 DEF Sequential, Follows, Deletable
    <2>4. faults = 0 => quotaPlan = Free
        BY <1>2, <2>3 DEF Sequential, Follows
    <2>5. Follows'
        BY <1>3, <2>1, <2>4 DEF Follows, InForce
    <2> QED
        BY <1>5, <2>2, <2>5 DEF Sequential
<1> QED
    BY <1>2, <1>6, <1>7 DEF StartReplaces, TaskFresh

\* It creates the new one, with an id nothing was paid for.
LEMMA StartCreatesAlone ==
    ASSUME IInv, IInv', Sequential, NEW h \in Handlers, StartCreates(h) PROVE Sequential'
<1>1. UNCHANGED <<cron, payments, elapsed, quotaPlan, starts, faults>>
    BY DEF StartCreates, boundVars, moneyVars
<1>2. At(h, "create")
    BY DEF StartCreates
<1>3. CASE sub = NoSub
    <2> DEFINE new == NewSub(task[h].id, task[h].plan)
    <2>1. PICK t : /\ task' = [task EXCEPT ![h] = t] /\ sub' = new
                   /\ t.seen = new
                   /\ t.step = IF new.plan = Free THEN "freeQuota" ELSE "activate"
        <3>1. LET t == [task[h] EXCEPT !.seen = new,
                                       !.step = IF new.plan = Free THEN "freeQuota"
                                                ELSE "activate"]
              IN  /\ task' = [task EXCEPT ![h] = t]
                  /\ t.seen = new
                  /\ t.step = IF new.plan = Free THEN "freeQuota" ELSE "activate"
            BY <1>2, <1>3, AtStep DEF StartCreates, Task
        <3> QED
            BY <1>3, <3>1 DEF StartCreates
    <2>2. /\ TaskFresh(task[h]) /\ task[h].step = "create"
          /\ task'[h] = t /\ \A g \in Handlers \ {h} : task'[g] = NoTask
          /\ cron.phase = "idle" /\ ~Downgrading
        BY <1>2, <2>1, AtAlone, NotDowngrading
    <2>3. task[h].id \in Ids /\ task[h].id <= starts /\ payments[task[h].id] = 0
        BY <2>2 DEF TaskFresh
    <2>4. /\ new.id = task[h].id /\ new.plan = task[h].plan /\ (new.end # "ahead" <=> new.plan # Free)
          /\ new.status = IF new.plan = Free THEN "active" ELSE "pending"
        BY DEF NewSub
    <2>5. TaskFresh(task[h])'
        BY <2>1, <2>2, <2>4 DEF TaskFresh
    <2>6. Alone' /\ Fresh'
        BY <1>1, <2>2, <2>5, OneRequest
    <2>7. Periods'
        BY <1>1, <2>1, <2>3, <2>4 DEF Sequential, Periods
    <2>8. faults = 0 => quotaPlan = Free
        BY <1>3, <2>2, NoSubIsSub DEF Sequential, Follows, InForce
    <2>9. Follows'
        BY <1>1, <2>1, <2>4, <2>8 DEF Follows, InForce
    <2> QED
        BY <2>6, <2>7, <2>9 DEF Sequential
<1>4. CASE sub # NoSub
    <2>1. task' = [task EXCEPT ![h] = NoTask] /\ sub' = sub
        BY <1>4 DEF StartCreates, Done
    <2>2. /\ task'[h] = NoTask /\ \A g \in Handlers \ {h} : task'[g] = NoTask
          /\ cron.phase = "idle" /\ ~Downgrading
        BY <1>2, <2>1, AtAlone, NotDowngrading
    <2>3. Alone' /\ Fresh'
        BY <1>1, <2>2, OneRequest
    <2>4. starts' >= starts
        BY <1>1 DEF IInv, RestTyped
    <2> QED
        BY <1>1, <2>1, <2>2, <2>3, <2>4, KeepPeriods, KeepFollows DEF Sequential
<1> QED
    BY <1>3, <1>4

\* A free subscription puts the free plan in the quota.
LEMMA FreeQuotaAlone ==
    ASSUME IInv, IInv', Sequential, NEW h \in Handlers, FreeQuotaFinds(h) \/ FreeQuotaSaves(h)
    PROVE  Sequential'
<1>1. UNCHANGED <<cron, sub, payments, elapsed, starts, faults>>
    BY DEF FreeQuotaFinds, FreeQuotaSaves, boundVars, moneyVars
<1>2. starts' >= starts
    BY <1>1 DEF IInv, RestTyped
<1>3. CASE FreeQuotaFinds(h)
    <2> DEFINE t == [task[h] EXCEPT !.step = "saveFree", !.plan = quotaPlan]
    <2>1. At(h, "freeQuota") /\ task' = [task EXCEPT ![h] = t] /\ quotaPlan' = quotaPlan
        BY <1>3 DEF FreeQuotaFinds
    <2>2. t.step = "saveFree" /\ t.plan = quotaPlan /\ t \in Task
        BY <2>1, AtStep DEF Task, Step, IInv, RestTyped
    <2> HIDE DEF t
    <2>3. /\ sub.plan = Free
          /\ task'[h] = t /\ \A g \in Handlers \ {h} : task'[g] = NoTask
          /\ cron.phase = "idle" /\ ~Downgrading
        BY <2>1, AtAlone, NotDowngrading DEF TaskFresh
    <2>4. TaskFresh(task[h])'
        BY <1>1, <2>1, <2>2, <2>3 DEF TaskFresh
    <2>5. Alone' /\ Fresh'
        BY <1>1, <2>3, <2>4, OneRequest
    <2>6. Follows'
        BY <1>1, <2>1, <2>3 DEF Sequential, Follows, InForce
    <2> QED
        BY <1>1, <1>2, <2>5, <2>6, KeepPeriods DEF Sequential
<1>4. CASE FreeQuotaSaves(h)
    <2>1. At(h, "saveFree") /\ task' = [task EXCEPT ![h] = NoTask]
        BY <1>4 DEF FreeQuotaSaves, Done
    <2>2. /\ sub.plan = Free /\ task[h].plan = quotaPlan
          /\ task'[h] = NoTask /\ \A g \in Handlers \ {h} : task'[g] = NoTask
          /\ cron.phase = "idle"
        BY <2>1, AtAlone DEF TaskFresh
    <2>3. quotaPlan' = Free
        BY <1>4, <2>2 DEF FreeQuotaSaves
    <2>4. Alone' /\ Fresh'
        BY <1>1, <2>2, OneRequest
    <2>5. Follows'
        BY <1>1, <2>2, <2>3 DEF Follows, InForce
    <2> QED
        BY <1>1, <1>2, <2>4, <2>5, KeepPeriods DEF Sequential
<1> QED
    BY <1>3, <1>4

\* An immediate cancellation, and the flag of one at the end of the period
LEMMA CancelSavesAlone ==
    ASSUME IInv, IInv', Sequential, NEW h \in Handlers, CancelSaves(h) \/ FlagSaves(h)
    PROVE  Sequential'
<1>1. UNCHANGED <<cron, payments, elapsed, quotaPlan, starts, faults>>
    BY DEF CancelSaves, FlagSaves, boundVars, moneyVars
<1>2. starts' >= starts
    BY <1>1 DEF IInv, RestTyped
<1>3. CASE CancelSaves(h)
    <2> DEFINE t == NewTask("downgrade")
    <2>1. t.step = "downgrade" /\ t # NoTask
        BY NewTaskIsTask, NoTaskAssumption DEF NoTaskAssumption, Step
    <2>2. At(h, "cancel") /\ task' = [task EXCEPT ![h] = t]
        BY <1>3 DEF CancelSaves
    <2> HIDE DEF t
    <2>3. /\ task[h].seen = sub
          /\ task'[h] = t /\ \A g \in Handlers \ {h} : task'[g] = NoTask
          /\ cron.phase = "idle"
        BY <2>2, AtAlone DEF TaskFresh
    <2>4. sub' = [sub EXCEPT !.status = "canceled"]
        BY <1>3, <2>3 DEF CancelSaves, SaveStatus
    <2>5. sub'.status = "canceled" /\ sub'.id = sub.id
        BY <2>4, SubEdits DEF IInv
    <2>6. TaskFresh(task[h])'
        BY <2>1, <2>3, <2>5 DEF TaskFresh
    <2>7. Alone' /\ Fresh'
        BY <1>1, <2>3, <2>6, OneRequest
    <2>8. Periods'
        BY <1>1, <2>5 DEF Sequential, Periods
    <2>9. Follows'
        BY <2>1, <2>3, <2>5 DEF Follows, InForce, Downgrading
    <2> QED
        BY <2>7, <2>8, <2>9 DEF Sequential
<1>4. CASE FlagSaves(h)
    <2>1. At(h, "flag") /\ task' = [task EXCEPT ![h] = NoTask]
        BY <1>4 DEF FlagSaves, Done
    <2>2. /\ task[h].seen = sub
          /\ task'[h] = NoTask /\ \A g \in Handlers \ {h} : task'[g] = NoTask
          /\ cron.phase = "idle" /\ ~Downgrading
        BY <2>1, AtAlone, NotDowngrading DEF TaskFresh
    <2>3. sub' = [sub EXCEPT !.cancel = TRUE]
        BY <1>4, <2>2 DEF FlagSaves
    <2>4. /\ sub'.status = sub.status /\ sub'.id = sub.id /\ sub'.plan = sub.plan
          /\ sub'.end = sub.end
        BY <2>3, SubEdits DEF IInv
    <2>5. Alone' /\ Fresh'
        BY <1>1, <2>2, OneRequest
    <2> QED
        BY <1>1, <1>2, <2>2, <2>4, <2>5, KeepPeriods, KeepFollows DEF Sequential
<1> QED
    BY <1>3, <1>4

\* downgradeToFreePlan of a request
LEMMA DowngradeAlone ==
    ASSUME IInv, IInv', Sequential, NEW h \in Handlers, DowngradeFinds(h) \/ DowngradeSaves(h)
    PROVE  Sequential'
<1>1. UNCHANGED <<cron, sub, payments, elapsed, starts, faults>>
    BY DEF DowngradeFinds, DowngradeSaves, boundVars, moneyVars
<1>2. starts' >= starts
    BY <1>1 DEF IInv, RestTyped
<1>3. CASE DowngradeFinds(h)
    <2> DEFINE t == [task[h] EXCEPT !.step = "saveQuota", !.plan = quotaPlan]
    <2>1. At(h, "downgrade") /\ task' = [task EXCEPT ![h] = t] /\ quotaPlan' = quotaPlan
        BY <1>3 DEF DowngradeFinds
    <2>2. t.step = "saveQuota" /\ t.plan = quotaPlan /\ t \in Task
        BY <2>1, AtStep DEF Task, Step, IInv, RestTyped
    <2> HIDE DEF t
    <2>3. /\ sub.status = "canceled"
          /\ task'[h] = t /\ \A g \in Handlers \ {h} : task'[g] = NoTask
          /\ cron.phase = "idle"
        BY <2>1, AtAlone DEF TaskFresh
    <2>4. TaskFresh(task[h])'
        BY <1>1, <2>1, <2>2, <2>3 DEF TaskFresh
    <2>5. Alone' /\ Fresh'
        BY <1>1, <2>3, <2>4, OneRequest
    <2>6. t # NoTask
        BY <2>2, NoTaskAssumption DEF NoTaskAssumption
    <2>7. Follows'
        BY <1>1, <2>2, <2>3, <2>6 DEF Follows, InForce, Downgrading
    <2> QED
        BY <1>1, <1>2, <2>5, <2>7, KeepPeriods DEF Sequential
<1>4. CASE DowngradeSaves(h)
    <2>1. At(h, "saveQuota") /\ task' = [task EXCEPT ![h] = NoTask]
        BY <1>4 DEF DowngradeSaves, Done
    <2>2. /\ sub.status = "canceled" /\ task[h].plan = quotaPlan
          /\ task'[h] = NoTask /\ \A g \in Handlers \ {h} : task'[g] = NoTask
          /\ cron.phase = "idle"
        BY <2>1, AtAlone DEF TaskFresh
    <2>3. quotaPlan' = Free
        BY <1>4, <2>2 DEF DowngradeSaves
    <2>4. Alone' /\ Fresh'
        BY <1>1, <2>2, OneRequest
    <2>5. Follows'
        BY <1>1, <2>2, <2>3 DEF Follows, InForce
    <2> QED
        BY <1>1, <1>2, <2>4, <2>5, KeepPeriods DEF Sequential
<1> QED
    BY <1>3, <1>4

\* While the cron works, no request does.
LEMMA CronAlone ==
    ASSUME Sequential, cron.phase # "idle", UNCHANGED task
    PROVE  /\ \A g \in Handlers : task'[g] = NoTask
           /\ cron.phase \notin {"downgrade", "saveQuota"} => ~Downgrading
BY DEF Sequential, Alone, Downgrading

\* The cron pursues what it reads.
LEMMA Pursues ==
    ASSUME IInv, NEW phase, NEW s, NEW next, Pursue(phase, s, next)
    PROVE  cron'.phase = phase /\ cron'.seen = s
BY DEF Pursue, IInv, PassOK, Pass

\* What the cron only reads about
LEMMA CronReads ==
    ASSUME IInv, IInv', Sequential, ~Downgrading,
           UNCHANGED <<moneyVars, sub, quotaPlan, task, boundVars, elapsed>>,
           \A g \in Handlers : task[g] = NoTask, PassFresh'
    PROVE  Sequential'
<1>1. UNCHANGED <<payments, quotaPlan, faults, starts>> /\ starts' >= starts
    BY DEF moneyVars, boundVars, IInv, RestTyped
<1>2. \A g \in Handlers : task'[g] = NoTask
    OBVIOUS
<1> QED
    BY <1>1, <1>2, OnePass, KeepPeriods, KeepFollows DEF Sequential

\* The steps of the cron that decide what is next
LEMMA CronDecidesAlone ==
    ASSUME ~Overlap, IInv, IInv', Sequential,
           CronStarts \/ RenewalReads \/ CronFinalizes \/ CronExpires
    PROVE  Sequential'
<1>1. UNCHANGED <<moneyVars, sub, quotaPlan, task, boundVars, elapsed>>
    BY DEF CronStarts, RenewalReads, CronFinalizes, CronExpires
<1>2. /\ \A g \in Handlers : task[g] = NoTask
      /\ ~Downgrading
    <2>1. CASE CronStarts
        BY <2>1 DEF CronStarts, Quiet, Downgrading
    <2>2. CASE RenewalReads \/ CronFinalizes \/ CronExpires
        BY <1>1, <2>2, CronAlone DEF RenewalReads, CronFinalizes, CronExpires
    <2> QED
        BY <2>1, <2>2
<1>3. ASSUME NEW phase \in {"finalize", "expire"}, NEW next, Pursue(phase, NoSub, next)
      PROVE  PassFresh'
    BY <1>3, Pursues DEF PassFresh
<1>4. ASSUME NEW phase \in {"due", "charge"}, NEW next, Pursue(phase, sub, next),
             sub.status = "active", sub.end # "ahead"
      PROVE  PassFresh'
    BY <1>1, <1>4, Pursues DEF PassFresh
<1>5. ASSUME NEW next, Pursue("cancel", sub, next)
      PROVE  PassFresh'
    BY <1>1, <1>5, Pursues DEF PassFresh
<1>6. CASE CronStarts
    <2>1. PassFresh'
        BY <1>3, <1>4, <1>6 DEF CronStarts, RenewalDue
    <2> QED
        BY <1>1, <1>2, <2>1, CronReads
<1>7. CASE RenewalReads
    <2>1. sub.end # "ahead"
        BY <1>7 DEF RenewalReads, Sequential, Fresh, PassFresh
    <2>2. PassFresh'
        BY <1>3, <1>4, <1>5, <1>7, <2>1 DEF RenewalReads
    <2> QED
        BY <1>1, <1>2, <2>2, CronReads
<1>8. CASE CronFinalizes
    <2>1. PassFresh'
        BY <1>3, <1>5, <1>8 DEF CronFinalizes
    <2> QED
        BY <1>1, <1>2, <2>1, CronReads
<1>9. CASE CronExpires
    <2>1. PassFresh'
        <3>1. CASE GraceOver(sub)
            BY <1>5, <1>9, <3>1 DEF CronExpires
        <3>2. CASE ~GraceOver(sub)
            BY <1>9, <3>2, NoSubIsSub DEF CronExpires, PassFresh
        <3> QED
            BY <3>1, <3>2
    <2> QED
        BY <1>1, <1>2, <2>1, CronReads
<1> QED
    BY <1>6, <1>7, <1>8, <1>9

\* A renewal: the payment of the period that ended, and the next one may have
\* ended as well.
LEMMA RenewalChargesAlone ==
    ASSUME IInv, IInv', Sequential, RenewalCharges PROVE Sequential'
<1>1. /\ cron.seen = sub /\ sub.status = "active" /\ sub.end # "ahead"
    BY DEF RenewalCharges, Sequential, Fresh, PassFresh
<1>2. UNCHANGED <<quotaPlan, task, starts, faults>>
    BY DEF RenewalCharges, boundVars
<1>3. (\A g \in Handlers : task[g] = NoTask /\ task'[g] = NoTask) /\ ~Downgrading
    BY <1>2, CronAlone DEF RenewalCharges
<1>4. CASE CanCharge(sub)
    <2>1. PICK end \in {"ahead", "reached"} :
             /\ sub' = [sub EXCEPT !.end = end]
             /\ elapsed' = IF end = "ahead" THEN elapsed
                           ELSE [elapsed EXCEPT ![sub.id] = @ + 1]
        BY <1>1, <1>4 DEF RenewalCharges
    <2>2. ChargeFor(sub) /\ Pursue("finalize", NoSub, "expire")
        BY <1>1, <1>4 DEF RenewalCharges
    <2>3. /\ sub.id \in Ids /\ sub'.id = sub.id /\ sub'.plan = sub.plan
          /\ sub'.status = "active" /\ sub'.end = end
        BY <1>1, <2>1, SubEdits DEF IInv, PeriodEnd
    <2>4. /\ payments'[sub.id] = payments[sub.id] + 1 /\ payments[sub.id] \in Nat
          /\ \A i \in Ids : i # sub.id => payments'[i] = payments[i]
          /\ \A i \in Ids : payments[i] \in Nat /\ elapsed[i] \in Nat /\ i \in Nat
          /\ starts \in Nat
        BY <2>2, <2>3, Charged
    <2>5. payments[sub.id] <= elapsed[sub.id] /\ sub.id <= starts
        BY <1>1 DEF Sequential, Periods
    <2>6. /\ elapsed'[sub.id] = IF end = "ahead" THEN elapsed[sub.id] ELSE elapsed[sub.id] + 1
          /\ \A i \in Ids : i # sub.id => elapsed'[i] = elapsed[i]
        BY <2>1, <2>3 DEF IInv, RestTyped
    <2>7. \A i \in Ids : payments'[i] <= 1 + elapsed'[i]
        BY <2>4, <2>5, <2>6 DEF Sequential, Periods
    <2>8. \A i \in Ids : i > starts => payments'[i] = 0
        BY <2>3, <2>4, <2>5 DEF Sequential, Periods
    <2>9. end # "ahead" => payments'[sub.id] <= elapsed'[sub.id]
        BY <2>3, <2>4, <2>5, <2>6
    <2>10. Periods'
        BY <1>2, <2>3, <2>5, <2>7, <2>8, <2>9 DEF Periods
    <2>11. Follows'
        <3>1. faults = 0 => quotaPlan = sub.plan
            BY <1>1, <1>3 DEF Sequential, Follows, InForce
        <3> QED
            BY <1>2, <2>3, <2>4, <3>1 DEF Follows, InForce
    <2>12. PassFresh'
        BY <2>2, Pursues DEF PassFresh
    <2> QED
        BY <1>3, <2>10, <2>11, <2>12, OnePass DEF Sequential
<1>5. CASE ~CanCharge(sub)
    <2>1. UNCHANGED <<moneyVars, sub, elapsed>> /\ Pursue("unpaid", sub, "finalize")
        BY <1>1, <1>5 DEF RenewalCharges
    <2>2. PassFresh'
        BY <1>1, <2>1, Pursues DEF PassFresh
    <2>3. UNCHANGED boundVars
        BY <1>2 DEF boundVars
    <2> QED
        BY <1>2, <1>3, <2>1, <2>2, <2>3, CronReads
<1> QED
    BY <1>4, <1>5

\* A renewal that is not paid for, and the saves of a cancellation
LEMMA CronSavesAlone ==
    ASSUME IInv, IInv', Sequential, RenewalFails \/ CronCancels PROVE Sequential'
<1>1. /\ cron.seen = sub
      /\ UNCHANGED <<payments, quotaPlan, task, starts, faults, elapsed>>
    BY DEF RenewalFails, CronCancels, moneyVars, boundVars, Sequential, Fresh, PassFresh
<1>2. (\A g \in Handlers : task[g] = NoTask /\ task'[g] = NoTask) /\ ~Downgrading
    BY <1>1, CronAlone DEF RenewalFails, CronCancels
<1>3. CASE RenewalFails
    <2>1. sub' = [sub EXCEPT !.status = "past_due"] /\ sub.status = "active" /\ sub.end # "ahead"
        BY <1>1, <1>3 DEF RenewalFails, SaveStatus, Sequential, Fresh, PassFresh
    <2>2. /\ sub'.status = "past_due" /\ sub'.id = sub.id /\ sub'.plan = sub.plan
          /\ sub'.end = sub.end
        BY <2>1, SubEdits DEF IInv
    <2>3. PassFresh'
        BY <1>3, Pursues DEF RenewalFails, PassFresh
    <2>4. Periods'
        BY <1>1, <2>1, <2>2 DEF Sequential, Periods
    <2>5. Follows'
        BY <1>1, <1>2, <2>1, <2>2 DEF Sequential, Follows, InForce
    <2> QED
        BY <1>2, <2>3, <2>4, <2>5, OnePass DEF Sequential
<1>4. CASE CronCancels
    <2>1. sub' = [sub EXCEPT !.status = "canceled"]
        BY <1>1, <1>4 DEF CronCancels, SaveStatus
    <2>2. sub'.status = "canceled" /\ sub'.id = sub.id
        BY <2>1, SubEdits DEF IInv
    <2>3. cron'.phase = "downgrade"
        BY <1>4, Pursues DEF CronCancels
    <2>4. PassFresh'
        BY <2>2, <2>3 DEF PassFresh
    <2>5. Periods'
        BY <1>1, <2>2 DEF Sequential, Periods
    <2>6. Follows'
        BY <2>2, <2>3 DEF Follows, InForce, Downgrading
    <2> QED
        BY <1>2, <2>4, <2>5, <2>6, OnePass DEF Sequential
<1> QED
    BY <1>3, <1>4

\* downgradeToFreePlan of the cron
LEMMA CronDowngradeAlone ==
    ASSUME IInv, IInv', Sequential, CronDowngradeFinds \/ CronDowngradeSaves
    PROVE  Sequential'
<1>1. /\ sub.status = "canceled" /\ UNCHANGED <<sub, payments, task, starts, faults, elapsed>>
      /\ starts' >= starts
    BY DEF CronDowngradeFinds, CronDowngradeSaves, moneyVars, boundVars, Sequential, Fresh,
           PassFresh, IInv, RestTyped
<1>2. \A g \in Handlers : task[g] = NoTask /\ task'[g] = NoTask
    BY <1>1, CronAlone DEF CronDowngradeFinds, CronDowngradeSaves
<1>3. CASE CronDowngradeFinds
    <2>1. cron'.phase = "saveQuota" /\ cron'.plan = quotaPlan /\ quotaPlan' = quotaPlan
        BY <1>3 DEF CronDowngradeFinds, IInv, PassOK, Pass
    <2>2. PassFresh'
        BY <1>1, <2>1 DEF PassFresh
    <2>3. Follows'
        BY <1>1, <2>1 DEF Follows, InForce, Downgrading
    <2> QED
        BY <1>1, <1>2, <2>2, <2>3, OnePass, KeepPeriods DEF Sequential
<1>4. CASE CronDowngradeSaves
    <2>1. cron.plan = quotaPlan
        BY <1>4 DEF CronDowngradeSaves, Sequential, Fresh, PassFresh
    <2>2. quotaPlan' = Free
        BY <1>4, <2>1 DEF CronDowngradeSaves
    <2>3. cron'.phase \in {"idle", "finalize", "expire"}
        BY <1>4, PassHolds, NoSubIsSub DEF CronDowngradeSaves, IInv, Pass
    <2>4. PassFresh'
        BY <2>3 DEF PassFresh
    <2>5. Follows'
        BY <1>1, <2>2 DEF Follows, InForce
    <2> QED
        BY <1>1, <1>2, <2>4, <2>5, OnePass, KeepPeriods DEF Sequential
<1> QED
    BY <1>3, <1>4

\* Time passes only while nobody is at work; a crash leaves nobody.
LEMMA EnvironmentAlone ==
    ASSUME ~Overlap, IInv, IInv', Sequential, PeriodEnds \/ GraceEnds \/ Crash
    PROVE  Sequential'
<1>1. UNCHANGED <<payments, quotaPlan, starts>> /\ starts' >= starts
    BY DEF PeriodEnds, GraceEnds, Crash, moneyVars, boundVars, IInv, RestTyped
<1>2. CASE Crash
    <2>1. (\A g \in Handlers : task'[g] = NoTask) /\ cron'.phase = "idle"
        BY <1>2, NoSubIsSub DEF Crash
    <2>2. PassFresh'
        BY <2>1 DEF PassFresh
    <2>3. UNCHANGED <<sub, elapsed>> /\ faults' # 0
        BY <1>2 DEF Crash, IInv, RestTyped
    <2>4. Follows'
        BY <1>1, <2>3 DEF Sequential, Follows, InForce
    <2> QED
        BY <1>1, <2>1, <2>2, <2>3, <2>4, OnePass, KeepPeriods DEF Sequential
<1>3. CASE PeriodEnds \/ GraceEnds
    <2>1. /\ \A g \in Handlers : task[g] = NoTask /\ task'[g] = NoTask
          /\ cron'.phase = "idle" /\ cron.phase = "idle" /\ UNCHANGED faults
        BY <1>3 DEF PeriodEnds, GraceEnds, Quiet, boundVars
    <2>2. PassFresh' /\ ~Downgrading
        BY <2>1 DEF PassFresh, Downgrading
    <2>3. PICK end \in {"reached", "graceOver"} :
             /\ sub' = [sub EXCEPT !.end = end] /\ sub.status \in {"active", "past_due"}
             /\ elapsed' = IF end = "reached" THEN [elapsed EXCEPT ![sub.id] = @ + 1]
                           ELSE elapsed
             /\ sub.end = IF end = "reached" THEN "ahead" ELSE "reached"
        BY <1>3 DEF PeriodEnds, GraceEnds
    <2>4. /\ sub.id \in Ids /\ sub'.status = sub.status /\ sub'.id = sub.id
          /\ sub'.plan = sub.plan /\ sub'.end = end
        BY <2>3, SubEdits DEF IInv, PeriodEnd
    <2>5. \A i \in Ids : payments[i] \in Nat /\ elapsed[i] \in Nat
        BY DEF IInv, MoneyTyped, RestTyped
    <2>6. /\ elapsed'[sub.id] = IF end = "reached" THEN elapsed[sub.id] + 1 ELSE elapsed[sub.id]
          /\ \A i \in Ids : i # sub.id => elapsed'[i] = elapsed[i]
        BY <2>3, <2>4 DEF IInv, RestTyped
    <2>7. /\ sub.id <= starts /\ sub.status # "pending"
          /\ payments[sub.id] <= 1 + elapsed[sub.id]
          /\ sub.end # "ahead" => payments[sub.id] <= elapsed[sub.id]
          /\ \A i \in Ids : i > starts => payments[i] = 0
        BY <2>3, <2>4 DEF Sequential, Periods
    <2>8. \A i \in Ids : payments[i] <= 1 + elapsed'[i]
        BY <2>5, <2>6, <2>7 DEF Sequential, Periods
    <2>9. payments[sub.id] <= elapsed'[sub.id]
        BY <2>3, <2>4, <2>5, <2>6, <2>7
    <2>10. Periods'
        BY <1>1, <2>3, <2>4, <2>7, <2>8, <2>9 DEF Periods
    <2> QED
        BY <1>1, <2>1, <2>2, <2>4, <2>10, OnePass, KeepFollows DEF Sequential
<1> QED
    BY <1>2, <1>3

\* What changes none of it
LEMMA IdleAlone ==
    ASSUME IInv, Sequential,
           UNCHANGED <<sub, payments, quotaPlan, task, cron, starts, faults, elapsed>>
    PROVE  Sequential'
<1>1. Alone' /\ Periods' /\ PassFresh'
    BY DEF Sequential, Alone, Periods, Fresh, PassFresh
<1>2. ASSUME NEW h \in Handlers, task[h] # NoTask PROVE TaskFresh(task[h])'
    BY <1>2 DEF Sequential, Fresh, TaskFresh
<1>3. Follows'
    BY DEF Sequential, Follows, InForce, Downgrading
<1> QED
    BY <1>1, <1>2, <1>3 DEF Sequential, Fresh

\* Nothing was begun at first.
LEMMA InitSequential == Init => Sequential
<1> SUFFICES ASSUME Init PROVE Sequential
    OBVIOUS
<1>1. cron.phase = "idle" /\ (\A h \in Handlers : task[h] = NoTask)
    BY NoSubIsSub DEF Init
<1>2. Alone /\ Fresh
    BY <1>1 DEF Alone, Fresh, PassFresh
<1>3. Periods
    BY NoSubIsSub DEF Init, Periods
<1>4. Follows
    BY NoSubIsSub DEF Init, Follows, InForce
<1> QED
    BY <1>2, <1>3, <1>4 DEF Sequential

\* Every step keeps it while nothing overlaps.
LEMMA NextSequential ==
    ASSUME ~Overlap PROVE IInv /\ Sequential /\ [Next]_vars => IInv' /\ Sequential'
<1> SUFFICES ASSUME IInv, Sequential, [Next]_vars PROVE IInv' /\ Sequential'
    OBVIOUS
<1>1. IInv'
    BY NextIInv
<1>2. ASSUME NEW h \in Handlers, Request(h) PROVE Sequential'
    BY <1>1, <1>2, CreditAlone, StartFindsAlone, CancelFindsAlone DEF Request
<1>3. ASSUME NEW h \in Handlers, Proceed(h) PROVE Sequential'
    BY <1>1, <1>3, ReadSubAlone, ActivateAlone, StartReplacesAlone, StartCreatesAlone,
       FreeQuotaAlone, CancelSavesAlone, DowngradeAlone DEF Proceed
<1>4. ASSUME NEW code \in Promos, Redeem(code) PROVE Sequential'
    BY <1>4, IdleAlone DEF Redeem, boundVars
<1>5. CASE CronStep
    BY <1>1, <1>5, CronDecidesAlone, RenewalChargesAlone, CronSavesAlone, CronDowngradeAlone
       DEF CronStep
<1>6. CASE PeriodEnds \/ GraceEnds \/ Crash
    BY <1>1, <1>6, EnvironmentAlone
<1>7. CASE UNCHANGED vars
    BY <1>1, <1>7, IdleAlone DEF vars
<1> QED
    BY <1>1, <1>2, <1>3, <1>4, <1>5, <1>6, <1>7 DEF Next

\* The sequential invariant.
LEMMA SequentialInvariance == ASSUME ~Overlap PROVE Spec => [](IInv /\ Sequential)
BY InitIInv, InitSequential, NextSequential, PTL DEF Spec

\* While no two requests or cron passes overlap, and wherever the process dies,
\* activations (by a deposit or by a start) and renewals together charge a
\* subscription once for every period it ran, for any plans, prices and deposits
\* and any number of starts and outages.
THEOREM ChargedOncePerPeriod == ASSUME ~Overlap PROVE Spec => []OneChargePerPeriod
<1>1. IInv /\ Sequential => OneChargePerPeriod
    BY DEF Sequential, Periods, OneChargePerPeriod
<1> QED
    BY <1>1, SequentialInvariance, PTL

\* Without overlaps and crashes the plan in user_quotas, which every path writes in
\* a save of its own, is that of the subscription in force, and the free plan when
\* none is.
THEOREM QuotaIsThePlan == ASSUME ~Overlap PROVE Spec => []QuotaFollowsSubscription
<1>1. IInv /\ Sequential => QuotaFollowsSubscription
    BY DEF Sequential, Follows, QuotaFollowsSubscription, Downgrading, InForce
<1> QED
    BY <1>1, SequentialInvariance, PTL

\* While nothing overlaps, nothing is taken for a cancelled subscription: neither
\* creditAndActivate nor StartSubscription nor the cron revives it.
THEOREM CanceledIsNotCharged == ASSUME ~Overlap PROVE Spec => NoChargeAfterCancel
<1> DEFINE A == sub.status = "canceled" => payments' = payments
<1>1. IInv /\ Sequential /\ [Next]_vars => [A]_vars
    <2> SUFFICES ASSUME IInv, Sequential, Next, sub.status = "canceled"
                 PROVE  payments' = payments
        OBVIOUS
    <2>1. ASSUME NEW h \in Handlers, Activate(h) PROVE FALSE
        BY <2>1 DEF Activate, At, Sequential, Fresh, TaskFresh
    <2>2. CASE RenewalCharges
        BY <2>2 DEF RenewalCharges, Sequential, Fresh, PassFresh
    <2>3. ASSUME NEW h \in Handlers, Request(h) PROVE payments' = payments
        BY <2>3 DEF Request, Credit, StartFinds, CancelFinds, moneyVars
    <2>4. ASSUME NEW h \in Handlers, Proceed(h) PROVE payments' = payments
        BY <2>1, <2>4 DEF Proceed, ReadSub, StartReplaces, StartCreates, FreeQuotaFinds,
           FreeQuotaSaves, CancelSaves, FlagSaves, DowngradeFinds, DowngradeSaves, moneyVars
    <2>5. ASSUME NEW code \in Promos, Redeem(code) PROVE payments' = payments
        BY <2>5 DEF Redeem
    <2>6. CASE CronStep
        BY <2>2, <2>6 DEF CronStep, CronStarts, RenewalReads, RenewalFails, CronFinalizes,
           CronExpires, CronCancels, CronDowngradeFinds, CronDowngradeSaves, moneyVars
    <2>7. CASE PeriodEnds \/ GraceEnds \/ Crash
        BY <2>7 DEF PeriodEnds, GraceEnds, Crash, moneyVars
    <2> QED
        BY <2>3, <2>4, <2>5, <2>6, <2>7 DEF Next
<1> HIDE DEF A
<1>2. Spec => [][A]_vars
    BY <1>1, SequentialInvariance, PTL DEF Spec
<1> QED
    BY <1>2 DEF A, NoChargeAfterCancel
=============================================================================
