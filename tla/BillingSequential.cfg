\* No two find-to-save windows overlap; one crash anywhere.
CONSTANTS
    yearly = yearly
    Txs = {t1, t2, t3}
    Promos = {promo}
    Amount <- MCAmount
    PaidPlans = {monthly, yearly}
    Free = free
    Price <- MCPrice
    Handlers = {h1}
    NoTask = NoTask
    MaxStarts = 3
    MaxFaults = 1
    Overlap = FALSE
SPECIFICATION Spec
INVARIANTS
    TypeOK
    OneChargePerPeriod
    QuotaFollowsSubscription
PROPERTIES
    NoChargeAfterCancel
CHECK_DEADLOCK FALSE
