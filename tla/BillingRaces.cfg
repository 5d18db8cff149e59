\* Webhooks, requests and the cron overlap; one crash anywhere; time passes.
CONSTANTS
    yearly = yearly
    Txs = {t1, t2}
    Promos = {}
    Amount <- MCAmount
    PaidPlans = {monthly}
    Free = free
    Price <- MCPrice
    Handlers = {h1, h2}
    NoTask = NoTask
    MaxStarts = 1
    MaxFaults = 1
    Overlap = TRUE
SPECIFICATION FairSpec
PROPERTIES
    LedgerImplemented
    CancelTakesEffect
    PastDueEnds
CHECK_DEADLOCK FALSE
