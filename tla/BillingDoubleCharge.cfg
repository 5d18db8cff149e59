\* Two top-ups, or a top-up and a start, at once.
CONSTANTS
    yearly = yearly
    Txs = {t1, t2}
    Promos = {}
    Amount <- MCAmount
    PaidPlans = {monthly}
    Free = free
    Price <- MCPrice
    Handlers = {h1, h2}
    NoTask = NoTask
    MaxStarts = 2
    MaxFaults = 0
    Overlap = TRUE
SPECIFICATION Spec
PROPERTIES
    ActivatesOnlyUnpaid
CHECK_DEADLOCK FALSE
