SPECIFICATION FairSpec
CONSTANTS
    None = None
    MaxWrites = 2
    MaxTrouble = 1
    MaxVisits = 2
INVARIANTS TypeOK ReadYourWrites NoLeakedSubscription
PROPERTIES OwedChangeShows
CHECK_DEADLOCK FALSE
