\* One tab, an administrator and a user; everything the network and the clock may do.
CONSTANTS
    Accounts = {admin, user}
    Admins = {admin}
    Tabs = {t1}
    Nobody = Nobody
    NoToken = NoToken
    QueryRetries = 1
    MaxFlights = 1
    MaxLogins = 2
    MaxEvents = 1
SPECIFICATION FairSpec
INVARIANTS
    TypeOK
    AfterLogoutNothingOld
PROPERTIES
    SessionOutlivesErrors
    VoidedSessionEnds
    ShownUserCatchesUp
CHECK_DEADLOCK FALSE
