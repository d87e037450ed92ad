SPECIFICATION FairSpec
CONSTANTS
    best = best
    backup = backup
    domain = domain
    Mxes <- Exchanges
    Preference <- Preferences
    Domain = domain
    Addresses <- AddressesOf
    Blocks = 1
    Codes <- AllCodes
    Sizes = {1, 2}
    Capacity = 1
    MinFree = 1
    MaxUnasked = 0
INVARIANTS
    ResultIsTruthful
    AtMostOneTakes
    ClearOnlyIfAllowed
PROPERTIES
    AttemptEnds
CHECK_DEADLOCK FALSE
