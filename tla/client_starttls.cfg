SPECIFICATION Spec
CONSTANTS
    best = best
    backup = backup
    domain = domain
    Mxes = {best}
    Preference <- OnePreference
    Domain = domain
    Addresses <- OneAddress
    Blocks = 1
    Codes <- FewCodes
    Sizes = {1, 2, 4}
    Capacity = 3
    MinFree = 1
    MaxUnasked = 1
PROPERTIES
    NothingReadAhead
CHECK_DEADLOCK FALSE
