SPECIFICATION LibrariesSpec
CONSTANTS
    u1 = u1
    u2 = u2
    u3 = u3
    u4 = u4
    UrlOf <- MCUrlOf
    Ignored = {2}
    Urls = {u1, u2, u3, u4}
    PerPage = 2
    MaxPage = 3
    MaxRequests = 2
    MaxFails = 1
    MaxEdits = 1
    MaxOpens = 2
INVARIANTS
    AcceptedIsChain
PROPERTIES
    ScrollingReachesAll
CHECK_DEADLOCK FALSE
