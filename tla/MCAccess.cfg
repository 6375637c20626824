SPECIFICATION Spec
CONSTANTS
    Requests = {r1, r2}
    Addresses = {client, proxy}
    Proxy = proxy
    None = none
    Threshold = 2
    Cost = 2
    Capacity = 4
    MaxLag = 1
    MaxClock = 2
SYMMETRY RequestSymmetry
INVARIANTS BlockedForOwnFailures BlocksAreLogged RateHolds PatienceIsRewarded
PROPERTIES LimiterSpec
