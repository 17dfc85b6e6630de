SPECIFICATION FairSpec
CONSTANTS
    c1 = c1
    l1 = l1
    l2 = l2
    l3 = l3
    p1 = p1
    p2 = p2
    k1 = k1
    k2 = k2
    k3 = k3
    r1 = r1
    r2 = r2
    r3 = r3
    None = None
    Campaigns = {c1}
    Listings = {l1, l2}
    Phones = {p1}
    OptOuts = {}
    Keys = {k1, k2}
    Requests = {r1, r2}
    PhoneOf <- MCPhoneOf
    ScopeOf <- MCScopeOf
    Routes = {"campaign", "workflow", "legacy"}
    BatchSize = 1
    Concurrency = 2
    SimQuota = 1
    WindowCloses = TRUE
    MaxFaults = 0
    MaxCrashes = 0
INVARIANTS
    CountersKept
    RepeatsAreBounded
PROPERTIES
    CampaignSettles
CHECK_DEADLOCK FALSE
