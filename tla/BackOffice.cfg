SPECIFICATION Spec
CONSTANTS
    Orders = {1, 2}
    Manual = {1, 2}
    Visits = {rec, v1}
    Reconciler = rec
    Limit = 1
    MaxFaults = 1
    Listings = {l1, l2, l3}
    Accounts = {a1}
    Tasks = {t1, t2}
    Quota = 1
    BatchSize = 2
    Templated = {1}
    MaxDays = 1
    MaxTrouble = 2
    MaxAttempts = 2
    p1 = p1
    p2 = p2
    i1 = i1
    Profiles = {p1, p2}
    Items = {i1, i2}
    Tx = {x1, x2}
    None = None
    MaxBegun = 5
    Requests = {q1, q2}
    MaxWebhooks = 2
    MaxFailures = 1
    Stops = {s1}
    MaxPolls = 2
    MaxRetries = 2
    Resource1 = Resource1
    Resource2 = Resource2
    MaxTime = 2
    MaxRuns = 2
    MaxDeaths = 1
INVARIANTS
    TypeOK
    CancelledIsCancelled
    PaidIsRecorded
    StepsAreSentOnce
    QuotasHold
    StopsAfterOneMessage
    CompletedIsTreated
    OneActive
    
    LeaksAreFaults
    LeasesHold
    CheckpointsFollowRuns
    RepliesReachContacts
PROPERTIES
    NumbersEnd
    CreationsEnd
    RequestsEnd
    WorkflowEnds
CHECK_DEADLOCK FALSE
