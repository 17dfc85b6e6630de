SPECIFICATION FairSpec
CONSTANTS
    c1 = c1
    s1 = s1
    s2 = s2
    e1 = e1
    e2 = e2
    t1 = t1
    t2 = t2
    None = None
    Contacts = {c1}
    Sequences = {s1}
    ContactOf <- MCContactOf
    Events = {e1, e2}
    SenderOf <- MCSenderOf
    KindOf <- MCKindOf
    Tasks = {t1}
    LastStep = 1
    DueOf <- MCDueOf
    SplitSteps = {}
    Limit = 2
    MaxWeek = 1
    WindowCloses = TRUE
    MaxFaults = 0
    MaxCrashes = 1
PROPERTIES
    EventsAreProcessed
    
CHECK_DEADLOCK FALSE
