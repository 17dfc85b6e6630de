SPECIFICATION Spec
CONSTANTS
    Listings = {l1, l2, l3}
    Accounts = {a1}
    Tasks = {t1}
    Quota = 3
    BatchSize = 1
    Templated = {}
    MaxDays = 1
    MaxTrouble = 0
PROPERTIES
    BacklogIsTreated
CHECK_DEADLOCK FALSE
