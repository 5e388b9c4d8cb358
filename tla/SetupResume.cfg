SPECIFICATION FairSpec
CONSTANTS
    t1 = t1
    t2 = t2
    policy = policy
    contact = contact
    e1 = e1
    Tabs = {t1, t2}
    Categories <- MCOneCategory
    Emails = {}
    DefaultEmail = "default"
    MaxCalls = 1
    MaxLoads = 3
    MaxBreaks = 0
PROPERTIES
    LoadSettles
CHECK_DEADLOCK FALSE
