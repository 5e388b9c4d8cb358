SPECIFICATION Spec
CONSTANTS
    t1 = t1
    t2 = t2
    policy = policy
    contact = contact
    e1 = e1
    Tabs = {t1, t2}
    Categories <- MCOneCategory
    Emails = {e1}
    DefaultEmail = "default"
    MaxCalls = 2
    MaxLoads = 2
    MaxBreaks = 1
INVARIANTS
    TypeOK
    OneWayIn
    AskedInOrder
    KnowledgeComplete
    CompleteMeansAdmin
PROPERTIES
    OnlyAdmittedReopens
CHECK_DEADLOCK FALSE
SYMMETRY TabSymmetry
