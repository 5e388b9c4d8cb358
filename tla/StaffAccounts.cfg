SPECIFICATION FairSpec
CONSTANTS
    founder = founder
    ada = ada
    Accounts = {founder, ada}
    Founder = founder
    Policies <- MCPolicies
    MaxRequests = 1
INVARIANTS
    TypeOK
    PendingNeverSignedIn
    NobodyStranded
    AdminRemains
PROPERTIES
    SessionsCatchUp
    OnlyFirstVerificationReturns
CHECK_DEADLOCK FALSE
