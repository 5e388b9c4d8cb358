SPECIFICATION Spec
CONSTANTS
    founder = founder
    ada = ada
    Accounts = {founder, ada}
    Founder = founder
    Policies <- MCPolicies
    MaxRequests = 1
INVARIANTS
    DeactivationSticks
CHECK_DEADLOCK FALSE
