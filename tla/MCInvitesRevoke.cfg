SPECIFICATION Spec
CONSTANTS
    paid = paid
    free = free
    Org = o1
    Orgs = {o1}
    Amounts <- MCAmounts
    Invites = {paid}
    Sessions = {s1, s2}
    PriceOf <- MCPriceOf
    MaxFaults = 0
    MaxCalls = 3
    NoInvite = NoInvite
PROPERTIES
    AcceptedCannotBeRevoked
CHECK_DEADLOCK FALSE
