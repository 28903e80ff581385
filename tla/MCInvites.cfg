SPECIFICATION FairSpec
CONSTANTS
    paid = paid
    free = free
    Org = o1
    Orgs = {o1}
    Amounts <- MCAmounts
    Invites = {paid, free}
    Sessions = {s1, s2}
    PriceOf <- MCPriceOf
    MaxFaults = 1
    MaxCalls = 3
    NoInvite = NoInvite
INVARIANTS
    TypeOK
    RefundsHaveCause
    BillingStatusIsTrue
    JoinsArePaidFor
PROPERTIES
    AcceptedIsFinal
    PendingEnds
CHECK_DEADLOCK FALSE
