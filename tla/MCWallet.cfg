SPECIFICATION FairSpec
CONSTANTS
    Orgs = {o1}
    Amounts <- MCAmounts
    Callers = {c1, c2}
    MaxCalls = 4
    MaxFaults = 1
    NoOne = NoOne
    NoJob = NoJob
INVARIANTS
    TypeOK
    LedgerExplainsBalance
    UsageEventsArePaid
    PaidUsageIsRecorded
PROPERTIES
    WalletSpec
    CallsEnd
CHECK_DEADLOCK FALSE
