SPECIFICATION Spec
CONSTANTS
    o1 = o1
    top = top
    plan = plan
    renew = renew
    upd = upd
    oth = oth
    Orgs = {o1}
    Amounts <- MCAmounts
    Events = {renew, upd}
    Handlers = {h1, h2}
    Kind <- MCKind
    OrgOf <- MCOrgOf
    CreditOf <- MCCreditOf
    MaxFaults = 2
    NoEvent = NoEvent
INVARIANTS
    TypeOK
    DoubleCreditHasCause
    ProcessedMeansCredited
    ClosedSubscriptionsAreCurrent
PROPERTIES
    ClosedIsFinal
