SPECIFICATION FairSpec
CONSTANTS
    o1 = o1
    top = top
    plan = plan
    renew = renew
    upd = upd
    oth = oth
    Orgs = {o1}
    Amounts <- MCAmounts
    Events = {top, plan}
    Handlers = {h1, h2}
    Kind <- MCKind
    OrgOf <- MCOrgOf
    CreditOf <- MCCreditOf
    MaxFaults = 1
    NoEvent = NoEvent
PROPERTIES
    EventuallyCredited
