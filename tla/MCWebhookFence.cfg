SPECIFICATION Spec
CONSTANTS
    o1 = o1
    top = top
    plan = plan
    renew = renew
    upd = upd
    oth = oth
    Orgs = {o1}
    Amounts <- MCAmounts
    Events = {renew}
    Handlers = {h1}
    Kind <- MCKind
    OrgOf <- MCOrgOf
    CreditOf <- MCCreditOf
    MaxFaults = 1
    NoEvent = NoEvent
INVARIANTS
    NeverDoubleCredited
