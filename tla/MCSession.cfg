SPECIFICATION FairSpec
CONSTANT
    Steps = 2
INVARIANTS
    TypeOK
    SecondRunHasCause
    DeadSessionHoldsNobody
PROPERTIES
    CallsSpec
