SPECIFICATION Spec
SYMMETRY Symmetry
CONSTANTS
    Workers = {w1}
    Editors = {e1, e2}
    Kinds = {"weekly"}
    Role = "owner"
    MaxDays = 0
    MaxFaults = 1
INVARIANTS
    TypeOK
    OptOutsHold
PROPERTIES
    OptedOutGetNothing
