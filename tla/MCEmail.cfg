SPECIFICATION FairSpec
CONSTANTS
    Workers = {w1, w2}
    Editors = {}
    Kinds = {"lifecycle", "usage"}
    Role = "owner"
    MaxDays = 4
    MaxFaults = 2
INVARIANTS
    SecondCopyHasCause
    StatusIsTrue
PROPERTIES
    WelcomeSeriesArrives
