SPECIFICATION Spec
CONSTANTS
    Procs = {p, q}
    Paths = {mine, other}
    Mine = mine
    Names = {n, k}
    Own = n
    NoName = none
    Answers = {1, 2, 3}
    Inputs = {1}
    Clash <- MCClash
    MaxRev = 2
    MaxEntries = 2
    MaxCalls = 3
    MaxFaults = 1
SYMMETRY Symmetry
INVARIANTS
    ReviewIsWhole
    NextRevisionFree
    InspectionFits
    RegisteredAsApproved
PROPERTY NameStable
CHECK_DEADLOCK FALSE
