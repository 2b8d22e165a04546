SPECIFICATION Spec
SYMMETRY Symmetry
CHECK_DEADLOCK FALSE
CONSTANTS
    p1 = p1
    p2 = p2
    k1 = k1
    k2 = k2
    Dev = Dev
    NoTrust = NoTrust
    Procs <- MCProcs
    Bundles <- MCBundles
    Offers <- MCOffers
    MaxActs = 3
    MaxLinks = 1
    MaxReleases = 1
    MaxStaging = 1
    MaxFaults = 2
INVARIANTS SelectionWhole TrustKept ReportFits
PROPERTIES PreviousIsPredecessor
