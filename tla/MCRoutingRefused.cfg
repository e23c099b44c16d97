SPECIFICATION Spec
CONSTANTS
    MutationIDs = {m1, m2}
    MaxReceipts = 1
    MaxRevision = 3
    MaxEvents = 4
    Faults = {}
    MayCrash = FALSE
    Reports <- MCReports
    Upstream <- MCUpstream
    Installations <- MCInstallations
    TeamRouteIDs = {"architect", "reviewer", "claude"}
    BuiltinRoutes = {"architect", "reviewer"}
    DriverOf <- MCDriverOf
    Nodes = {n1}
    Requirements <- MCRequirements
    ProbeTries = 3
    MaxAttempts = 2
INVARIANT RefusedIsNotApplied
SYMMETRY MCSymmetry
CHECK_DEADLOCK FALSE
