SPECIFICATION Spec
CONSTANTS
    d1 = d1
    d2 = d2
    p1 = p1
    p2 = p2
    b1 = b1
    b2 = b2
    Drivers = {d1, d2}
    Contracts <- MCContracts
    RunConfigs <- MCRunConfigs
    Credit <- MCCredit
    Spread = 1
    WidthLimit = 5
    Epsilon = 1
    MaxEdits = 1
    Agreements <- MCAgreements
    Bindings <- MCBindings
    MultiConfigs <- MCMultis
    Retouches = 2
    Speeds = {1, 4, 5, 6}
    LoadTime = 3
    Overheads = {1, 6}
    Pairs = 3
    Resamples <- MCResamples
    FixtureTimes <- MCFixtureTimes
    Processes = {p1, p2}
    Plans <- MCPlans
    Agreed <- MCAgreed
    Versions = {1, 2}
    Share <- MCShare
    ShareLimit = 1
    ShareDelta = 1
    Rewrites = 1
    Builders = {b1, b2}
    Configured <- MCConfigured
    Builds = 2
    Corrections = 1
INVARIANTS
    FrozenAsContracted
    OutputsTruthful
    SensitivityBound
    CostClaimEarned
    ReplayAuthoritative
    ReportFaithful
CHECK_DEADLOCK FALSE
SYMMETRY Symmetry
