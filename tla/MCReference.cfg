SPECIFICATION MCSpec
CONSTANTS
    r1 = r1
    n1 = n1
    b1 = b1
    b2 = b2
    None = None
    Receipts = {r1}
    Nullifiers = {n1}
    Bindings = {b1, b2}
    Window = 2
    MaxHeight = 6
    MaxEpoch = 4
    MetricIds = {"m1"}
    MetricValues = {0, 1, 2}
    Denominators = {1, 2}
    Unit = 4
    AcceptQuota = 1
    RejectQuota = 1
    LeastAbstain = 1
    MostAbstain = 1
    Cases <- MCCases
SYMMETRY MCSymmetry
INVARIANTS ActiveEarned AuditIsOwn AcceptEarned ClaimUnambiguous CalibrationCarriesOver
CHECK_DEADLOCK FALSE
