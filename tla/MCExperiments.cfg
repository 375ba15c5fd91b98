SPECIFICATION Spec
CONSTANTS
    Models <- MCModels
    Meddling = 2
    Configs = {"c1", "c2"}
    Edits = 2
    q1 = q1
    q2 = q2
    s1 = s1
    s2 = s2
    c1 = c1
    c2 = c2
    Requests = {q1, q2}
    Seeds = {s1, s2}
    Places = {c1, c2}
    Families = {"TENSOR_FLOAT", "REPLAY_NULLIFIER"}
    MaxAttacks = 3
    MaxRows = 3
    Identities = 2
    Units = 3
    Operators = 2
    TaskCount = 2
    Budget = 3
    Simulations = 2
    AttackerCollateral = 5
    HonestCollateral = 4
    Beta = 1
    ConcentrationCap = 4
    Scale = 2
    Watchers = 2
    SharedRates = {0, 1}
    OnlineRates = {1, 2}
    NoticeRates = {1}
    SuccessRates = {1, 2}
    AuditRates = {0, 1}
    Offers = {0, 3}
    WatchCost = 1
    OwnCosts <- MCOwnCosts
    Bond = 2
    Reward = 5
    AuditorCost = 2
    AuditorReward = 7
INVARIANTS
    VerifiedWasAvailable
    ReceiptIsReproducible
    TamperClaimEarned
    SplitNeutral
    SimulatesClosedForm
PROPERTY
    BundleStays
CHECK_DEADLOCK FALSE
SYMMETRY Symmetry
