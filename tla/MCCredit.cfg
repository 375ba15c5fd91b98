SPECIFICATION Spec
CONSTANTS
    d2 = d2
    y2 = y2
    op = op
    w1 = w1
    n1 = n1
    n2 = n2
    n3 = n3
    w2 = w2
    m1 = m1
    d1 = d1
    y1 = y1
    zero = zero
    Accounts = {op}
    GenesisBlock = 1
    BlocksPerEpoch = 2
    StartBlock = 1
    MaxBlock = 5
    InitialRoles <- MCRoles
    RoleChanges = {}
    InitialPolicy <- CreditPolicy
    Policies = {}
    Models = {m1}
    Descriptors = {d1}
    Zero = zero
    Workers = {w1, w2}
    MaxTasks = 2
    Budgets = {3}
    Responses = {y1}
    Nullifiers = {n1, n2, n3}
    MaxReceipts = 3
    MaxEpoch = 4
    CollateralAmounts = {8}
SYMMETRY CreditSymmetry
CONSTRAINTS NoDisputes Ordered
INVARIANTS CreditConservation SettledInFull
PROPERTIES ImplementsLedger
CHECK_DEADLOCK FALSE
