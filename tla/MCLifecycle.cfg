SPECIFICATION FairSpec
CONSTANTS
    w2 = w2
    n3 = n3
    d2 = d2
    y2 = y2
    op = op
    w1 = w1
    n1 = n1
    n2 = n2
    m1 = m1
    d1 = d1
    y1 = y1
    zero = zero
    Accounts = {op}
    GenesisBlock = 1
    BlocksPerEpoch = 4
    StartBlock = 1
    MaxBlock = 9
    InitialRoles <- MCRoles
    RoleChanges = {}
    InitialPolicy <- LifecyclePolicy
    Policies = {}
    Models = {m1}
    Descriptors = {d1}
    Zero = zero
    Workers = {w1}
    MaxTasks = 1
    Budgets = {3}
    Responses = {y1}
    Nullifiers = {n1, n2}
    MaxReceipts = 2
    MaxEpoch = 4
    CollateralAmounts = {}
INVARIANTS NullifierSingleUse ActiveCountExact
PROPERTIES ImplementsLifecycle DisputedReceiptSlashed MaturedTaskSettles
CHECK_DEADLOCK FALSE
