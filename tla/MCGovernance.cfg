SPECIFICATION Spec
CONSTANTS
    w2 = w2
    n2 = n2
    n3 = n3
    op = op
    w1 = w1
    n1 = n1
    d2 = d2
    y2 = y2
    m1 = m1
    d1 = d1
    y1 = y1
    zero = zero
    Accounts = {op}
    GenesisBlock = 1
    BlocksPerEpoch = 3
    StartBlock = 1
    MaxBlock = 7
    InitialRoles <- MCRoles
    RoleChanges <- MCRoleChanges
    InitialPolicy <- SlowPolicy
    Policies <- MCPolicies
    Models = {m1}
    Descriptors = {d1, d2}
    Zero = zero
    Workers = {w1}
    MaxTasks = 1
    Budgets = {3}
    Responses = {y1, y2}
    Nullifiers = {n1}
    MaxReceipts = 1
    MaxEpoch = 4
    CollateralAmounts = {}
SYMMETRY GovernanceSymmetry
INVARIANTS ReceiptBinding
CHECK_DEADLOCK FALSE
