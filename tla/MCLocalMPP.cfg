SPECIFICATION MPPSpec
CONSTANTS
    owner = owner
    m1 = m1
    d1 = d1
    y1 = y1
    zero = zero
    Accounts = {owner}
    GenesisBlock = 1
    BlocksPerEpoch = 50
    StartBlock = 1
    MaxBlock = 260
    InitialRoles = {}
    RoleChanges = {}
    InitialPolicy <- MCPolicy
    Policies = {}
    Models = {m1}
    Descriptors = {d1}
    Zero = zero
    Workers = {owner}
    MaxTasks = 3
    Budgets = {90}
    Responses = {y1}
    Nullifiers = {"consensus", "service", "challenge"}
    MaxReceipts = 3
    MaxEpoch = 8
    CollateralAmounts = {900}
    Owner = owner
    Model = m1
    Descriptor = d1
    Response = y1
    DeployBlocks = 18
    Budget = 90
    Collateral = 900
    PeerMines = {2, 25, 50}
    Upsets = 2
INVARIANTS ResultIsGenuine CommitteeMatchesChain
PROPERTIES QuietRunCompletes RunEndsClean
CHECK_DEADLOCK FALSE
