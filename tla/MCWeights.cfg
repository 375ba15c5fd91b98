SPECIFICATION Spec
CONSTANTS
    w1 = w1
    w2 = w2
    w3 = w3
    n1 = n1
    n2 = n2
    n3 = n3
    w4 = w4
    Operators = {1, 2, 3}
    Workers = {w1, w2, w3, w4}
    OperatorOf <- MCOperatorOf
    NoOperator = 0
    Collateral <- MCCollateral
    Beta = 2
    Cap = 4
    CommitteeSize = 2
    TaskIds = {1, 2}
    ReceiptIds = {1, 2, 3}
    Nullifiers = {n1, n2, n3}
    Budgets = {5}
    MaxBatches = 3
SYMMETRY MCSymmetry
INVARIANTS PaidOnce CreditConserved AuthorityEarned DrawProportional
CHECK_DEADLOCK FALSE
