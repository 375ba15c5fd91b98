----------------------------- MODULE MCContracts -----------------------------
EXTENDS PoIProperties, TLC
CONSTANTS op, w1, w2, n1, n2, n3, m1, d1, d2, y1, y2, zero
MCRoles == Roles \X {op}
Policy(depth, window, beta) ==
    [finalityDepth |-> depth, challengeWindow |-> window, beta |-> beta, cap |-> 10]

\* MCLifecycle.cfg
LifecyclePolicy == Policy(1, 2, 1)

\* MCGovernance.cfg
MCRoleChanges == {<<"AUDITOR", op>>}
SlowPolicy == Policy(2, 2, 1)
FastPolicy == Policy(1, 1, 1)
MCPolicies == {SlowPolicy, FastPolicy}
GovernanceSymmetry == Permutations(Descriptors) \cup Permutations(Responses)

\* MCCredit.cfg
CreditPolicy == Policy(1, 1, 2)
CreditSymmetry == Permutations(Nullifiers) \cup Permutations(Workers)
\* Bound: the auditors accept, and the data is available, without disputes, the
\* decision being recorded first and a receipt minted only after both.
NoDisputes ==
    \A t \in TaskIds :
        /\ ~rounds[t].challenged
        /\ rounds[t].decision \in {"NONE", "ACCEPT"}
        /\ rounds[t].daRecorded => Accepted(t)
        /\ (\E r \in ReceiptIds : Minted(r) /\ TaskOf(r) = t) => Accepted(t)

\* Bound: the model stays active, workers are registered before the first commitment,
\* tasks are committed and audited in the order of their ids, and collateral is
\* posted after the last receipt was minted.
Ordered ==
    /\ \A m \in Models : models[m].active \/ nextTaskId = 1
    /\ (\E t \in TaskIds : commitments[t].exists)
           => registeredWorkers = Workers
    /\ \A t \in TaskIds \ {1} :
           /\ commitments[t].exists => commitments[t-1].exists
           /\ rounds[t].decision # "NONE" => Accepted(t-1)
    /\ (\E w \in Workers : collateral[w] # 0) => nextReceiptId > MaxReceipts
=============================================================================
