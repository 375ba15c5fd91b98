---------------------------- MODULE PoIProperties ----------------------------
(***************************************************************************)
(* What the composed contracts guarantee: invariants that relate the       *)
(* storage of several contracts, what a step may never do, what must       *)
(* eventually happen, and the abstract specifications they implement.      *)
(***************************************************************************)
EXTENDS PoIProtocol, Functions

Minted(r) == receipts[r].state # "NONE"
Active(r) == receipts[r].state = "ACTIVE"
TaskOf(r) == receipts[r].taskId

-----------------------------------------------------------------------------
\* A receipt is bound to what was committed and audited: the worker and epoch of
\* its task, the commitment hash the audit round snapshotted, which is the hash in
\* the hub, and the round's deadline - whatever happened meanwhile to the model
\* registration or to the policy.  (ReceiptManager.mintPending copies, AuditManager
\* and CommitmentHub never rewrite.)
ReceiptBinding ==
    \A r \in ReceiptIds : Minted(r) =>
        LET t == TaskOf(r)
        IN  /\ t \in TaskIds
            /\ tasks[t].active /\ commitments[t].exists /\ rounds[t].exists
            /\ receipts[r].worker = tasks[t].worker
            /\ receipts[r].worker = commitments[t].worker
            /\ receipts[r].commitment = commitments[t].hash
            /\ receipts[r].commitment = rounds[t].commitment
            /\ receipts[r].epochIssued = tasks[t].epoch
            /\ receipts[r].challengeDeadline = rounds[t].challengeDeadline

\* An audit, and so the seed it is opened with, comes strictly after the commitment
\* it audits, by the finality depth in force at commit time, even when the owner
\* lowers the depth in between; and its challenge window is never empty.
AuditAfterFinality ==
    \A t \in TaskIds : rounds[t].exists =>
        /\ commitments[t].exists
        /\ commitments[t].committedBlock < commitments[t].finalizedBlock
        /\ commitments[t].finalizedBlock <= rounds[t].openedBlock
        /\ rounds[t].openedBlock < rounds[t].challengeDeadline
        /\ rounds[t].openedBlock <= blockNumber

\* An active receipt passed every gate: its task was accepted, its data available,
\* the window's last block reached, in the epoch right after the task's own.
ActivationGate ==
    \A r \in ReceiptIds : Active(r) =>
        /\ Accepted(TaskOf(r))
        /\ blockNumber >= rounds[TaskOf(r)].challengeDeadline
        /\ receipts[r].activatedEpoch = tasks[TaskOf(r)].epoch + 1
        /\ receipts[r].activatedEpoch <= CurrentEpoch

\* A nullifier serves one receipt: minted receipts never share one, the reserved
\* nullifiers are theirs and the used ones are those of the active receipts.
NullifierSingleUse ==
    /\ \A r, s \in ReceiptIds :
          Minted(r) /\ Minted(s) /\ r # s => receipts[r].nullifier # receipts[s].nullifier
    /\ reservedNullifiers = {receipts[r].nullifier : r \in {s \in ReceiptIds : Minted(s)}}
    /\ usedNullifiers = {receipts[r].nullifier : r \in {s \in ReceiptIds : Active(s)}}

\* The counter allocateCredit trusts is exact: it is the number of active receipts
\* of the task and worker, through any order of minting, activation and challenge.
ActiveCountExact ==
    \A t \in TaskIds, w \in Workers :
        activeReceiptCount[t][w] =
            Cardinality({r \in ReceiptIds : Active(r) /\ TaskOf(r) = t /\ receipts[r].worker = w})

\* A dispute that comes after a receipt of its task was activated comes in the very
\* block of the challenge deadline: the one height at which both are allowed.
LateDisputeOnlyAtDeadline ==
    [][\A t \in TaskIds :
          ~rounds[t].challenged /\ rounds'[t].challenged
              /\ (\E r \in ReceiptIds : Active(r) /\ TaskOf(r) = t)
          => blockNumber = rounds[t].challengeDeadline]_vars

-----------------------------------------------------------------------------
Credited(t) == {r \in creditedReceipts : TaskOf(r) = t}

\* Credit is conserved: what a task paid is what its credited receipts hold, and the
\* credit of a worker in an epoch is what the receipts of its tasks of the previous
\* epoch hold; no receipt holds credit without having been credited.
CreditConservation ==
    /\ \A t \in TaskIds : taskAllocated[t] = SumFunctionOnSet(receiptCredit, Credited(t))
    /\ \A e \in Epochs, w \in Workers :
          rawCredit[e][w] = SumFunctionOnSet(receiptCredit,
              {r \in creditedReceipts : receipts[r].worker = w /\ tasks[TaskOf(r)].epoch + 1 = e})
    /\ \A r \in ReceiptIds : receiptCredit[r] # 0 => r \in creditedReceipts

\* Settlement is all or nothing and even: a task pays nothing or exactly its budget,
\* only a consensus task pays, and two of its receipts differ by one unit at most.
SettledInFull ==
    \A t \in TaskIds :
        /\ taskAllocated[t] \in {0, tasks[t].budget}
        /\ taskAllocated[t] # 0 => tasks[t].class = "CONSENSUS"
        /\ \A r, s \in Credited(t) : receiptCredit[r] <= receiptCredit[s] + 1

\* Every credited receipt is, and stays, active, of a creditable task, and was
\* activated in the epoch its credit counts for.
CreditBacking ==
    \A r \in creditedReceipts :
        /\ Active(r)
        /\ Creditable(TaskOf(r))
        /\ receipts[r].activatedEpoch = tasks[TaskOf(r)].epoch + 1

-----------------------------------------------------------------------------
\* A receipt still pending when its task is slashed is itself slashed in the end:
\* there is no deadline on marking it challenged that a slow operator could miss.
DisputedReceiptSlashed ==
    \A r \in ReceiptIds :
        (receipts[r].state = "PENDING" /\ \E t \in TaskIds : t = TaskOf(r) /\ IsTaskSlashed(t))
            ~> (receipts[r].state = "SLASHED")

\* A creditable task with an active receipt eventually pays, however late the
\* operator is and however many receipts are activated meanwhile.
MaturedTaskSettles ==
    \A t \in TaskIds :
        (Creditable(t) /\ \E r \in ReceiptIds : Active(r) /\ TaskOf(r) = t)
            ~> (taskAllocated[t] = tasks[t].budget)

-----------------------------------------------------------------------------
Lifecycle == INSTANCE ReceiptLifecycle WITH
    Receipts <- ReceiptIds, Tasks <- TaskIds, NoTaskId <- 0, NoNullifier <- Zero,
    stage <- [r \in ReceiptIds |-> receipts[r].state],
    taskOf <- [r \in ReceiptIds |-> receipts[r].taskId],
    nullifier <- [r \in ReceiptIds |-> receipts[r].nullifier],
    disputed <- {t \in TaskIds : rounds[t].challenged}

\* The contracts implement the abstract receipt life cycle.
ImplementsLifecycle == Lifecycle!Spec

Ledger == INSTANCE CreditLedger WITH
    Tasks <- TaskIds, EpochSet <- Epochs, Payments <- Budgets \cup {0}, NoWorker <- Zero,
    epoch <- CurrentEpoch,
    offer <- [t \in TaskIds |->
                 [worker |-> tasks[t].worker, epoch |-> tasks[t].epoch,
                  pays |-> IF Creditable(t) THEN tasks[t].budget ELSE 0]],
    settled <- {t \in TaskIds : taskAllocated[t] # 0},
    credit <- rawCredit

\* The contracts implement the abstract credit ledger.
ImplementsLedger == Ledger!Spec

-----------------------------------------------------------------------------
\* "A successful challenge produces a slashed disposition": no receipt of a slashed
\* task is active.
SlashedTaskHasNoActiveReceipt ==
    \A r \in ReceiptIds : Active(r) => ~IsTaskSlashed(TaskOf(r))
=============================================================================
