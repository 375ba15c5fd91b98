---------------------------- MODULE CreditEngine ----------------------------
(***************************************************************************)
(* contracts/src/CreditEngine.sol: settlement of a task's credit budget    *)
(* over its active receipts, and the authority (active weight) an epoch's  *)
(* credit gives a worker.                                                  *)
(*                                                                         *)
(* receiptIds must be strictly ascending, so a call that does not revert   *)
(* is determined by the set of ids; an id's position is its rank.  For a   *)
(* task that is not creditable the call returns without an effect: a       *)
(* stutter, which needs no action.                                         *)
(***************************************************************************)
EXTENDS ReceiptManager

CONSTANTS
    MaxEpoch,          \* bound: rawCredit is kept for the epochs 0..MaxEpoch
    CollateralAmounts  \* bound: amounts setCollateral may set

Epochs == 0..MaxEpoch

ASSUME CreditAssumption ==
    /\ MaxEpoch \in Nat
    /\ EpochAt(MaxBlock) < MaxEpoch
    /\ CollateralAmounts \subseteq Nat

VARIABLES
    rawCredit,         \* rawCredit[epoch][worker]
    collateral,        \* collateral[worker]
    taskAllocated,     \* taskAllocated[task]
    creditedReceipts,  \* creditedReceipts, as the set of true entries
    receiptCredit      \* receiptCredit[receipt]

creditVars == <<rawCredit, collateral, taskAllocated, creditedReceipts, receiptCredit>>

CreditTypeOK ==
    /\ rawCredit \in [Epochs -> [Workers -> Nat]]
    /\ collateral \in [Workers -> Nat]
    /\ taskAllocated \in [TaskIds -> Nat]
    /\ creditedReceipts \subseteq ReceiptIds
    /\ receiptCredit \in [ReceiptIds -> Nat]

CreditInit ==
    /\ rawCredit = [e \in Epochs |-> [w \in Workers |-> 0]]
    /\ collateral = [w \in Workers |-> 0]
    /\ taskAllocated = [t \in TaskIds |-> 0]
    /\ creditedReceipts = {}
    /\ receiptCredit = [r \in ReceiptIds |-> 0]

-----------------------------------------------------------------------------
SetCollateral(w, amount) ==
    /\ Authorized("CREDIT_OPERATOR")
    /\ collateral' = [collateral EXCEPT ![w] = amount]
    /\ UNCHANGED <<rawCredit, taskAllocated, creditedReceipts, receiptCredit>>

\* Faulty variant: the task class is not looked at.
CreditableAnyClass(t) == tasks[t].active /\ tasks[t].budget # 0

Creditable(t) ==
    /\ tasks[t].active
    /\ tasks[t].class = "CONSENSUS"
    /\ tasks[t].budget # 0

Rank(r, ids) == Cardinality({s \in ids : s < r})

\* The budget split evenly, the remainder going to the lowest ids.
Share(budget, r, ids) ==
    (budget \div Cardinality(ids))
        + (IF Rank(r, ids) < budget % Cardinality(ids) THEN 1 ELSE 0)

\* Faulty variant: the remainder is handed out and not counted.
TotalOfBaseShares(budget, ids) == (budget \div Cardinality(ids)) * Cardinality(ids)

\* What the loop adds up over all ids: each share is the base share, plus one
\* for the ids whose position is below the remainder.
TotalOfShares(budget, ids) ==
    (budget \div Cardinality(ids)) * Cardinality(ids)
        + Cardinality({r \in ids : Rank(r, ids) < budget % Cardinality(ids)})

\* Faulty variant: credit booked for the task's own epoch.
CreditEpochOfTask(t) == tasks[t].epoch

CreditEpoch(t) == tasks[t].epoch + 1

\* Faulty variant: a receipt can only be credited during its activation epoch.
CreditableReceiptThisEpoch(r, t) ==
    /\ receipts[r].taskId = t
    /\ receipts[r].worker = tasks[t].worker
    /\ receipts[r].state = "ACTIVE"
    /\ receipts[r].activatedEpoch = tasks[t].epoch + 1
    /\ CurrentEpoch = receipts[r].activatedEpoch
    /\ r \notin creditedReceipts

\* The requirements _allocateReceiptCredit puts on each listed receipt.
CreditableReceipt(r, t) ==
    /\ receipts[r].taskId = t
    /\ receipts[r].worker = tasks[t].worker
    /\ receipts[r].state = "ACTIVE"
    /\ receipts[r].activatedEpoch = tasks[t].epoch + 1
    /\ r \notin creditedReceipts

AllocateCredit(t, ids) ==
    LET worker == tasks[t].worker
        total == TotalOfShares(tasks[t].budget, ids)
    IN  /\ Authorized("CREDIT_OPERATOR")
        /\ Creditable(t)
        /\ ids # {}
        /\ worker \in registeredWorkers
        /\ Cardinality(ids) = activeReceiptCount[t][worker]
        /\ \A r \in ids : CreditableReceipt(r, t)
        /\ taskAllocated[t] + total <= tasks[t].budget
        /\ taskAllocated' = [taskAllocated EXCEPT ![t] = @ + total]
        /\ creditedReceipts' = creditedReceipts \cup ids
        /\ receiptCredit' = [r \in ReceiptIds |->
               IF r \in ids THEN Share(tasks[t].budget, r, ids) ELSE receiptCredit[r]]
        /\ rawCredit' = [rawCredit EXCEPT ![CreditEpoch(t)][worker] = @ + total]
        /\ UNCHANGED collateral

-----------------------------------------------------------------------------
Lesser(x, y) == IF x < y THEN x ELSE y

ActiveWeight(epoch, w) ==
    LET collateralCap == collateral[w] \div policy.beta
    IN  IF rawCredit[epoch][w] = 0 \/ collateral[w] = 0 \/ collateralCap = 0 THEN 0
        ELSE Lesser(Lesser(rawCredit[epoch][w], collateralCap), policy.cap)
=============================================================================
