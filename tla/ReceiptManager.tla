--------------------------- MODULE ReceiptManager ---------------------------
(***************************************************************************)
(* contracts/src/ReceiptManager.sol: receipts, their nullifiers and the    *)
(* per-task count of active receipts the credit engine reads.  Any number  *)
(* of receipts may be minted for a task.                                   *)
(***************************************************************************)
EXTENDS AuditManager

CONSTANTS
    Nullifiers,   \* nonzero nullifiers
    MaxReceipts   \* bound: number of receipts minted

ReceiptIds == 1..MaxReceipts

ASSUME ReceiptAssumption == Zero \notin Nullifiers /\ MaxReceipts \in Nat

VARIABLES
    nextReceiptId,
    receipts,            \* receipts: id -> Receipt
    reservedNullifiers,  \* reservedNullifiers, as the set of true entries
    usedNullifiers,      \* usedNullifiers, as the set of true entries
    activeReceiptCount   \* activeReceiptCount[task][worker]

receiptVars == <<nextReceiptId, receipts, reservedNullifiers, usedNullifiers,
                 activeReceiptCount>>

\* The enum's members; the code assigns only NONE, PENDING, ACTIVE, CHALLENGED and SLASHED.
States == {"NONE", "PENDING", "ACTIVE", "ABSTAINED", "CHALLENGED", "DA_FAILED",
           "EXPIRED", "REJECTED", "SLASHED"}

NoReceipt == [taskId |-> 0, worker |-> Zero, commitment |-> Zero, nullifier |-> Zero,
              state |-> "NONE", epochIssued |-> 0, challengeDeadline |-> 0,
              activatedEpoch |-> 0]

Receipt == [taskId : TaskIds \cup {0}, worker : Workers \cup {Zero},
            commitment : ResponseCommitments \cup {Zero},
            nullifier : Nullifiers \cup {Zero}, state : States, epochIssued : Nat,
            challengeDeadline : Nat, activatedEpoch : Nat]

ReceiptTypeOK ==
    /\ nextReceiptId \in Nat \ {0}
    /\ receipts \in [ReceiptIds -> Receipt]
    /\ reservedNullifiers \subseteq Nullifiers
    /\ usedNullifiers \subseteq Nullifiers
    /\ activeReceiptCount \in [TaskIds -> [Workers -> Nat]]

ReceiptInit ==
    /\ nextReceiptId = 1
    /\ receipts = [r \in ReceiptIds |-> NoReceipt]
    /\ reservedNullifiers = {}
    /\ usedNullifiers = {}
    /\ activeReceiptCount = [t \in TaskIds |-> [w \in Workers |-> 0]]

-----------------------------------------------------------------------------
\* Faulty variant: a nullifier is refused only once its receipt is active.
NullifierUnspent(nullifier) == nullifier \notin usedNullifiers

NullifierFree(nullifier) == nullifier \notin reservedNullifiers

\* Nothing is asked of the round but that it exists: a receipt may be minted
\* for a task already rejected, challenged or slashed.
MintPending(t, nullifier) ==
    /\ Authorized("RECEIPT_OPERATOR")
    /\ nextReceiptId <= MaxReceipts
    /\ NullifierFree(nullifier)
    /\ tasks[t].active
    /\ commitments[t].exists
    /\ rounds[t].exists
    /\ reservedNullifiers' = reservedNullifiers \cup {nullifier}
    /\ receipts' = [receipts EXCEPT ![nextReceiptId] =
           [taskId |-> t, worker |-> tasks[t].worker, commitment |-> commitments[t].hash,
            nullifier |-> nullifier, state |-> "PENDING", epochIssued |-> tasks[t].epoch,
            challengeDeadline |-> rounds[t].challengeDeadline, activatedEpoch |-> 0]]
    /\ nextReceiptId' = nextReceiptId + 1
    /\ UNCHANGED <<usedNullifiers, activeReceiptCount>>

CountActive(t, w) ==
    activeReceiptCount' = [activeReceiptCount EXCEPT ![t][w] = @ + 1]

Activate(r) ==
    LET t == receipts[r].taskId
        w == receipts[r].worker
    IN  /\ Authorized("RECEIPT_OPERATOR")
        /\ receipts[r].state = "PENDING"
        /\ receipts[r].nullifier \notin usedNullifiers
        /\ CurrentEpoch <= receipts[r].epochIssued + 1
        /\ blockNumber >= receipts[r].challengeDeadline
        /\ IsTaskActivatable(t)
        /\ usedNullifiers' = usedNullifiers \cup {receipts[r].nullifier}
        /\ receipts' = [receipts EXCEPT ![r].state = "ACTIVE",
                                        ![r].activatedEpoch = CurrentEpoch]
        /\ CountActive(t, w)
        /\ UNCHANGED <<nextReceiptId, reservedNullifiers>>

SetReceiptState(r, state) ==
    /\ receipts' = [receipts EXCEPT ![r].state = state]
    /\ UNCHANGED <<nextReceiptId, reservedNullifiers, usedNullifiers, activeReceiptCount>>

\* Faulty variant: an active receipt may be marked challenged as well.
MarkChallengedActive(r) ==
    /\ Authorized("RECEIPT_OPERATOR")
    /\ receipts[r].state \in {"PENDING", "ACTIVE"}
    /\ IsTaskChallenged(receipts[r].taskId)
    /\ SetReceiptState(r, "CHALLENGED")

\* Faulty variant: marking is refused once the challenge window is over.
MarkChallengedInWindow(r) ==
    /\ Authorized("RECEIPT_OPERATOR")
    /\ receipts[r].state = "PENDING"
    /\ IsTaskChallenged(receipts[r].taskId)
    /\ blockNumber <= receipts[r].challengeDeadline
    /\ SetReceiptState(r, "CHALLENGED")

MarkChallenged(r) ==
    /\ Authorized("RECEIPT_OPERATOR")
    /\ receipts[r].state = "PENDING"
    /\ IsTaskChallenged(receipts[r].taskId)
    /\ SetReceiptState(r, "CHALLENGED")

SlashReceipt(r) ==
    /\ Authorized("RECEIPT_OPERATOR")
    /\ receipts[r].state = "CHALLENGED"
    /\ IsTaskSlashed(receipts[r].taskId)
    /\ SetReceiptState(r, "SLASHED")
=============================================================================
