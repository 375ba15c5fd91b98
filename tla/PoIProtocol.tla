----------------------------- MODULE PoIProtocol -----------------------------
(***************************************************************************)
(* The deployed protocol: the seven contracts of contracts/src on one      *)
(* chain.  Contracts call each other only to read, so a transaction writes *)
(* the storage of exactly one of them; transactions of all the parties     *)
(* (owner, admins, auditors, receipt and credit operators, workers) and    *)
(* block production interleave in any order.                               *)
(***************************************************************************)
EXTENDS CreditEngine

vars == <<policyVars, modelVars, taskVars, commitmentVars, auditVars, receiptVars,
          creditVars>>

TypeOK ==
    /\ PolicyTypeOK
    /\ ModelTypeOK
    /\ TaskTypeOK
    /\ CommitmentTypeOK
    /\ AuditTypeOK
    /\ ReceiptTypeOK
    /\ CreditTypeOK

Init ==
    /\ PolicyInit
    /\ ModelInit
    /\ TaskInit
    /\ CommitmentInit
    /\ AuditInit
    /\ ReceiptInit
    /\ CreditInit

-----------------------------------------------------------------------------
PolicyStep ==
    /\ \/ NextBlock
       \/ \E change \in RoleChanges : GrantRole(change[1], change[2])
       \/ \E change \in RoleChanges : RevokeRole(change[1], change[2])
       \/ \E value \in Policies : SetProtocolPolicy(value)
    /\ UNCHANGED <<modelVars, taskVars, commitmentVars, auditVars, receiptVars, creditVars>>

ModelStep ==
    /\ \/ \E m \in Models, d \in Descriptors : RegisterModel(m, d)
       \/ \E m \in Models : DeactivateModel(m)
    /\ UNCHANGED <<policyVars, taskVars, commitmentVars, auditVars, receiptVars, creditVars>>

TaskStep ==
    /\ \/ \E w \in Workers : RegisterWorker(w)
       \/ \E m \in Models, w \in Workers, class \in TaskClasses, budget \in Budgets,
             epoch \in Epochs : CreateTask(m, w, class, budget, epoch)
    /\ UNCHANGED <<policyVars, modelVars, commitmentVars, auditVars, receiptVars, creditVars>>

CommitmentStep ==
    /\ \E t \in TaskIds, sender \in Workers, response \in Responses :
          CommitResponse(t, sender, response)
    /\ UNCHANGED <<policyVars, modelVars, taskVars, auditVars, receiptVars, creditVars>>

AuditStep ==
    /\ \E t \in TaskIds :
          \/ OpenAudit(t)
          \/ \E decision \in Decisions : RecordAuditResult(t, decision)
          \/ \E available \in BOOLEAN : RecordDataAvailability(t, available)
          \/ OpenChallenge(t)
          \/ SlashTask(t)
    /\ UNCHANGED <<policyVars, modelVars, taskVars, commitmentVars, receiptVars, creditVars>>

OnlyReceiptsChange ==
    UNCHANGED <<policyVars, modelVars, taskVars, commitmentVars, auditVars, creditVars>>

ReceiptStep ==
    /\ \/ \E t \in TaskIds, nullifier \in Nullifiers : MintPending(t, nullifier)
       \/ \E r \in ReceiptIds :
             \/ Activate(r)
             \/ MarkChallenged(r)
             \/ SlashReceipt(r)
    /\ OnlyReceiptsChange

OnlyCreditChanges ==
    UNCHANGED <<policyVars, modelVars, taskVars, commitmentVars, auditVars, receiptVars>>

CreditStep ==
    /\ \/ \E w \in Workers, amount \in CollateralAmounts : SetCollateral(w, amount)
       \/ \E t \in TaskIds, ids \in SUBSET ReceiptIds : AllocateCredit(t, ids)
    /\ OnlyCreditChanges

Next ==
    \/ PolicyStep
    \/ ModelStep
    \/ TaskStep
    \/ CommitmentStep
    \/ AuditStep
    \/ ReceiptStep
    \/ CreditStep

Spec == Init /\ [][Next]_vars

(***************************************************************************)
(* Fairness: the receipt operator that watches the chain eventually sends  *)
(* markChallenged and slash for a receipt whose task was disputed, and the *)
(* credit operator eventually settles a task that can be settled.  Nothing *)
(* is assumed of workers, auditors, admins or of the pace of the blocks.   *)
(***************************************************************************)
Fairness ==
    /\ \A r \in ReceiptIds :
          /\ WF_vars(MarkChallenged(r) /\ OnlyReceiptsChange)
          /\ WF_vars(SlashReceipt(r) /\ OnlyReceiptsChange)
    /\ \A t \in TaskIds :
          WF_vars((\E ids \in SUBSET ReceiptIds : AllocateCredit(t, ids)) /\ OnlyCreditChanges)

FairSpec == Spec /\ Fairness
=============================================================================
