------------------------- MODULE PoIProtocol_proofs -------------------------
(***************************************************************************)
(* Proofs of the safety of the contracts for every deployment: any sets of *)
(* accounts, models, workers, responses and nullifiers, any epoch length   *)
(* and policy, any number of tasks, receipts and blocks.                   *)
(***************************************************************************)
EXTENDS PoIProperties, TLAPS, FiniteSetTheorems, SumTheorems

-----------------------------------------------------------------------------
(***************************************************************************)
(* Types.                                                                  *)
(***************************************************************************)

\* A task that exists has a registered kind of model and worker.
TaskShape ==
    \A t \in TaskIds : tasks[t].active => tasks[t].model \in Models /\ tasks[t].worker \in Workers

\* So has a minted receipt a task, a worker and a nullifier.
ReceiptShape ==
    \A r \in ReceiptIds : receipts[r].state # "NONE" =>
        /\ receipts[r].taskId \in TaskIds
        /\ receipts[r].worker \in Workers
        /\ receipts[r].nullifier \in Nullifiers

TypeInv == TypeOK /\ TaskShape /\ ReceiptShape

\* The epoch of a block height is a natural number.
LEMMA EpochType == \A h \in Nat : EpochAt(h) \in Nat
BY PolicyAssumption DEF EpochAt

LEMMA TypeInit == Init => TypeInv
<1> SUFFICES ASSUME Init PROVE TypeInv
    OBVIOUS
<1> USE DEF Init
<1>1. PolicyTypeOK
    BY PolicyAssumption DEF PolicyInit, PolicyTypeOK
<1>2. ModelTypeOK
    BY DEF ModelInit, ModelTypeOK
<1>3. TaskTypeOK /\ TaskShape
    BY DEF TaskInit, TaskTypeOK, TaskShape, NoTask, Task, TaskClasses
<1>4. CommitmentTypeOK
    BY DEF CommitmentInit, CommitmentTypeOK, NoCommitment, Commitment
<1>5. AuditTypeOK
    BY DEF AuditInit, AuditTypeOK, NoRound, AuditRound, Decisions
<1>6. ReceiptTypeOK /\ ReceiptShape
    BY DEF ReceiptInit, ReceiptTypeOK, ReceiptShape, NoReceipt, Receipt, States
<1>7. CreditTypeOK
    BY DEF CreditInit, CreditTypeOK
<1> QED
    BY <1>1, <1>2, <1>3, <1>4, <1>5, <1>6, <1>7 DEF TypeInv, TypeOK

\* A step of the policy contract or of the chain keeps the types.
LEMMA PolicyTypeStep ==
    ASSUME TypeInv, PolicyStep PROVE TypeInv'
<1> USE DEF TypeInv, TypeOK
<1>1. PolicyTypeOK'
  <2> USE DEF PolicyTypeOK
  <2>1. CASE NextBlock
    BY <2>1 DEF NextBlock
  <2>2. ASSUME NEW change \in RoleChanges, GrantRole(change[1], change[2])
        PROVE  PolicyTypeOK'
    BY <2>2, PolicyAssumption DEF GrantRole
  <2>3. ASSUME NEW change \in RoleChanges, RevokeRole(change[1], change[2])
        PROVE  PolicyTypeOK'
    BY <2>3 DEF RevokeRole
  <2>4. ASSUME NEW value \in Policies, SetProtocolPolicy(value)
        PROVE  PolicyTypeOK'
    BY <2>4, PolicyAssumption DEF SetProtocolPolicy
  <2> QED
    BY <2>1, <2>2, <2>3, <2>4 DEF PolicyStep
<1> QED
    BY <1>1 DEF PolicyStep, modelVars, taskVars, commitmentVars, auditVars, receiptVars,
       creditVars, ModelTypeOK, TaskTypeOK, CommitmentTypeOK, AuditTypeOK, ReceiptTypeOK,
       CreditTypeOK, TaskShape, ReceiptShape

LEMMA ModelTypeStep ==
    ASSUME TypeInv, ModelStep PROVE TypeInv'
<1> USE DEF TypeInv, TypeOK
<1>1. ModelTypeOK'
  <2>1. ASSUME NEW m \in Models, NEW d \in Descriptors, RegisterModel(m, d)
        PROVE  ModelTypeOK'
    BY <2>1 DEF RegisterModel, ModelTypeOK
  <2>2. ASSUME NEW m \in Models, DeactivateModel(m)
        PROVE  ModelTypeOK'
    BY <2>2 DEF DeactivateModel, ModelTypeOK
  <2> QED
    BY <2>1, <2>2 DEF ModelStep
<1> QED
    BY <1>1 DEF ModelStep, policyVars, taskVars, commitmentVars, auditVars, receiptVars,
       creditVars, PolicyTypeOK, TaskTypeOK, CommitmentTypeOK, AuditTypeOK, ReceiptTypeOK,
       CreditTypeOK, TaskShape, ReceiptShape

LEMMA TaskTypeStep ==
    ASSUME TypeInv, TaskStep PROVE TypeInv'
<1> USE DEF TypeInv, TypeOK
<1>1. TaskTypeOK' /\ TaskShape'
  <2>1. ASSUME NEW w \in Workers, RegisterWorker(w)
        PROVE  TaskTypeOK' /\ TaskShape'
    BY <2>1 DEF RegisterWorker, TaskTypeOK, TaskShape
  <2>2. ASSUME NEW m \in Models, NEW w \in Workers, NEW class \in TaskClasses,
               NEW budget \in Budgets, NEW epoch \in Epochs,
               CreateTask(m, w, class, budget, epoch)
        PROVE  TaskTypeOK' /\ TaskShape'
    <3>1. [model |-> m, worker |-> w, class |-> class, budget |-> budget,
           epoch |-> epoch, active |-> TRUE] \in Task
      BY TaskAssumption DEF Task, Epochs
    <3> QED
      BY <2>2, <3>1 DEF CreateTask, TaskTypeOK, TaskShape, TaskIds
  <2> QED
    BY <2>1, <2>2 DEF TaskStep
<1> QED
    BY <1>1 DEF TaskStep, policyVars, modelVars, commitmentVars, auditVars, receiptVars,
       creditVars, PolicyTypeOK, ModelTypeOK, CommitmentTypeOK, AuditTypeOK, ReceiptTypeOK,
       CreditTypeOK, ReceiptShape

LEMMA CommitmentTypeStep ==
    ASSUME TypeInv, CommitmentStep PROVE TypeInv'
<1> USE DEF TypeInv, TypeOK
<1>1. CommitmentTypeOK'
  <2>1. PICK t \in TaskIds, sender \in Workers, response \in Responses :
            CommitResponse(t, sender, response)
    BY DEF CommitmentStep
  <2> DEFINE hash == ResponseCommitment(t, tasks[t].model, models[tasks[t].model].descriptor,
                                        response)
             written == [worker |-> sender, hash |-> hash, committedBlock |-> blockNumber,
                         finalizedBlock |-> blockNumber + policy.finalityDepth,
                         exists |-> TRUE]
  <2>2. tasks[t].model \in Models
    BY <2>1 DEF CommitResponse, TaskShape
  <2>3. hash \in ResponseCommitments
    BY <2>2 DEF ResponseCommitment, ResponseCommitments, ModelTypeOK
  <2>4. written \in Commitment
    BY <2>3 DEF Commitment, PolicyTypeOK, PolicyValue
  <2>5. commitments' = [commitments EXCEPT ![t] = written]
    BY <2>1 DEF CommitResponse
  <2> QED
    BY <2>4, <2>5 DEF CommitmentTypeOK
<1> QED
    BY <1>1 DEF CommitmentStep, policyVars, modelVars, taskVars, auditVars, receiptVars,
       creditVars, PolicyTypeOK, ModelTypeOK, TaskTypeOK, AuditTypeOK, ReceiptTypeOK,
       CreditTypeOK, TaskShape, ReceiptShape

LEMMA AuditTypeStep ==
    ASSUME TypeInv, AuditStep PROVE TypeInv'
<1> USE DEF TypeInv, TypeOK
<1>1. AuditTypeOK'
  <2> USE DEF AuditTypeOK, AuditRound
  <2>1. ASSUME NEW t \in TaskIds, OpenAudit(t)
        PROVE  AuditTypeOK'
    <3>1. /\ commitments[t].hash \in ResponseCommitments \cup {Zero}
          /\ blockNumber \in Nat
          /\ blockNumber + policy.challengeWindow \in Nat
      BY DEF CommitmentTypeOK, Commitment, PolicyTypeOK, PolicyValue
    <3>2. NoRound \in AuditRound
      BY DEF NoRound, Decisions
    <3>3. OpenedRound(t) \in AuditRound
      BY <3>1, <3>2 DEF OpenedRound
    <3> QED
      BY <2>1, <3>3 DEF OpenAudit
  <2>2. ASSUME NEW t \in TaskIds, NEW decision \in Decisions, RecordAuditResult(t, decision)
        PROVE  AuditTypeOK'
    BY <2>2 DEF RecordAuditResult
  <2>3. ASSUME NEW t \in TaskIds, NEW available \in BOOLEAN,
               RecordDataAvailability(t, available)
        PROVE  AuditTypeOK'
    BY <2>3 DEF RecordDataAvailability
  <2>4. ASSUME NEW t \in TaskIds, OpenChallenge(t)
        PROVE  AuditTypeOK'
    BY <2>4 DEF OpenChallenge
  <2>5. ASSUME NEW t \in TaskIds, SlashTask(t)
        PROVE  AuditTypeOK'
    BY <2>5 DEF SlashTask
  <2> QED
    BY <2>1, <2>2, <2>3, <2>4, <2>5 DEF AuditStep
<1> QED
    BY <1>1 DEF AuditStep, policyVars, modelVars, taskVars, commitmentVars, receiptVars,
       creditVars, PolicyTypeOK, ModelTypeOK, TaskTypeOK, CommitmentTypeOK, ReceiptTypeOK,
       CreditTypeOK, TaskShape, ReceiptShape

LEMMA ReceiptTypeStep ==
    ASSUME TypeInv, ReceiptStep PROVE TypeInv'
<1> USE DEF TypeInv, TypeOK
<1>1. ReceiptTypeOK' /\ ReceiptShape'
  <2> USE DEF ReceiptTypeOK, ReceiptShape
  <2>1. ASSUME NEW t \in TaskIds, NEW nullifier \in Nullifiers, MintPending(t, nullifier)
        PROVE  ReceiptTypeOK' /\ ReceiptShape'
    <3>1. [taskId |-> t, worker |-> tasks[t].worker, commitment |-> commitments[t].hash,
           nullifier |-> nullifier, state |-> "PENDING", epochIssued |-> tasks[t].epoch,
           challengeDeadline |-> rounds[t].challengeDeadline, activatedEpoch |-> 0] \in Receipt
      BY DEF Receipt, States, TaskTypeOK, Task, CommitmentTypeOK, Commitment, AuditTypeOK,
         AuditRound
    <3>2. receipts' \in [ReceiptIds -> Receipt]
      BY <2>1, <3>1 DEF MintPending
    <3>3. ReceiptShape'
      BY <2>1, <3>2 DEF MintPending, Receipt, TaskShape
    <3> QED
      BY <2>1, <3>2, <3>3 DEF MintPending
  <2>2. ASSUME NEW r \in ReceiptIds, Activate(r)
        PROVE  ReceiptTypeOK' /\ ReceiptShape'
    <3>1. CurrentEpoch \in Nat
      BY EpochType DEF CurrentEpoch, PolicyTypeOK
    <3>2. receipts[r] \in Receipt
      OBVIOUS
    <3>3. receipts' \in [ReceiptIds -> Receipt]
      <4>1. [receipts[r] EXCEPT !.state = "ACTIVE", !.activatedEpoch = CurrentEpoch] \in Receipt
        BY <3>1, <3>2 DEF Receipt, States
      <4>2. receipts' = [receipts EXCEPT ![r] =
                [receipts[r] EXCEPT !.state = "ACTIVE", !.activatedEpoch = CurrentEpoch]]
        BY <2>2, <3>2 DEF Activate
      <4> QED
        BY <4>1, <4>2
    <3>4. usedNullifiers' \subseteq Nullifiers
      BY <2>2 DEF Activate
    <3>5. activeReceiptCount' \in [TaskIds -> [Workers -> Nat]]
      BY <2>2 DEF Activate, CountActive
    <3>6. ReceiptShape'
      BY <2>2 DEF Activate, Receipt
    <3> QED
      BY <2>2, <3>3, <3>4, <3>5, <3>6 DEF Activate
  <2>3. ASSUME NEW r \in ReceiptIds, MarkChallenged(r)
        PROVE  ReceiptTypeOK' /\ ReceiptShape'
    BY <2>3 DEF MarkChallenged, SetReceiptState, Receipt, States
  <2>4. ASSUME NEW r \in ReceiptIds, SlashReceipt(r)
        PROVE  ReceiptTypeOK' /\ ReceiptShape'
    BY <2>4 DEF SlashReceipt, SetReceiptState, Receipt, States
  <2> QED
    BY <2>1, <2>2, <2>3, <2>4 DEF ReceiptStep
<1> QED
    BY <1>1 DEF ReceiptStep, OnlyReceiptsChange, policyVars, modelVars, taskVars,
       commitmentVars, auditVars, creditVars, PolicyTypeOK, ModelTypeOK, TaskTypeOK,
       CommitmentTypeOK, AuditTypeOK, CreditTypeOK, TaskShape

LEMMA ReceiptIdsFinite == \A S \in SUBSET ReceiptIds : IsFiniteSet(S)
<1>1. IsFiniteSet(ReceiptIds)
  <2>1. MaxReceipts \in Int
    BY ReceiptAssumption
  <2> QED
    BY <2>1, FS_Interval DEF ReceiptIds
<1> QED
    BY <1>1, FS_Subset

\* The shares of a settlement, and their total, are natural numbers.
LEMMA ShareType ==
    ASSUME NEW ids \in SUBSET ReceiptIds, ids # {}, NEW budget \in Nat
    PROVE  /\ TotalOfShares(budget, ids) \in Nat
           /\ \A r \in ids : Share(budget, r, ids) \in Nat
<1> DEFINE n == Cardinality(ids)
           quotient == budget \div n
<1>1. IsFiniteSet(ids)
    BY ReceiptIdsFinite
<1>2. n \in Nat /\ n # 0
    BY <1>1, FS_CardinalityType, FS_EmptySet
<1>3. quotient \in Nat /\ budget % n \in Nat
    BY <1>2
<1>4. ASSUME NEW r \in ids
      PROVE  Share(budget, r, ids) = quotient + 1 \/ Share(budget, r, ids) = quotient + 0
  <2>1. CASE Rank(r, ids) < budget % n
    BY <2>1 DEF Share
  <2>2. CASE ~(Rank(r, ids) < budget % n)
    BY <2>2 DEF Share
  <2> QED
    BY <2>1, <2>2
<1>5. \A r \in ids : Share(budget, r, ids) \in Nat
  <2> HIDE DEF quotient
  <2> QED
    BY <1>3, <1>4
<1>6. Cardinality({r \in ids : Rank(r, ids) < budget % n}) \in Nat
    BY <1>1, FS_Subset, FS_CardinalityType
<1>7. (budget \div n) * n \in Nat
    BY <1>2, <1>3
<1> QED
    BY <1>5, <1>6, <1>7 DEF TotalOfShares

LEMMA CreditTypeStep ==
    ASSUME TypeInv, CreditStep PROVE TypeInv'
<1> USE DEF TypeInv, TypeOK
<1>1. CreditTypeOK'
  <2> USE DEF CreditTypeOK
  <2>1. ASSUME NEW w \in Workers, NEW amount \in CollateralAmounts, SetCollateral(w, amount)
        PROVE  CreditTypeOK'
    BY <2>1, CreditAssumption DEF SetCollateral
  <2>2. ASSUME NEW t \in TaskIds, NEW ids \in SUBSET ReceiptIds, AllocateCredit(t, ids)
        PROVE  CreditTypeOK'
    <3> DEFINE budget == tasks[t].budget
               total == TotalOfShares(budget, ids)
    <3>1. budget \in Nat /\ ids # {}
      BY <2>2 DEF AllocateCredit, TaskTypeOK, Task
    <3>2. total \in Nat /\ \A r \in ids : Share(budget, r, ids) \in Nat
      BY <3>1, ShareType
    <3> HIDE DEF budget, total
    <3>3. /\ taskAllocated' = [taskAllocated EXCEPT ![t] = @ + total]
          /\ creditedReceipts' = creditedReceipts \cup ids
          /\ receiptCredit' = [r \in ReceiptIds |->
                 IF r \in ids THEN Share(budget, r, ids) ELSE receiptCredit[r]]
          /\ rawCredit' = [rawCredit EXCEPT ![CreditEpoch(t)][tasks[t].worker] = @ + total]
          /\ collateral' = collateral
      BY <2>2 DEF AllocateCredit, budget, total
    <3>4. taskAllocated' \in [TaskIds -> Nat]
      BY <3>2, <3>3
    <3>5. rawCredit' \in [Epochs -> [Workers -> Nat]]
      <4> DEFINE e == CreditEpoch(t)
                 w == tasks[t].worker
      <4>1. w \in Workers
        BY <2>2 DEF AllocateCredit, Creditable, TaskShape
      <4>2. rawCredit' = [rawCredit EXCEPT ![e][w] = @ + total]
        BY <3>3
      <4> HIDE DEF e, w
      <4>3. CASE e \in Epochs
        BY <3>2, <4>1, <4>2, <4>3
      <4>4. CASE e \notin Epochs
        BY <4>2, <4>4
      <4> QED
        BY <4>3, <4>4
    <3>6. receiptCredit' \in [ReceiptIds -> Nat]
      BY <3>2, <3>3
    <3> QED
      BY <3>3, <3>4, <3>5, <3>6
  <2> QED
    BY <2>1, <2>2 DEF CreditStep
<1> QED
    BY <1>1 DEF CreditStep, OnlyCreditChanges, policyVars, modelVars, taskVars,
       commitmentVars, auditVars, receiptVars, PolicyTypeOK, ModelTypeOK, TaskTypeOK,
       CommitmentTypeOK, AuditTypeOK, ReceiptTypeOK, TaskShape, ReceiptShape

LEMMA TypeStutter == TypeInv /\ UNCHANGED vars => TypeInv'
BY DEF TypeInv, TypeOK, TaskShape, ReceiptShape, vars, policyVars, modelVars, taskVars,
   commitmentVars, auditVars, receiptVars, creditVars, PolicyTypeOK, ModelTypeOK, TaskTypeOK,
   CommitmentTypeOK, AuditTypeOK, ReceiptTypeOK, CreditTypeOK

LEMMA TypeStep == TypeInv /\ [Next]_vars => TypeInv'
BY PolicyTypeStep, ModelTypeStep, TaskTypeStep, CommitmentTypeStep, AuditTypeStep,
   ReceiptTypeStep, CreditTypeStep, TypeStutter DEF Next

\* The storage of every contract stays within its types (no balance or counter goes
\* negative, no record refers to what does not exist).
THEOREM TypeCorrect == Spec => []TypeOK
<1>1. Spec => []TypeInv
    BY TypeInit, TypeStep, PTL DEF Spec
<1> QED
    BY <1>1, PTL DEF TypeInv

-----------------------------------------------------------------------------
(***************************************************************************)
(* The inductive invariant.  The properties of PoIProperties hold together *)
(* and need these facts besides: ids not handed out yet are unused, a      *)
(* commitment has a task, its worker and a later finality height, a round  *)
(* the hash it audits.                                                     *)
(***************************************************************************)
IdsFresh ==
    /\ \A t \in TaskIds : t >= nextTaskId => ~tasks[t].active
    /\ \A r \in ReceiptIds : r >= nextReceiptId => receipts[r].state = "NONE"
    /\ \A r \in ReceiptIds : receipts[r].state = "NONE" => receipts[r].nullifier = Zero

CommitmentBinding ==
    \A t \in TaskIds : commitments[t].exists =>
        /\ tasks[t].active
        /\ commitments[t].worker = tasks[t].worker
        /\ commitments[t].committedBlock < commitments[t].finalizedBlock

RoundBinding ==
    \A t \in TaskIds : rounds[t].exists => rounds[t].commitment = commitments[t].hash

\* Only an opened round is disputed.
DisputeHasRound == \A t \in TaskIds : rounds[t].challenged => rounds[t].exists

\* Only a challenged task is slashed.
SlashHasChallenge == \A t \in TaskIds : rounds[t].slashed => rounds[t].challenged

Support ==
    /\ TypeInv
    /\ IdsFresh
    /\ CommitmentBinding
    /\ RoundBinding
    /\ DisputeHasRound
    /\ SlashHasChallenge
    /\ AuditAfterFinality

\* What has been written is not written again: the relation between the storage
\* before and after any step.
TasksPersist == \A t \in TaskIds : tasks[t].active => tasks'[t] = tasks[t]

CommitmentsPersist ==
    \A t \in TaskIds : commitments[t].exists => commitments'[t] = commitments[t]

RoundPersists(t) ==
    /\ rounds'[t].exists
    /\ rounds'[t].commitment = rounds[t].commitment
    /\ rounds'[t].openedBlock = rounds[t].openedBlock
    /\ rounds'[t].challengeDeadline = rounds[t].challengeDeadline
    /\ rounds[t].decision # "NONE" => rounds'[t].decision = rounds[t].decision
    /\ rounds[t].daRecorded =>
           rounds'[t].daRecorded /\ rounds'[t].daPassed = rounds[t].daPassed

RoundsPersist == \A t \in TaskIds : rounds[t].exists => RoundPersists(t)

ReceiptFixed(r) ==
    /\ receipts'[r].taskId = receipts[r].taskId
    /\ receipts'[r].worker = receipts[r].worker
    /\ receipts'[r].commitment = receipts[r].commitment
    /\ receipts'[r].nullifier = receipts[r].nullifier
    /\ receipts'[r].epochIssued = receipts[r].epochIssued
    /\ receipts'[r].challengeDeadline = receipts[r].challengeDeadline

ReceiptPersists(r) ==
    /\ Minted(r) => ReceiptFixed(r) /\ receipts'[r].state # "NONE"
    /\ Active(r) => receipts'[r] = receipts[r]

ReceiptsPersist == \A r \in ReceiptIds : ReceiptPersists(r)

LEMMA TasksStep == Support /\ [Next]_vars => TasksPersist
<1> SUFFICES ASSUME Support, [Next]_vars, NEW t \in TaskIds, tasks[t].active
             PROVE  tasks'[t] = tasks[t]
    BY DEF TasksPersist
<1>1. CASE TaskStep
  <2>1. ASSUME NEW w \in Workers, RegisterWorker(w)
        PROVE  tasks'[t] = tasks[t]
    BY <2>1 DEF RegisterWorker
  <2>2. ASSUME NEW m \in Models, NEW w \in Workers, NEW class \in TaskClasses,
               NEW budget \in Budgets, NEW epoch \in Epochs,
               CreateTask(m, w, class, budget, epoch)
        PROVE  tasks'[t] = tasks[t]
    <3>1. t # nextTaskId
      BY DEF Support, IdsFresh, TypeInv, TypeOK, TaskTypeOK, TaskIds
    <3> QED
      BY <2>2, <3>1 DEF CreateTask, Support, TypeInv, TypeOK, TaskTypeOK
  <2> QED
    BY <1>1, <2>1, <2>2 DEF TaskStep
<1>2. CASE ~TaskStep
    BY <1>2 DEF Next, PolicyStep, ModelStep, CommitmentStep, AuditStep, ReceiptStep,
       CreditStep, OnlyReceiptsChange, OnlyCreditChanges, vars, taskVars
<1> QED
    BY <1>1, <1>2

LEMMA CommitmentsStep == Support /\ [Next]_vars => CommitmentsPersist
<1> SUFFICES ASSUME Support, [Next]_vars, NEW t \in TaskIds, commitments[t].exists
             PROVE  commitments'[t] = commitments[t]
    BY DEF CommitmentsPersist
<1>1. CASE CommitmentStep
  <2>1. PICK u \in TaskIds, sender \in Workers, response \in Responses :
            CommitResponse(u, sender, response)
    BY <1>1 DEF CommitmentStep
  <2> QED
    BY <2>1 DEF CommitResponse, Support, TypeInv, TypeOK, CommitmentTypeOK
<1>2. CASE ~CommitmentStep
    BY <1>2 DEF Next, PolicyStep, ModelStep, TaskStep, AuditStep, ReceiptStep,
       CreditStep, OnlyReceiptsChange, OnlyCreditChanges, vars, commitmentVars
<1> QED
    BY <1>1, <1>2

LEMMA RoundsStep == Support /\ [Next]_vars => RoundsPersist
<1> SUFFICES ASSUME Support, [Next]_vars, NEW t \in TaskIds, rounds[t].exists
             PROVE  RoundPersists(t)
    BY DEF RoundsPersist
<1> USE DEF RoundPersists
<1>1. CASE AuditStep
  <2>1. rounds \in [TaskIds -> AuditRound]
    BY DEF Support, TypeInv, TypeOK, AuditTypeOK
  <2>2. PICK u \in TaskIds :
            \/ OpenAudit(u)
            \/ \E decision \in Decisions : RecordAuditResult(u, decision)
            \/ \E available \in BOOLEAN : RecordDataAvailability(u, available)
            \/ OpenChallenge(u)
            \/ SlashTask(u)
    BY <1>1 DEF AuditStep
  <2>3. CASE OpenAudit(u)
    BY <2>1, <2>3 DEF OpenAudit
  <2>4. ASSUME NEW decision \in Decisions, RecordAuditResult(u, decision)
        PROVE  RoundPersists(t)
    BY <2>1, <2>4 DEF RecordAuditResult, AuditRound
  <2>5. ASSUME NEW available \in BOOLEAN, RecordDataAvailability(u, available)
        PROVE  RoundPersists(t)
    BY <2>1, <2>5 DEF RecordDataAvailability, AuditRound
  <2>6. CASE OpenChallenge(u)
    BY <2>1, <2>6 DEF OpenChallenge, AuditRound
  <2>7. CASE SlashTask(u)
    BY <2>1, <2>7 DEF SlashTask, AuditRound
  <2> QED
    BY <2>2, <2>3, <2>4, <2>5, <2>6, <2>7
<1>2. CASE ~AuditStep
    BY <1>2 DEF Next, PolicyStep, ModelStep, TaskStep, CommitmentStep, ReceiptStep,
       CreditStep, OnlyReceiptsChange, OnlyCreditChanges, vars, auditVars
<1> QED
    BY <1>1, <1>2

LEMMA ReceiptsStep == Support /\ [Next]_vars => ReceiptsPersist
<1> SUFFICES ASSUME Support, [Next]_vars, NEW r \in ReceiptIds
             PROVE  ReceiptPersists(r)
    BY DEF ReceiptsPersist
<1> USE DEF ReceiptPersists, ReceiptFixed, Minted, Active
<1>1. CASE ReceiptStep
  <2>1. /\ receipts \in [ReceiptIds -> Receipt]
        /\ nextReceiptId \in Nat
        /\ Minted(r) => r # nextReceiptId
    BY DEF Support, IdsFresh, TypeInv, TypeOK, ReceiptTypeOK, ReceiptIds
  <2>2. ASSUME NEW t \in TaskIds, NEW nullifier \in Nullifiers, MintPending(t, nullifier)
        PROVE  ReceiptPersists(r)
    BY <2>1, <2>2 DEF MintPending
  <2>3. ASSUME NEW s \in ReceiptIds, Activate(s)
        PROVE  ReceiptPersists(r)
    BY <2>1, <2>3 DEF Activate, Receipt
  <2>4. ASSUME NEW s \in ReceiptIds, MarkChallenged(s)
        PROVE  ReceiptPersists(r)
    BY <2>1, <2>4 DEF MarkChallenged, SetReceiptState, Receipt
  <2>5. ASSUME NEW s \in ReceiptIds, SlashReceipt(s)
        PROVE  ReceiptPersists(r)
    BY <2>1, <2>5 DEF SlashReceipt, SetReceiptState, Receipt
  <2> QED
    BY <1>1, <2>2, <2>3, <2>4, <2>5 DEF ReceiptStep
<1>2. CASE ~ReceiptStep
    BY <1>2 DEF Next, PolicyStep, ModelStep, TaskStep, CommitmentStep, AuditStep,
       CreditStep, OnlyReceiptsChange, OnlyCreditChanges, vars, receiptVars
<1> QED
    BY <1>1, <1>2

\* Blocks only go up, and the epoch with them.
LEMMA QuotientMonotone ==
    ASSUME NEW a \in Nat, NEW b \in Nat, NEW d \in Nat \ {0}, a <= b
    PROVE  a \div d <= b \div d
<1> DEFINE p == a \div d
           q == b \div d
<1>1. /\ p \in Nat /\ q \in Nat
      /\ d * p <= a /\ b < d * q + d
    OBVIOUS
<1>2. SUFFICES ASSUME q < p PROVE FALSE
    BY <1>1
<1> HIDE DEF p, q
<1>3. PICK k \in Nat : p = q + 1 + k
  <2>1. p - q - 1 \in Nat
    BY <1>1, <1>2
  <2> QED
    BY <1>1, <2>1
<1>4. d * p = d * q + d + d * k
    BY <1>1, <1>3
<1>5. d * k \in Nat /\ d * q \in Nat
    BY <1>1, <1>3
<1> QED
    BY <1>1, <1>4, <1>5

LEMMA EpochMonotone ==
    ASSUME NEW g \in Nat, NEW h \in Nat, g <= h
    PROVE  EpochAt(g) <= EpochAt(h)
<1>1. CASE g < GenesisBlock
    BY <1>1, EpochType, PolicyAssumption DEF EpochAt
<1>2. CASE ~(g < GenesisBlock)
  <2>1. (g - GenesisBlock) \div BlocksPerEpoch <= (h - GenesisBlock) \div BlocksPerEpoch
    BY <1>2, QuotientMonotone, PolicyAssumption
  <2>2. ~(h < GenesisBlock)
    BY <1>2, PolicyAssumption
  <2>3. /\ EpochAt(g) = (g - GenesisBlock) \div BlocksPerEpoch + 1
        /\ EpochAt(h) = (h - GenesisBlock) \div BlocksPerEpoch + 1
    BY <1>2, <2>2 DEF EpochAt
  <2>4. EpochAt(g) \in Nat /\ EpochAt(h) \in Nat
    BY EpochType
  <2> QED
    BY <2>1, <2>3, <2>4, PolicyAssumption
<1> QED
    BY <1>1, <1>2

LEMMA ClockStep == Support /\ [Next]_vars =>
    /\ blockNumber' \in Nat /\ blockNumber <= blockNumber'
    /\ CurrentEpoch <= CurrentEpoch'
<1> SUFFICES ASSUME Support, [Next]_vars
             PROVE  /\ blockNumber' \in Nat /\ blockNumber <= blockNumber'
                    /\ CurrentEpoch <= CurrentEpoch'
    OBVIOUS
<1>1. blockNumber \in Nat
    BY DEF Support, TypeInv, TypeOK, PolicyTypeOK
<1>2. blockNumber' = blockNumber + 1 \/ blockNumber' = blockNumber
    BY DEF Next, PolicyStep, NextBlock, GrantRole, RevokeRole, SetProtocolPolicy, ModelStep,
       TaskStep, CommitmentStep, AuditStep, ReceiptStep, CreditStep, OnlyReceiptsChange,
       OnlyCreditChanges, vars, policyVars
<1> QED
    BY <1>1, <1>2, EpochMonotone DEF CurrentEpoch

-----------------------------------------------------------------------------
(***************************************************************************)
(* The invariant is inductive.                                             *)
(***************************************************************************)
LEMMA SupportInit == Init => Support
<1> SUFFICES ASSUME Init PROVE Support
    OBVIOUS
<1>1. TypeInv
    BY TypeInit
<1>2. IdsFresh
    BY DEF Init, TaskInit, ReceiptInit, IdsFresh, NoTask, NoReceipt
<1>3. CommitmentBinding
    BY DEF Init, CommitmentInit, CommitmentBinding, NoCommitment
<1>4. RoundBinding /\ DisputeHasRound /\ SlashHasChallenge /\ AuditAfterFinality
    BY DEF Init, AuditInit, RoundBinding, DisputeHasRound, SlashHasChallenge,
       AuditAfterFinality, NoRound
<1> QED
    BY <1>1, <1>2, <1>3, <1>4 DEF Support

LEMMA IdsFreshStep == Support /\ [Next]_vars => IdsFresh'
<1> SUFFICES ASSUME Support, [Next]_vars PROVE IdsFresh'
    OBVIOUS
<1> USE DEF Support, IdsFresh
<1>1. CASE TaskStep
  <2>1. ASSUME NEW w \in Workers, RegisterWorker(w)
        PROVE  IdsFresh'
    BY <1>1, <2>1 DEF TaskStep, RegisterWorker, receiptVars
  <2>2. ASSUME NEW m \in Models, NEW w \in Workers, NEW class \in TaskClasses,
               NEW budget \in Budgets, NEW epoch \in Epochs,
               CreateTask(m, w, class, budget, epoch)
        PROVE  IdsFresh'
    BY <1>1, <2>2 DEF TaskStep, CreateTask, receiptVars, TypeInv, TypeOK, TaskTypeOK, TaskIds
  <2> QED
    BY <1>1, <2>1, <2>2 DEF TaskStep
<1>2. CASE ReceiptStep
  <2>1. /\ receipts \in [ReceiptIds -> Receipt]
        /\ nextReceiptId \in Nat
        /\ UNCHANGED <<tasks, nextTaskId>>
    BY <1>2 DEF ReceiptStep, OnlyReceiptsChange, taskVars, TypeInv, TypeOK, ReceiptTypeOK
  <2>2. ASSUME NEW t \in TaskIds, NEW nullifier \in Nullifiers, MintPending(t, nullifier)
        PROVE  IdsFresh'
    BY <2>1, <2>2 DEF MintPending, ReceiptIds
  <2>3. ASSUME NEW r \in ReceiptIds, Activate(r)
        PROVE  IdsFresh'
    BY <2>1, <2>3 DEF Activate, Receipt
  <2>4. ASSUME NEW r \in ReceiptIds, MarkChallenged(r)
        PROVE  IdsFresh'
    BY <2>1, <2>4 DEF MarkChallenged, SetReceiptState, Receipt
  <2>5. ASSUME NEW r \in ReceiptIds, SlashReceipt(r)
        PROVE  IdsFresh'
    BY <2>1, <2>5 DEF SlashReceipt, SetReceiptState, Receipt
  <2> QED
    BY <1>2, <2>2, <2>3, <2>4, <2>5 DEF ReceiptStep
<1>3. CASE ~TaskStep /\ ~ReceiptStep
    BY <1>3 DEF Next, PolicyStep, ModelStep, CommitmentStep, AuditStep, CreditStep,
       OnlyCreditChanges, vars, taskVars, receiptVars
<1> QED
    BY <1>1, <1>2, <1>3

LEMMA CommitmentBindingStep == Support /\ [Next]_vars => CommitmentBinding'
<1> SUFFICES ASSUME Support, [Next]_vars, NEW t \in TaskIds, commitments'[t].exists
             PROVE  /\ tasks'[t].active
                    /\ commitments'[t].worker = tasks'[t].worker
                    /\ commitments'[t].committedBlock < commitments'[t].finalizedBlock
    BY DEF CommitmentBinding
<1>1. TasksPersist /\ CommitmentsPersist
    BY TasksStep, CommitmentsStep
<1>2. CASE commitments[t].exists
    BY <1>1, <1>2 DEF Support, CommitmentBinding, TasksPersist, CommitmentsPersist
<1>3. CASE ~commitments[t].exists
  <2>1. CommitmentStep
    BY <1>3 DEF Next, PolicyStep, ModelStep, TaskStep, AuditStep, ReceiptStep, CreditStep,
       OnlyReceiptsChange, OnlyCreditChanges, vars, commitmentVars
  <2>2. PICK u \in TaskIds, sender \in Workers, response \in Responses :
            CommitResponse(u, sender, response)
    BY <2>1 DEF CommitmentStep
  <2>3. u = t
    BY <1>3, <2>2 DEF CommitResponse, Support, TypeInv, TypeOK, CommitmentTypeOK
  <2>4. blockNumber \in Nat /\ policy.finalityDepth \in Nat \ {0}
    BY DEF Support, TypeInv, TypeOK, PolicyTypeOK, PolicyValue
  <2> QED
    BY <2>1, <2>2, <2>3, <2>4 DEF CommitmentStep, CommitResponse, taskVars, Support, TypeInv,
       TypeOK, CommitmentTypeOK
<1> QED
    BY <1>2, <1>3

\* A new round is opened on a finalized commitment, from its hash and the clock.
LEMMA RoundOpened ==
    ASSUME Support, [Next]_vars, NEW t \in TaskIds, rounds'[t].exists, ~rounds[t].exists
    PROVE  /\ IsFinalized(t)
           /\ rounds'[t].commitment = commitments[t].hash
           /\ rounds'[t].openedBlock = blockNumber
           /\ rounds'[t].challengeDeadline = blockNumber + policy.challengeWindow
           /\ blockNumber' = blockNumber /\ commitments' = commitments
<1>1. AuditStep
    BY DEF Next, PolicyStep, ModelStep, TaskStep, CommitmentStep, ReceiptStep, CreditStep,
       OnlyReceiptsChange, OnlyCreditChanges, vars, auditVars
<1>2. rounds \in [TaskIds -> AuditRound]
    BY DEF Support, TypeInv, TypeOK, AuditTypeOK
<1>3. PICK u \in TaskIds :
          \/ OpenAudit(u)
          \/ \E decision \in Decisions : RecordAuditResult(u, decision)
          \/ \E available \in BOOLEAN : RecordDataAvailability(u, available)
          \/ OpenChallenge(u)
          \/ SlashTask(u)
    BY <1>1 DEF AuditStep
<1>4. OpenAudit(u) /\ u = t
    BY <1>2, <1>3 DEF OpenAudit, RecordAuditResult, RecordDataAvailability, OpenChallenge,
       SlashTask, AuditRound
<1>5. rounds'[t] = OpenedRound(t)
    BY <1>2, <1>4 DEF OpenAudit
<1> QED
    BY <1>1, <1>4, <1>5 DEF OpenAudit, OpenedRound, NoRound, AuditStep, policyVars,
       commitmentVars

LEMMA AuditAfterFinalityStep == Support /\ [Next]_vars => AuditAfterFinality' /\ RoundBinding'
<1> SUFFICES ASSUME Support, [Next]_vars, NEW t \in TaskIds, rounds'[t].exists
             PROVE  /\ commitments'[t].exists
                    /\ commitments'[t].committedBlock < commitments'[t].finalizedBlock
                    /\ commitments'[t].finalizedBlock <= rounds'[t].openedBlock
                    /\ rounds'[t].openedBlock < rounds'[t].challengeDeadline
                    /\ rounds'[t].openedBlock <= blockNumber'
                    /\ rounds'[t].commitment = commitments'[t].hash
    BY DEF AuditAfterFinality, RoundBinding
<1>1. CommitmentsPersist /\ RoundsPersist
    BY CommitmentsStep, RoundsStep
<1>2. blockNumber \in Nat /\ blockNumber' \in Nat /\ blockNumber <= blockNumber'
    BY ClockStep DEF Support, TypeInv, TypeOK, PolicyTypeOK
<1>3. CASE rounds[t].exists
  <2>1. rounds[t].openedBlock \in Nat
    BY DEF Support, TypeInv, TypeOK, AuditTypeOK, AuditRound
  <2> QED
    BY <1>1, <1>2, <1>3, <2>1 DEF Support, AuditAfterFinality, RoundBinding, RoundsPersist,
       RoundPersists, CommitmentsPersist
<1>4. CASE ~rounds[t].exists
  <2>1. policy.challengeWindow \in Nat \ {0}
    BY DEF Support, TypeInv, TypeOK, PolicyTypeOK, PolicyValue
  <2> QED
    BY <1>2, <1>4, <2>1, RoundOpened DEF IsFinalized, Support, CommitmentBinding
<1> QED
    BY <1>3, <1>4

LEMMA DisputeHasRoundStep == Support /\ [Next]_vars => DisputeHasRound'
<1> SUFFICES ASSUME Support, [Next]_vars, NEW t \in TaskIds, rounds'[t].challenged
             PROVE  rounds'[t].exists
    BY DEF DisputeHasRound
<1>1. CASE rounds[t].exists
    BY <1>1, RoundsStep DEF RoundsPersist, RoundPersists
<1>2. CASE ~rounds[t].exists
  <2>1. ~rounds[t].challenged /\ rounds \in [TaskIds -> AuditRound]
    BY <1>2 DEF Support, DisputeHasRound, TypeInv, TypeOK, AuditTypeOK
  <2>2. AuditStep
    BY <2>1 DEF Next, PolicyStep, ModelStep, TaskStep, CommitmentStep, ReceiptStep,
       CreditStep, OnlyReceiptsChange, OnlyCreditChanges, vars, auditVars
  <2>3. ASSUME NEW u \in TaskIds, OpenAudit(u)
        PROVE  ~rounds'[t].challenged
    BY <2>1, <2>3 DEF OpenAudit, OpenedRound, NoRound
  <2>4. PICK u \in TaskIds : OpenChallenge(u)
    BY <2>1, <2>2, <2>3 DEF AuditStep, RecordAuditResult, RecordDataAvailability, SlashTask,
       AuditRound
  <2> QED
    BY <2>1, <2>4 DEF OpenChallenge, AuditRound
<1> QED
    BY <1>1, <1>2

LEMMA SlashHasChallengeStep == Support /\ [Next]_vars => SlashHasChallenge'
<1> SUFFICES ASSUME Support, [Next]_vars, NEW t \in TaskIds, rounds'[t].slashed
             PROVE  rounds'[t].challenged
    BY DEF SlashHasChallenge
<1>1. /\ rounds \in [TaskIds -> AuditRound]
      /\ rounds[t].slashed => rounds[t].challenged
    BY DEF Support, SlashHasChallenge, TypeInv, TypeOK, AuditTypeOK
<1>2. CASE rounds' = rounds
    BY <1>1, <1>2
<1>3. CASE rounds' # rounds
  <2>1. AuditStep
    BY <1>3 DEF Next, PolicyStep, ModelStep, TaskStep, CommitmentStep, ReceiptStep,
       CreditStep, OnlyReceiptsChange, OnlyCreditChanges, vars, auditVars
  <2>2. ASSUME NEW u \in TaskIds, OpenAudit(u)
        PROVE  rounds'[t].challenged
    BY <1>1, <2>2 DEF OpenAudit, OpenedRound, NoRound
  <2>3. ASSUME NEW u \in TaskIds, OpenChallenge(u) \/ SlashTask(u)
        PROVE  rounds'[t].challenged
    BY <1>1, <2>3 DEF OpenChallenge, SlashTask, AuditRound
  <2>4. ASSUME NEW u \in TaskIds,
               \/ \E decision \in Decisions : RecordAuditResult(u, decision)
               \/ \E available \in BOOLEAN : RecordDataAvailability(u, available)
        PROVE  rounds'[t].challenged
    BY <1>1, <2>4 DEF RecordAuditResult, RecordDataAvailability, AuditRound
  <2> QED
    BY <2>1, <2>2, <2>3, <2>4 DEF AuditStep
<1> QED
    BY <1>2, <1>3

LEMMA SupportStep == Support /\ [Next]_vars => Support'
BY TypeStep, IdsFreshStep, CommitmentBindingStep, DisputeHasRoundStep,
   SlashHasChallengeStep, AuditAfterFinalityStep DEF Support

LEMMA SupportInvariant == Spec => []Support
BY SupportInit, SupportStep, PTL DEF Spec

\* No audit is opened, and no seed revealed with it, before its commitment is final,
\* for any schedule of policy changes.
THEOREM AuditsFollowFinality == Spec => []AuditAfterFinality
BY SupportInvariant, PTL DEF Support

-----------------------------------------------------------------------------
(***************************************************************************)
(* Receipts.                                                               *)
(***************************************************************************)

\* A receipt enters the chain by mintPending, as the code writes it.
LEMMA ReceiptMinted ==
    ASSUME Support, [Next]_vars, NEW r \in ReceiptIds, Minted(r)', ~Minted(r)
    PROVE  \E t \in TaskIds, nullifier \in Nullifiers :
              MintPending(t, nullifier) /\ r = nextReceiptId /\ OnlyReceiptsChange
<1>1. ReceiptStep
    BY DEF Next, PolicyStep, ModelStep, TaskStep, CommitmentStep, AuditStep, CreditStep,
       OnlyCreditChanges, vars, receiptVars, Minted
<1>2. receipts \in [ReceiptIds -> Receipt]
    BY DEF Support, TypeInv, TypeOK, ReceiptTypeOK
<1>3. ASSUME NEW s \in ReceiptIds, Activate(s) \/ MarkChallenged(s) \/ SlashReceipt(s)
      PROVE  FALSE
    BY <1>2, <1>3 DEF Activate, MarkChallenged, SlashReceipt, SetReceiptState, Minted, Receipt
<1>4. PICK t \in TaskIds, nullifier \in Nullifiers : MintPending(t, nullifier)
    BY <1>1, <1>3 DEF ReceiptStep
<1>5. r = nextReceiptId
    BY <1>2, <1>4 DEF MintPending, Minted
<1> QED
    BY <1>1, <1>4, <1>5 DEF ReceiptStep

\* A receipt becomes active by activate, in a step that changes no other contract.
LEMMA ReceiptActivated ==
    ASSUME Support, [Next]_vars, NEW r \in ReceiptIds, Active(r)', ~Active(r)
    PROVE  Activate(r) /\ OnlyReceiptsChange
<1>1. ReceiptStep
    BY DEF Next, PolicyStep, ModelStep, TaskStep, CommitmentStep, AuditStep, CreditStep,
       OnlyCreditChanges, vars, receiptVars, Active
<1>2. receipts \in [ReceiptIds -> Receipt] /\ nextReceiptId \in Nat
    BY DEF Support, TypeInv, TypeOK, ReceiptTypeOK
<1>3. ASSUME NEW s \in ReceiptIds, MarkChallenged(s) \/ SlashReceipt(s)
      PROVE  FALSE
    BY <1>2, <1>3 DEF MarkChallenged, SlashReceipt, SetReceiptState, Active, Receipt
<1>4. ASSUME NEW t \in TaskIds, NEW nullifier \in Nullifiers, MintPending(t, nullifier)
      PROVE  FALSE
    BY <1>2, <1>4 DEF MintPending, Active
<1>5. PICK s \in ReceiptIds : Activate(s)
    BY <1>1, <1>3, <1>4 DEF ReceiptStep
<1>6. s = r
    BY <1>2, <1>5 DEF Activate, Active, Receipt
<1> QED
    BY <1>1, <1>5, <1>6 DEF ReceiptStep

LEMMA ReceiptBindingStep == Support /\ ReceiptBinding /\ [Next]_vars => ReceiptBinding'
<1> SUFFICES ASSUME Support, ReceiptBinding, [Next]_vars, NEW r \in ReceiptIds, Minted(r)'
             PROVE  /\ TaskOf(r)' \in TaskIds
                    /\ tasks'[TaskOf(r)'].active
                    /\ commitments'[TaskOf(r)'].exists /\ rounds'[TaskOf(r)'].exists
                    /\ receipts'[r].worker = tasks'[TaskOf(r)'].worker
                    /\ receipts'[r].worker = commitments'[TaskOf(r)'].worker
                    /\ receipts'[r].commitment = commitments'[TaskOf(r)'].hash
                    /\ receipts'[r].commitment = rounds'[TaskOf(r)'].commitment
                    /\ receipts'[r].epochIssued = tasks'[TaskOf(r)'].epoch
                    /\ receipts'[r].challengeDeadline = rounds'[TaskOf(r)'].challengeDeadline
    BY DEF ReceiptBinding, Minted, TaskOf
<1>1. CASE Minted(r)
    BY <1>1, TasksStep, CommitmentsStep, RoundsStep, ReceiptsStep
    DEF ReceiptBinding, TasksPersist, CommitmentsPersist, RoundsPersist, RoundPersists,
        ReceiptsPersist, ReceiptPersists, ReceiptFixed, TaskOf
<1>2. CASE ~Minted(r)
  <2>1. PICK t \in TaskIds, nullifier \in Nullifiers :
            MintPending(t, nullifier) /\ r = nextReceiptId /\ OnlyReceiptsChange
    BY <1>2, ReceiptMinted
  <2>2. receipts \in [ReceiptIds -> Receipt]
    BY DEF Support, TypeInv, TypeOK, ReceiptTypeOK
  <2> QED
    BY <2>1, <2>2 DEF MintPending, OnlyReceiptsChange, taskVars, commitmentVars, auditVars,
       TaskOf, Support, CommitmentBinding, RoundBinding
<1> QED
    BY <1>1, <1>2

\* Every receipt is bound to the task, the commitment and the audit it was minted for,
\* under any registration, deactivation, re-registration and policy change.
THEOREM ReceiptsBound == Spec => []ReceiptBinding
<1>1. Init => ReceiptBinding
    BY DEF Init, ReceiptInit, ReceiptBinding, Minted, NoReceipt
<1> QED
    BY <1>1, SupportInvariant, ReceiptBindingStep, PTL DEF Spec

LEMMA ActivationGateStep ==
    Support /\ ReceiptBinding /\ ActivationGate /\ [Next]_vars => ActivationGate'
<1> SUFFICES ASSUME Support, ReceiptBinding, ActivationGate, [Next]_vars,
                    NEW r \in ReceiptIds, Active(r)'
             PROVE  /\ Accepted(TaskOf(r))'
                    /\ blockNumber' >= rounds'[TaskOf(r)'].challengeDeadline
                    /\ receipts'[r].activatedEpoch = tasks'[TaskOf(r)'].epoch + 1
                    /\ receipts'[r].activatedEpoch <= CurrentEpoch'
    BY DEF ActivationGate, Active, TaskOf
<1> DEFINE t == receipts[r].taskId
<1>1. /\ blockNumber \in Nat /\ blockNumber' \in Nat /\ blockNumber <= blockNumber'
      /\ CurrentEpoch <= CurrentEpoch'
    BY ClockStep DEF Support, TypeInv, TypeOK, PolicyTypeOK
<1>2. CurrentEpoch \in Nat /\ CurrentEpoch' \in Nat
    BY <1>1, EpochType DEF CurrentEpoch
<1>3. CASE Active(r)
  <2>1. /\ t \in TaskIds /\ tasks[t].active /\ rounds[t].exists
        /\ receipts'[r] = receipts[r]
    BY <1>3, ReceiptsStep DEF ReceiptBinding, Active, Minted, TaskOf, ReceiptsPersist,
       ReceiptPersists
  <2>2. tasks'[t] = tasks[t] /\ RoundPersists(t)
    BY <2>1, TasksStep, RoundsStep DEF TasksPersist, RoundsPersist
  <2>3. rounds[t].challengeDeadline \in Nat /\ receipts[r].activatedEpoch \in Nat
    BY <2>1 DEF Support, TypeInv, TypeOK, AuditTypeOK, AuditRound, ReceiptTypeOK, Receipt
  <2>4. /\ Accepted(t)
        /\ blockNumber >= rounds[t].challengeDeadline
        /\ receipts[r].activatedEpoch = tasks[t].epoch + 1
        /\ receipts[r].activatedEpoch <= CurrentEpoch
    BY <1>3 DEF ActivationGate, TaskOf
  <2>5. Accepted(t)'
    BY <2>1, <2>2, <2>4 DEF Accepted, RoundPersists
  <2> QED
    BY <1>1, <1>2, <2>1, <2>2, <2>3, <2>4, <2>5 DEF RoundPersists, TaskOf, Accepted
<1>4. CASE ~Active(r)
  <2>1. Activate(r) /\ OnlyReceiptsChange
    BY <1>4, ReceiptActivated
  <2>2. /\ receipts'[r].taskId = t
        /\ receipts'[r].activatedEpoch = CurrentEpoch
    BY <2>1 DEF Activate, Support, TypeInv, TypeOK, ReceiptTypeOK, Receipt
  <2>3. /\ tasks' = tasks /\ rounds' = rounds /\ blockNumber' = blockNumber
        /\ CurrentEpoch' = CurrentEpoch
    BY <2>1 DEF OnlyReceiptsChange, taskVars, auditVars, policyVars, CurrentEpoch
  <2>4. IsTaskActivatable(t)
    BY <2>1 DEF Activate
  <2> QED
    BY <1>2, <2>2, <2>3, <2>4 DEF IsTaskActivatable, Accepted, TaskOf
<1> QED
    BY <1>3, <1>4

\* A receipt is active only after its audit accepted, its data was found available and
\* its challenge window reached its last block, and from the epoch after its task's.
THEOREM ActivationIsGated == Spec => []ActivationGate
<1>1. Init => ActivationGate
    BY DEF Init, ReceiptInit, ActivationGate, Active, NoReceipt
<1> QED
    BY <1>1, SupportInvariant, ReceiptsBound, ActivationGateStep, PTL DEF Spec

LEMMA NullifierStep ==
    Support /\ NullifierSingleUse /\ [Next]_vars => NullifierSingleUse'
<1> SUFFICES ASSUME Support, NullifierSingleUse, [Next]_vars PROVE NullifierSingleUse'
    OBVIOUS
<1> USE DEF NullifierSingleUse, Minted, Active
<1>1. /\ receipts \in [ReceiptIds -> Receipt] /\ nextReceiptId \in Nat
      /\ \A r \in ReceiptIds : r >= nextReceiptId => receipts[r].state = "NONE"
    BY DEF Support, TypeInv, TypeOK, ReceiptTypeOK, IdsFresh
<1>2. CASE ReceiptStep
  <2>1. ASSUME NEW t \in TaskIds, NEW n \in Nullifiers, MintPending(t, n)
        PROVE  NullifierSingleUse'
    <3>1. nextReceiptId \in ReceiptIds /\ ~Minted(nextReceiptId)
      BY <1>1, <2>1, ReceiptAssumption DEF MintPending, ReceiptIds, Support, TypeInv, TypeOK,
         ReceiptTypeOK
    <3>2. /\ receipts'[nextReceiptId].state = "PENDING"
          /\ receipts'[nextReceiptId].nullifier = n
          /\ \A r \in ReceiptIds \ {nextReceiptId} : receipts'[r] = receipts[r]
      BY <1>1, <2>1, <3>1 DEF MintPending
    <3>3. /\ n \notin reservedNullifiers
          /\ reservedNullifiers' = reservedNullifiers \cup {n}
          /\ usedNullifiers' = usedNullifiers
      BY <2>1 DEF MintPending, NullifierFree
    <3> QED
      BY <3>1, <3>2, <3>3
  <2>2. ASSUME NEW r \in ReceiptIds, Activate(r)
        PROVE  NullifierSingleUse'
    <3>1. /\ receipts[r].state = "PENDING"
          /\ receipts'[r].state = "ACTIVE"
          /\ receipts'[r].nullifier = receipts[r].nullifier
          /\ \A s \in ReceiptIds \ {r} : receipts'[s] = receipts[s]
      BY <1>1, <2>2 DEF Activate, Receipt
    <3>2. /\ reservedNullifiers' = reservedNullifiers
          /\ usedNullifiers' = usedNullifiers \cup {receipts[r].nullifier}
      BY <2>2 DEF Activate
    <3> QED
      BY <3>1, <3>2
  <2>3. ASSUME NEW r \in ReceiptIds, MarkChallenged(r) \/ SlashReceipt(r)
        PROVE  NullifierSingleUse'
    <3>1. /\ receipts[r].state \notin {"NONE", "ACTIVE"}
          /\ receipts'[r].state \notin {"NONE", "ACTIVE"}
          /\ receipts'[r].nullifier = receipts[r].nullifier
          /\ \A s \in ReceiptIds \ {r} : receipts'[s] = receipts[s]
      BY <1>1, <2>3 DEF MarkChallenged, SlashReceipt, SetReceiptState, Receipt
    <3>2. reservedNullifiers' = reservedNullifiers /\ usedNullifiers' = usedNullifiers
      BY <2>3 DEF MarkChallenged, SlashReceipt, SetReceiptState
    <3> QED
      BY <3>1, <3>2
  <2> QED
    BY <1>2, <2>1, <2>2, <2>3 DEF ReceiptStep
<1>3. CASE ~ReceiptStep
    BY <1>3 DEF Next, PolicyStep, ModelStep, TaskStep, CommitmentStep, AuditStep,
       CreditStep, OnlyCreditChanges, vars, receiptVars
<1> QED
    BY <1>2, <1>3

\* No nullifier is ever spent by two receipts.
THEOREM NullifiersSpentOnce == Spec => []NullifierSingleUse
<1>1. Init => NullifierSingleUse
    BY DEF Init, ReceiptInit, NullifierSingleUse, Minted, Active, NoReceipt
<1> QED
    BY <1>1, SupportInvariant, NullifierStep, PTL DEF Spec

-----------------------------------------------------------------------------
\* The receipts the counter of a task and a worker stands for.
ActiveOf(t, w) == {r \in ReceiptIds : Active(r) /\ TaskOf(r) = t /\ receipts[r].worker = w}

LEMMA ActiveCountStep == Support /\ ActiveCountExact /\ [Next]_vars => ActiveCountExact'
<1> SUFFICES ASSUME Support, ActiveCountExact, [Next]_vars,
                    NEW t \in TaskIds, NEW w \in Workers
             PROVE  activeReceiptCount'[t][w] = Cardinality(ActiveOf(t, w)')
    BY DEF ActiveCountExact, ActiveOf
<1>1. activeReceiptCount[t][w] = Cardinality(ActiveOf(t, w))
    BY DEF ActiveCountExact, ActiveOf
<1>2. receipts \in [ReceiptIds -> Receipt]
      /\ activeReceiptCount \in [TaskIds -> [Workers -> Nat]]
    BY DEF Support, TypeInv, TypeOK, ReceiptTypeOK
<1>3. CASE \E r \in ReceiptIds : Active(r)' /\ ~Active(r)
  <2>1. PICK r \in ReceiptIds : Active(r)' /\ ~Active(r)
    BY <1>3
  <2>2. Activate(r)
    BY <2>1, ReceiptActivated
  <2>3. /\ receipts'[r].taskId = receipts[r].taskId
        /\ receipts'[r].worker = receipts[r].worker
        /\ \A s \in ReceiptIds \ {r} : receipts'[s] = receipts[s]
        /\ receipts[r].taskId \in TaskIds /\ receipts[r].worker \in Workers
    BY <1>2, <2>2 DEF Activate, Receipt, Support, TypeInv, ReceiptShape
  <2>4. activeReceiptCount' = [activeReceiptCount EXCEPT
            ![receipts[r].taskId][receipts[r].worker] = @ + 1]
    BY <2>2 DEF Activate, CountActive
  <2>5. CASE receipts[r].taskId = t /\ receipts[r].worker = w
    <3>1. ActiveOf(t, w)' = ActiveOf(t, w) \cup {r} /\ r \notin ActiveOf(t, w)
      BY <2>1, <2>3, <2>5 DEF ActiveOf, Active, TaskOf
    <3>2. IsFiniteSet(ActiveOf(t, w))
      BY ReceiptIdsFinite DEF ActiveOf
    <3>3. Cardinality(ActiveOf(t, w)') = Cardinality(ActiveOf(t, w)) + 1
      BY <3>1, <3>2, FS_AddElement
    <3>4. activeReceiptCount'[t][w] = activeReceiptCount[t][w] + 1
      BY <1>2, <2>4, <2>5
    <3> QED
      BY <1>1, <3>3, <3>4
  <2>6. CASE ~(receipts[r].taskId = t /\ receipts[r].worker = w)
    <3>1. ActiveOf(t, w)' = ActiveOf(t, w)
      BY <2>1, <2>3, <2>6 DEF ActiveOf, Active, TaskOf
    <3>2. activeReceiptCount'[t][w] = activeReceiptCount[t][w]
      BY <1>2, <2>4, <2>6
    <3> QED
      BY <1>1, <3>1, <3>2
  <2> QED
    BY <2>5, <2>6
<1>4. CASE \A r \in ReceiptIds : Active(r)' => Active(r)
  <2>1. \A r \in ReceiptIds : Active(r) => receipts'[r] = receipts[r]
    BY ReceiptsStep DEF ReceiptsPersist, ReceiptPersists
  <2>2. ActiveOf(t, w)' = ActiveOf(t, w)
    BY <1>4, <2>1 DEF ActiveOf, Active, TaskOf
  <2>3. activeReceiptCount' = activeReceiptCount
    <3>1. ASSUME NEW r \in ReceiptIds, Activate(r)
          PROVE  FALSE
      BY <1>2, <1>4, <3>1 DEF Activate, Active, Receipt
    <3> QED
      BY <3>1 DEF Next, PolicyStep, ModelStep, TaskStep, CommitmentStep, AuditStep,
         ReceiptStep, CreditStep, OnlyCreditChanges, vars, receiptVars, MintPending,
         MarkChallenged, SlashReceipt, SetReceiptState
  <2> QED
    BY <1>1, <2>2, <2>3
<1> QED
    BY <1>3, <1>4

\* The counter the credit engine divides by is the number of active receipts.
THEOREM ActiveReceiptsCounted == Spec => []ActiveCountExact
<1>1. Init => ActiveCountExact
  <2> SUFFICES ASSUME Init, NEW t \in TaskIds, NEW w \in Workers
               PROVE  activeReceiptCount[t][w] = Cardinality(ActiveOf(t, w))
    BY DEF ActiveCountExact, ActiveOf
  <2>1. ActiveOf(t, w) = {}
    BY DEF Init, ReceiptInit, ActiveOf, Active, NoReceipt
  <2> QED
    BY <2>1, FS_EmptySet DEF Init, ReceiptInit
<1> QED
    BY <1>1, SupportInvariant, ActiveCountStep, PTL DEF Spec

-----------------------------------------------------------------------------
(***************************************************************************)
(* Credit.                                                                 *)
(***************************************************************************)

\* No task ever pays more than its budget.
BudgetRespected == \A t \in TaskIds : taskAllocated[t] <= tasks[t].budget

\* Credit is written by allocateCredit alone.
LEMMA CreditAllocated ==
    ASSUME [Next]_vars, <<creditedReceipts, taskAllocated>>' # <<creditedReceipts, taskAllocated>>
    PROVE  \E t \in TaskIds, ids \in SUBSET ReceiptIds :
              AllocateCredit(t, ids) /\ OnlyCreditChanges
<1>1. CreditStep
    BY DEF Next, PolicyStep, ModelStep, TaskStep, CommitmentStep, AuditStep, ReceiptStep,
       OnlyReceiptsChange, vars, creditVars
<1> QED
    BY <1>1 DEF CreditStep, SetCollateral

LEMMA CreditBackingStep ==
    Support /\ ReceiptBinding /\ CreditBacking /\ [Next]_vars => CreditBacking'
<1> SUFFICES ASSUME Support, ReceiptBinding, CreditBacking, [Next]_vars,
                    NEW r \in creditedReceipts'
             PROVE  /\ Active(r)'
                    /\ Creditable(TaskOf(r))'
                    /\ receipts'[r].activatedEpoch = tasks'[TaskOf(r)'].epoch + 1
    BY DEF CreditBacking, TaskOf
<1> DEFINE t == receipts[r].taskId
<1>1. creditedReceipts \subseteq ReceiptIds
    BY DEF Support, TypeInv, TypeOK, CreditTypeOK
<1>2. /\ r \in ReceiptIds
      /\ Active(r)
      /\ Creditable(t)
      /\ receipts[r].activatedEpoch = tasks[t].epoch + 1
  <2>1. CASE r \in creditedReceipts
    BY <1>1, <2>1 DEF CreditBacking, TaskOf
  <2>2. CASE r \notin creditedReceipts
    <3>1. PICK u \in TaskIds, ids \in SUBSET ReceiptIds :
              AllocateCredit(u, ids) /\ OnlyCreditChanges
      BY <2>2, CreditAllocated
    <3>2. r \in ids /\ CreditableReceipt(r, u) /\ Creditable(u)
      BY <2>2, <3>1 DEF AllocateCredit
    <3> QED
      BY <3>1, <3>2 DEF CreditableReceipt, Active
  <2> QED
    BY <2>1, <2>2
<1>3. receipts'[r] = receipts[r]
    BY <1>2, ReceiptsStep DEF ReceiptsPersist, ReceiptPersists
<1>4. t \in TaskIds /\ tasks[t].active
    BY <1>2 DEF ReceiptBinding, Active, Minted, TaskOf
<1>5. tasks'[t] = tasks[t]
    BY <1>4, TasksStep DEF TasksPersist
<1> QED
    BY <1>2, <1>3, <1>5 DEF Active, Creditable, TaskOf

\* Credit rests on a receipt that is active for good, of a consensus task with a
\* budget, activated in the epoch the credit counts for.
THEOREM CreditIsBacked == Spec => []CreditBacking
<1>1. Init => CreditBacking
    BY DEF Init, CreditInit, CreditBacking
<1> QED
    BY <1>1, SupportInvariant, ReceiptsBound, CreditBackingStep, PTL DEF Spec

\* A task not created yet has paid nothing: creating it cannot overdraw it.
BudgetInv == \A t \in TaskIds : taskAllocated[t] <= IF tasks[t].active THEN tasks[t].budget ELSE 0

LEMMA BudgetStep == Support /\ BudgetInv /\ [Next]_vars => BudgetInv'
<1> SUFFICES ASSUME Support, BudgetInv, [Next]_vars, NEW t \in TaskIds
             PROVE  taskAllocated'[t] <= IF tasks'[t].active THEN tasks'[t].budget ELSE 0
    BY DEF BudgetInv
<1>1. /\ taskAllocated \in [TaskIds -> Nat]
      /\ tasks \in [TaskIds -> Task] /\ tasks' \in [TaskIds -> Task]
    BY TypeStep DEF Support, TypeInv, TypeOK, CreditTypeOK, TaskTypeOK
<1>2. /\ taskAllocated[t] \in Nat
      /\ tasks[t].budget \in Nat /\ tasks'[t].budget \in Nat
      /\ taskAllocated[t] <= IF tasks[t].active THEN tasks[t].budget ELSE 0
    BY <1>1 DEF Task, BudgetInv
<1>3. CASE taskAllocated' = taskAllocated
  <2>1. CASE tasks[t].active
    BY <1>2, <1>3, <2>1, TasksStep DEF TasksPersist
  <2>2. CASE ~tasks[t].active
    BY <1>2, <1>3, <2>2
  <2> QED
    BY <2>1, <2>2
<1>4. CASE taskAllocated' # taskAllocated
  <2>1. PICK u \in TaskIds, ids \in SUBSET ReceiptIds :
            AllocateCredit(u, ids) /\ OnlyCreditChanges
    BY <1>4, CreditAllocated
  <2>2. tasks' = tasks
    BY <2>1 DEF OnlyCreditChanges, taskVars
  <2>3. CASE u = t
    BY <1>1, <2>1, <2>2, <2>3 DEF AllocateCredit, Creditable
  <2>4. CASE u # t
    BY <1>1, <1>2, <2>1, <2>2, <2>4 DEF AllocateCredit
  <2> QED
    BY <2>3, <2>4
<1> QED
    BY <1>3, <1>4

\* Per task, the credit allocated never exceeds the budget, in any number of calls.
THEOREM BudgetConserved == Spec => []BudgetRespected
<1>1. Init => BudgetInv
    BY DEF Init, TaskInit, CreditInit, BudgetInv, NoTask
<1>2. Support /\ BudgetInv => BudgetRespected
  <2> SUFFICES ASSUME Support, BudgetInv, NEW t \in TaskIds
               PROVE  taskAllocated[t] <= tasks[t].budget
    BY DEF BudgetRespected
  <2>1. taskAllocated[t] \in Nat /\ tasks[t].budget \in Nat
    BY DEF Support, TypeInv, TypeOK, CreditTypeOK, TaskTypeOK, Task
  <2> QED
    BY <2>1 DEF BudgetInv
<1> QED
    BY <1>1, <1>2, SupportInvariant, BudgetStep, PTL DEF Spec

\* The dispute race: a challenge against a task with an active receipt succeeds at
\* the height of the deadline and at no other.
THEOREM DisputeRaceBounded == Spec => LateDisputeOnlyAtDeadline
<1> DEFINE Late == \A t \in TaskIds :
               ~rounds[t].challenged /\ rounds'[t].challenged
                   /\ (\E r \in ReceiptIds : Active(r) /\ TaskOf(r) = t)
               => blockNumber = rounds[t].challengeDeadline
<1>1. Support /\ ActivationGate /\ [Next]_vars => Late
  <2> SUFFICES ASSUME Support, ActivationGate, [Next]_vars, NEW t \in TaskIds,
                      ~rounds[t].challenged, rounds'[t].challenged,
                      NEW r \in ReceiptIds, Active(r), TaskOf(r) = t
               PROVE  blockNumber = rounds[t].challengeDeadline
      OBVIOUS
  <2>1. AuditStep
      BY DEF Next, PolicyStep, ModelStep, TaskStep, CommitmentStep, ReceiptStep, CreditStep,
         OnlyReceiptsChange, OnlyCreditChanges, vars, auditVars
  <2>2. /\ rounds \in [TaskIds -> AuditRound] /\ blockNumber \in Nat
        /\ rounds[t].challengeDeadline \in Nat
      BY DEF Support, TypeInv, TypeOK, AuditTypeOK, PolicyTypeOK, AuditRound
  <2>3. PICK u \in TaskIds :
            \/ OpenAudit(u)
            \/ \E decision \in Decisions : RecordAuditResult(u, decision)
            \/ \E available \in BOOLEAN : RecordDataAvailability(u, available)
            \/ OpenChallenge(u)
            \/ SlashTask(u)
      BY <2>1 DEF AuditStep
  <2>4. ~OpenAudit(u)
      BY <2>2 DEF OpenAudit, OpenedRound, NoRound
  <2>5. OpenChallenge(u) /\ u = t
      BY <2>2, <2>3, <2>4 DEF RecordAuditResult, RecordDataAvailability, OpenChallenge,
         SlashTask, AuditRound
  <2>6. blockNumber <= rounds[t].challengeDeadline
      BY <2>5 DEF OpenChallenge
  <2>7. blockNumber >= rounds[t].challengeDeadline
      BY DEF ActivationGate
  <2> QED
      BY <2>2, <2>6, <2>7
<1>2. Spec => [][Late]_vars
    BY <1>1, SupportInvariant, ActivationIsGated, PTL DEF Spec
<1> QED
    BY <1>2 DEF LateDisputeOnlyAtDeadline

-----------------------------------------------------------------------------
(***************************************************************************)
(* The contracts implement the abstract receipt life cycle.                *)
(***************************************************************************)
LEMMA LifecycleInit == Init => Lifecycle!Init
BY DEF Init, ReceiptInit, AuditInit, NoReceipt, NoRound, Lifecycle!Init

\* An audit step disputes one task or none, and leaves the receipts alone.
LEMMA LifecycleAuditStep ==
    ASSUME Support, AuditStep PROVE [Lifecycle!Next]_(Lifecycle!vars)
<1>1. rounds \in [TaskIds -> AuditRound] /\ receipts' = receipts
    BY DEF AuditStep, receiptVars, Support, TypeInv, TypeOK, AuditTypeOK
<1> DEFINE disputed == {t \in TaskIds : rounds[t].challenged}
<1>2. PICK u \in TaskIds :
          \/ OpenAudit(u)
          \/ \E decision \in Decisions : RecordAuditResult(u, decision)
          \/ \E available \in BOOLEAN : RecordDataAvailability(u, available)
          \/ OpenChallenge(u)
          \/ SlashTask(u)
    BY DEF AuditStep
<1>3. CASE OpenChallenge(u)
  <2>1. disputed' = disputed \cup {u}
    BY <1>1, <1>3 DEF OpenChallenge, AuditRound
  <2>2. Lifecycle!Dispute(u)
    BY <1>1, <2>1 DEF Lifecycle!Dispute
  <2> QED
    BY <2>2 DEF Lifecycle!Next
<1>4. CASE ~OpenChallenge(u)
  <2>1. disputed' = disputed
    <3>1. CASE OpenAudit(u)
      <4>1. ~rounds[u].challenged /\ ~rounds'[u].challenged
        BY <1>1, <3>1 DEF OpenAudit, OpenedRound, NoRound, Support, DisputeHasRound
      <4> QED
        BY <1>1, <3>1, <4>1 DEF OpenAudit
    <3>2. CASE ~OpenAudit(u)
      BY <1>1, <1>2, <1>4, <3>2 DEF RecordAuditResult, RecordDataAvailability, SlashTask,
         AuditRound
    <3> QED
      BY <3>1, <3>2
  <2> QED
    BY <1>1, <2>1 DEF Lifecycle!vars
<1> QED
    BY <1>3, <1>4

LEMMA LifecycleReceiptStep ==
    ASSUME Support, NullifierSingleUse, ReceiptStep
    PROVE  [Lifecycle!Next]_(Lifecycle!vars)
<1> DEFINE stage == [r \in ReceiptIds |-> receipts[r].state]
           taskOf == [r \in ReceiptIds |-> receipts[r].taskId]
           nullifiers == [r \in ReceiptIds |-> receipts[r].nullifier]
           disputed == {t \in TaskIds : rounds[t].challenged}
<1>1. /\ receipts \in [ReceiptIds -> Receipt] /\ nextReceiptId \in Nat \ {0}
      /\ rounds' = rounds
      /\ disputed' = disputed
    BY DEF ReceiptStep, OnlyReceiptsChange, auditVars, Support, TypeInv, TypeOK, ReceiptTypeOK
<1>2. ASSUME NEW t \in TaskIds, NEW n \in Nullifiers, MintPending(t, n)
      PROVE  Lifecycle!Next
  <2> DEFINE r == nextReceiptId
  <2>1. r \in ReceiptIds /\ receipts[r].state = "NONE"
    BY <1>1, <1>2, ReceiptAssumption DEF MintPending, ReceiptIds, Support, IdsFresh
  <2>2. receipts' = [receipts EXCEPT ![r] = receipts'[r]]
        /\ receipts'[r].state = "PENDING" /\ receipts'[r].taskId = t
        /\ receipts'[r].nullifier = n
    BY <1>1, <1>2, <2>1 DEF MintPending
  <2>3. \A s \in ReceiptIds : receipts[s].nullifier # n
    <3> SUFFICES ASSUME NEW s \in ReceiptIds, receipts[s].nullifier = n PROVE FALSE
      OBVIOUS
    <3>1. n \notin reservedNullifiers
      BY <1>2 DEF MintPending, NullifierFree
    <3>2. ~Minted(s)
      BY <3>1 DEF NullifierSingleUse
    <3> QED
      BY <3>2, ReceiptAssumption DEF Minted, Support, IdsFresh
  <2>4. /\ stage' = [stage EXCEPT ![r] = "PENDING"]
        /\ taskOf' = [taskOf EXCEPT ![r] = t]
        /\ nullifiers' = [nullifiers EXCEPT ![r] = n]
    BY <1>1, <2>1, <2>2
  <2>5. Lifecycle!Mint(r, t, n)
    BY <1>1, <2>1, <2>3, <2>4 DEF Lifecycle!Mint
  <2> QED
    BY <2>1, <2>5 DEF Lifecycle!Next
<1>3. ASSUME NEW r \in ReceiptIds, NEW to,
             receipts'[r].state = to, \A s \in ReceiptIds \ {r} : receipts'[s] = receipts[s],
             receipts'[r].taskId = receipts[r].taskId,
             receipts'[r].nullifier = receipts[r].nullifier
      PROVE  /\ stage' = [stage EXCEPT ![r] = to]
             /\ taskOf' = taskOf
             /\ nullifiers' = nullifiers
    BY <1>1, <1>3
<1>4. ASSUME NEW r \in ReceiptIds, Activate(r)
      PROVE  Lifecycle!Next
  <2>1. /\ receipts[r].state = "PENDING" /\ receipts'[r].state = "ACTIVE"
        /\ receipts'[r].taskId = receipts[r].taskId
        /\ receipts'[r].nullifier = receipts[r].nullifier
        /\ \A s \in ReceiptIds \ {r} : receipts'[s] = receipts[s]
    BY <1>1, <1>4 DEF Activate, Receipt
  <2>2. receipts[r].taskId \notin disputed
    BY <1>4 DEF Activate, IsTaskActivatable
  <2>3. Lifecycle!Activate(r)
    BY <1>1, <1>3, <2>1, <2>2 DEF Lifecycle!Activate, Lifecycle!Move
  <2> QED
    BY <2>3 DEF Lifecycle!Next
<1>5. ASSUME NEW r \in ReceiptIds, MarkChallenged(r)
      PROVE  Lifecycle!Next
  <2>1. /\ receipts[r].state = "PENDING" /\ receipts'[r].state = "CHALLENGED"
        /\ receipts'[r].taskId = receipts[r].taskId
        /\ receipts'[r].nullifier = receipts[r].nullifier
        /\ \A s \in ReceiptIds \ {r} : receipts'[s] = receipts[s]
    BY <1>1, <1>5 DEF MarkChallenged, SetReceiptState, Receipt
  <2>2. receipts[r].taskId \in disputed
    BY <1>5 DEF MarkChallenged, IsTaskChallenged, Support, TypeInv, ReceiptShape
  <2>3. Lifecycle!Challenge(r)
    BY <1>1, <1>3, <2>1, <2>2 DEF Lifecycle!Challenge, Lifecycle!Move
  <2> QED
    BY <2>3 DEF Lifecycle!Next
<1>6. ASSUME NEW r \in ReceiptIds, SlashReceipt(r)
      PROVE  Lifecycle!Next
  <2>1. /\ receipts[r].state = "CHALLENGED" /\ receipts'[r].state = "SLASHED"
        /\ receipts'[r].taskId = receipts[r].taskId
        /\ receipts'[r].nullifier = receipts[r].nullifier
        /\ \A s \in ReceiptIds \ {r} : receipts'[s] = receipts[s]
    BY <1>1, <1>6 DEF SlashReceipt, SetReceiptState, Receipt
  <2>2. receipts[r].taskId \in disputed
    BY <1>6 DEF SlashReceipt, IsTaskSlashed, Support, SlashHasChallenge,
       TypeInv, ReceiptShape
  <2>3. Lifecycle!Slash(r)
    BY <1>1, <1>3, <2>1, <2>2 DEF Lifecycle!Slash, Lifecycle!Move
  <2> QED
    BY <2>3 DEF Lifecycle!Next
<1> QED
    BY <1>2, <1>4, <1>5, <1>6 DEF ReceiptStep

\* The other contracts neither move a receipt nor open a dispute.
LEMMA LifecycleStutter ==
    ASSUME receipts' = receipts, rounds' = rounds PROVE UNCHANGED Lifecycle!vars
BY DEF Lifecycle!vars

LEMMA LifecycleStep ==
    Support /\ NullifierSingleUse /\ [Next]_vars
        => [Lifecycle!Next]_(Lifecycle!vars)
<1> SUFFICES ASSUME Support, NullifierSingleUse, [Next]_vars
             PROVE  [Lifecycle!Next]_(Lifecycle!vars)
    OBVIOUS
<1>1. CASE AuditStep
    BY <1>1, LifecycleAuditStep
<1>2. CASE ReceiptStep
    BY <1>2, LifecycleReceiptStep
<1>3. CASE ~AuditStep /\ ~ReceiptStep
  <2>1. receipts' = receipts /\ rounds' = rounds
    BY <1>3 DEF Next, PolicyStep, ModelStep, TaskStep, CommitmentStep, CreditStep,
       OnlyCreditChanges, vars, auditVars, receiptVars
  <2> QED
    BY <2>1, LifecycleStutter
<1> QED
    BY <1>1, <1>2, <1>3

\* The composed contracts implement the abstract receipt life cycle: whatever the
\* auditors, the owner and the operators do, a receipt moves once through its stages
\* and is never activated once its task is disputed.
THEOREM ContractsImplementLifecycle == Spec => ImplementsLifecycle
<1>1. Spec => Lifecycle!Init
    BY LifecycleInit DEF Spec
<1>2. Spec => [][Lifecycle!Next]_(Lifecycle!vars)
    BY LifecycleStep, SupportInvariant, NullifiersSpentOnce, PTL DEF Spec
<1> QED
    BY <1>1, <1>2 DEF ImplementsLifecycle, Lifecycle!Spec

-----------------------------------------------------------------------------
(***************************************************************************)
(* Settlement.  Conservation of credit is inductive together with: a task  *)
(* has paid its whole budget or nothing, by whether it has a credited      *)
(* receipt; and the block height keeps the epochs within rawCredit.        *)
(***************************************************************************)
PaidByReceipts ==
    \A t \in TaskIds : taskAllocated[t] = IF Credited(t) = {} THEN 0 ELSE tasks[t].budget

EvenShares ==
    \A t \in TaskIds : \A r, s \in Credited(t) : receiptCredit[r] <= receiptCredit[s] + 1

\* The receipts behind the credit of a worker in an epoch.
CreditedTo(e, w) ==
    {r \in creditedReceipts : receipts[r].worker = w /\ tasks[TaskOf(r)].epoch + 1 = e}

CreditSums ==
    /\ \A t \in TaskIds : taskAllocated[t] = SumFunctionOnSet(receiptCredit, Credited(t))
    /\ \A e \in Epochs, w \in Workers :
          rawCredit[e][w] = SumFunctionOnSet(receiptCredit, CreditedTo(e, w))

OnlyCreditedHold == \A r \in ReceiptIds : receiptCredit[r] # 0 => r \in creditedReceipts

CreditInv ==
    /\ blockNumber <= MaxBlock
    /\ PaidByReceipts
    /\ EvenShares
    /\ CreditSums
    /\ OnlyCreditedHold

ReceiptsInv == Support /\ ReceiptBinding /\ ActivationGate /\ CreditBacking

LEMMA ReceiptsInvariant == Spec => []ReceiptsInv
BY SupportInvariant, ReceiptsBound, ActivationIsGated, CreditIsBacked, PTL DEF ReceiptsInv

\* The shares of a settlement add up to the budget: the remainder is handed out to
\* the unit and counted to the unit.
LEMMA SharesAddUp ==
    ASSUME NEW ids \in SUBSET ReceiptIds, ids # {}, NEW budget \in Nat,
           NEW f, \A r \in ids : f[r] = Share(budget, r, ids)
    PROVE  /\ TotalOfShares(budget, ids) = budget
           /\ SumFunctionOnSet(f, ids) = budget
           /\ \A r, s \in ids : f[r] <= f[s] + 1
<1> DEFINE n == Cardinality(ids)
           base == budget \div n
           left == budget % n
           more == {r \in ids : Rank(r, ids) < left}
<1>1. IsFiniteSet(ids)
    BY ReceiptIdsFinite
<1>2. n \in Nat /\ n # 0
    BY <1>1, FS_CardinalityType, FS_EmptySet
<1>3. base \in Nat /\ left \in Nat /\ left < n /\ base * n + left = budget
    BY <1>2, DivisionParts
<1>4. Cardinality(more) = left
  <2> DEFINE key == [r \in ids |-> r]
  <2>1. /\ key \in [ids -> Nat] /\ \A r, s \in ids : key[r] = key[s] => r = s
        /\ left <= Cardinality(ids)
    BY <1>2, <1>3 DEF ReceiptIds
  <2>2. more = {r \in ids : Cardinality({s \in ids : key[s] < key[r]}) < left}
    BY DEF Rank
  <2> HIDE DEF left, key, more
  <2>3. Cardinality({r \in ids : Cardinality({s \in ids : key[s] < key[r]}) < left}) = left
    BY <1>1, <1>3, <2>1, FirstOfRank
  <2> QED
    BY <2>2, <2>3, Zenon
<1>5. TotalOfShares(budget, ids) = base * n + Cardinality(more)
    BY Zenon DEF TotalOfShares
<1>6. \A r \in ids : f[r] = base + (IF r \in more THEN 1 ELSE 0)
    BY DEF Share
<1>7. SumFunctionOnSet(f, ids) = base * n + Cardinality(ids \cap more)
  <2> HIDE DEF base, more
  <2> QED
    BY <1>1, <1>3, <1>6, SumOfEvenShares DEF n
<1>8. ids \cap more = more
    OBVIOUS
<1>9. SumFunctionOnSet(f, ids) = base * n + Cardinality(more)
    BY <1>7, <1>8, Zenon
<1> HIDE DEF base, left, more, n
<1>10. \A r, s \in ids : f[r] <= f[s] + 1
    BY <1>3, <1>6
<1> QED
    BY <1>3, <1>4, <1>5, <1>9, <1>10

\* What a settlement does: the task has paid nothing before, and now pays its budget,
\* shared out among receipts that hold nothing yet, in an epoch that has begun.
LEMMA Settlement ==
    ASSUME ReceiptsInv, CreditInv, NEW t \in TaskIds, NEW ids \in SUBSET ReceiptIds,
           AllocateCredit(t, ids)
    PROVE  /\ ids # {} /\ ids \cap creditedReceipts = {}
           /\ \A r \in ids : TaskOf(r) = t /\ receipts[r].worker = tasks[t].worker
           /\ Creditable(t) /\ Credited(t) = {}
           /\ tasks[t].budget \in Nat \ {0} /\ tasks[t].worker \in Workers
           /\ CreditEpoch(t) \in Epochs /\ CreditEpoch(t) <= CurrentEpoch
           /\ taskAllocated[t] = 0
           /\ taskAllocated' = [taskAllocated EXCEPT ![t] = tasks[t].budget]
           /\ creditedReceipts' = creditedReceipts \cup ids
           /\ \A r \in ReceiptIds \ ids : receiptCredit'[r] = receiptCredit[r]
           /\ \A r \in ids : receiptCredit'[r] = Share(tasks[t].budget, r, ids)
           /\ rawCredit' = [rawCredit EXCEPT ![CreditEpoch(t)][tasks[t].worker]
                                = @ + tasks[t].budget]
<1> DEFINE budget == tasks[t].budget
           total == TotalOfShares(budget, ids)
<1>1. /\ tasks \in [TaskIds -> Task] /\ taskAllocated \in [TaskIds -> Nat]
      /\ blockNumber \in Nat /\ blockNumber <= MaxBlock
      /\ \A r \in ReceiptIds : receipts[r].activatedEpoch \in Nat
    BY DEF ReceiptsInv, CreditInv, Support, TypeInv, TypeOK, TaskTypeOK, CreditTypeOK, PolicyTypeOK,
       ReceiptTypeOK, Receipt
<1>2. /\ Creditable(t) /\ ids # {}
      /\ \A r \in ids : CreditableReceipt(r, t)
      /\ taskAllocated[t] + total <= budget
      /\ tasks[t].worker \in Workers
      /\ taskAllocated' = [taskAllocated EXCEPT ![t] = @ + total]
      /\ creditedReceipts' = creditedReceipts \cup ids
      /\ receiptCredit' = [r \in ReceiptIds |->
               IF r \in ids THEN Share(budget, r, ids) ELSE receiptCredit[r]]
      /\ rawCredit' = [rawCredit EXCEPT ![CreditEpoch(t)][tasks[t].worker] = @ + total]
    BY DEF AllocateCredit, ReceiptsInv, Support, TypeInv, TaskShape, Creditable
<1>3. budget \in Nat \ {0} /\ tasks[t].epoch \in Nat
    BY <1>1, <1>2 DEF Creditable, Task
<1>4. total = budget
  <2>1. \A r \in ids : receiptCredit'[r] = Share(budget, r, ids)
    BY <1>2
  <2> HIDE DEF budget
  <2> QED
    BY <1>2, <1>3, <2>1, SharesAddUp
<1>5. taskAllocated[t] = 0
    BY <1>1, <1>2, <1>3, <1>4
<1>6. Credited(t) = {}
    BY <1>3, <1>5 DEF CreditInv, PaidByReceipts
<1>7. ids \cap creditedReceipts = {}
      /\ \A r \in ids : TaskOf(r) = t /\ receipts[r].worker = tasks[t].worker
    BY <1>2 DEF CreditableReceipt, TaskOf
<1>8. CreditEpoch(t) \in Nat /\ CreditEpoch(t) <= CurrentEpoch
  <2>1. PICK r \in ids : TRUE
    BY <1>2
  <2>2. Active(r) /\ TaskOf(r) = t
    BY <1>2 DEF CreditableReceipt, Active, TaskOf
  <2>3. receipts[r].activatedEpoch = tasks[t].epoch + 1
        /\ receipts[r].activatedEpoch <= CurrentEpoch
    BY <2>2 DEF ReceiptsInv, ActivationGate
  <2> QED
    BY <1>3, <2>3 DEF CreditEpoch
<1>9. CreditEpoch(t) \in Epochs
  <2>1. CurrentEpoch <= EpochAt(MaxBlock) /\ CurrentEpoch \in Nat
    BY <1>1, EpochMonotone, EpochType, PolicyAssumption DEF CurrentEpoch
  <2>2. EpochAt(MaxBlock) \in Nat
    BY EpochType, PolicyAssumption
  <2> QED
    BY <1>8, <2>1, <2>2, CreditAssumption DEF Epochs
<1>10. taskAllocated' = [taskAllocated EXCEPT ![t] = budget]
  <2>1. taskAllocated[t] + total = budget
    BY <1>3, <1>4, <1>5
  <2> HIDE DEF total, budget
  <2> QED
    BY <1>2, <2>1
<1>11. rawCredit' = [rawCredit EXCEPT ![CreditEpoch(t)][tasks[t].worker] = @ + budget]
    BY <1>2, <1>4, Zenon
<1>12. /\ \A r \in ReceiptIds \ ids : receiptCredit'[r] = receiptCredit[r]
       /\ \A r \in ids : receiptCredit'[r] = Share(budget, r, ids)
    BY <1>2
<1>13. tasks[t].budget \in Nat \ {0}
    BY <1>3
<1>14. CreditEpoch(t) \in Epochs /\ CreditEpoch(t) <= CurrentEpoch
    BY <1>8, <1>9
<1> QED
    BY <1>2, <1>5, <1>6, <1>7, <1>10, <1>11, <1>12, <1>13, <1>14, ZenonT(60)

-----------------------------------------------------------------------------
\* Every step settles a task or leaves credit alone.
LEMMA SettledOrNot ==
    ASSUME [Next]_vars
    PROVE  \/ \E t \in TaskIds, ids \in SUBSET ReceiptIds : AllocateCredit(t, ids) /\ OnlyCreditChanges
           \/ UNCHANGED <<rawCredit, taskAllocated, creditedReceipts, receiptCredit>>
BY DEF Next, PolicyStep, ModelStep, TaskStep, CommitmentStep, AuditStep, ReceiptStep, CreditStep,
   SetCollateral, OnlyReceiptsChange, vars, creditVars

\* A credited receipt, its task and what they agree on are not written again.
LEMMA CreditedFixed ==
    ASSUME ReceiptsInv, [Next]_vars, NEW r \in creditedReceipts
    PROVE  /\ r \in ReceiptIds /\ receipts'[r] = receipts[r]
           /\ TaskOf(r) \in TaskIds /\ tasks'[TaskOf(r)] = tasks[TaskOf(r)]
           /\ receipts[r].worker = tasks[TaskOf(r)].worker
<1>1. r \in ReceiptIds /\ Active(r)
    BY DEF ReceiptsInv, Support, TypeInv, TypeOK, CreditTypeOK, CreditBacking
<1>2. receipts'[r] = receipts[r]
    BY <1>1, ReceiptsStep DEF ReceiptsInv, ReceiptsPersist, ReceiptPersists
<1>3. TaskOf(r) \in TaskIds /\ tasks[TaskOf(r)].active /\ receipts[r].worker = tasks[TaskOf(r)].worker
    BY <1>1 DEF ReceiptsInv, ReceiptBinding, Active, Minted
<1>4. tasks'[TaskOf(r)] = tasks[TaskOf(r)]
    BY <1>3, TasksStep DEF ReceiptsInv, TasksPersist
<1> QED
    BY <1>1, <1>2, <1>3, <1>4

\* A step that settles nothing.
LEMMA CreditUntouched ==
    ASSUME ReceiptsInv, CreditInv, [Next]_vars,
           UNCHANGED <<rawCredit, taskAllocated, creditedReceipts, receiptCredit>>
    PROVE  PaidByReceipts' /\ EvenShares' /\ CreditSums' /\ OnlyCreditedHold'
<1>1. \A t \in TaskIds : Credited(t)' = Credited(t)
    BY CreditedFixed DEF Credited, TaskOf
<1>2. \A e \in Epochs, w \in Workers : CreditedTo(e, w)' = CreditedTo(e, w)
    BY CreditedFixed DEF CreditedTo, TaskOf
<1>3. ASSUME NEW t \in TaskIds, Credited(t) # {}
      PROVE  tasks'[t] = tasks[t]
    BY <1>3, CreditedFixed DEF Credited
<1>4. PaidByReceipts'
    BY <1>1, <1>3 DEF CreditInv, PaidByReceipts
<1>5. EvenShares'
    BY <1>1 DEF CreditInv, EvenShares
<1>6. CreditSums'
    BY <1>1, <1>2 DEF CreditInv, CreditSums
<1>7. OnlyCreditedHold'
    BY DEF CreditInv, OnlyCreditedHold
<1> QED
    BY <1>4, <1>5, <1>6, <1>7

LEMMA CreditSettled ==
    ASSUME ReceiptsInv, CreditInv, [Next]_vars,
           NEW u \in TaskIds, NEW ids \in SUBSET ReceiptIds,
           AllocateCredit(u, ids), OnlyCreditChanges
    PROVE  PaidByReceipts' /\ EvenShares' /\ CreditSums' /\ OnlyCreditedHold'
<1> DEFINE budget == tasks[u].budget
           due == CreditEpoch(u)
           worker == tasks[u].worker
<1>1. /\ ids # {} /\ ids \cap creditedReceipts = {}
      /\ \A r \in ids : TaskOf(r) = u /\ receipts[r].worker = worker
      /\ Credited(u) = {}
      /\ budget \in Nat \ {0} /\ worker \in Workers
      /\ due \in Epochs
      /\ taskAllocated[u] = 0
      /\ taskAllocated' = [taskAllocated EXCEPT ![u] = budget]
      /\ creditedReceipts' = creditedReceipts \cup ids
      /\ \A r \in ReceiptIds \ ids : receiptCredit'[r] = receiptCredit[r]
      /\ \A r \in ids : receiptCredit'[r] = Share(budget, r, ids)
      /\ rawCredit' = [rawCredit EXCEPT ![due][worker] = @ + budget]
    BY Settlement
<1>2. /\ taskAllocated \in [TaskIds -> Nat] /\ rawCredit \in [Epochs -> [Workers -> Nat]]
      /\ receiptCredit \in [ReceiptIds -> Nat] /\ creditedReceipts \subseteq ReceiptIds
      /\ receiptCredit' \in [ReceiptIds -> Nat]
    BY TypeStep DEF ReceiptsInv, Support, TypeInv, TypeOK, CreditTypeOK
<1>3. /\ SumFunctionOnSet(receiptCredit', ids) = budget
      /\ \A r, s \in ids : receiptCredit'[r] <= receiptCredit'[s] + 1
  <2> HIDE DEF budget
  <2> QED
    BY <1>1, SharesAddUp
<1>4. tasks' = tasks /\ receipts' = receipts
    BY DEF OnlyCreditChanges, taskVars, receiptVars
<1> HIDE DEF budget, due, worker
\* Receipts credited before hold what they held.
<1>5. ASSUME NEW R \in SUBSET creditedReceipts
      PROVE  /\ SumFunctionOnSet(receiptCredit', R) = SumFunctionOnSet(receiptCredit, R)
             /\ IsFiniteSet(R) /\ R \cap ids = {} /\ SumFunctionOnSet(receiptCredit, R) \in Nat
  <2>1. IsFiniteSet(R) /\ R \cap ids = {} /\ R \subseteq ReceiptIds
    BY <1>1, <1>2, ReceiptIdsFinite
  <2>2. \A r \in R : receiptCredit'[r] = receiptCredit[r] /\ receiptCredit[r] \in Nat
    BY <1>1, <1>2, <2>1
  <2> QED
    BY <2>1, <2>2, SumAgrees, SumIsNat
<1>6. Credited(u)' = ids /\ \A t \in TaskIds \ {u} : Credited(t)' = Credited(t)
    BY <1>1, <1>4 DEF Credited, TaskOf
<1>7. PaidByReceipts'
  <2> SUFFICES ASSUME NEW t \in TaskIds
               PROVE  taskAllocated'[t] = IF Credited(t)' = {} THEN 0 ELSE tasks'[t].budget
    BY DEF PaidByReceipts
  <2>1. CASE t = u
    BY <1>1, <1>2, <1>4, <1>6, <2>1 DEF budget
  <2>2. CASE t # u
    BY <1>1, <1>2, <1>4, <1>6, <2>2 DEF CreditInv, PaidByReceipts
  <2> QED
    BY <2>1, <2>2
<1>8. EvenShares'
  <2> SUFFICES ASSUME NEW t \in TaskIds, NEW r \in Credited(t)', NEW s \in Credited(t)'
               PROVE  receiptCredit'[r] <= receiptCredit'[s] + 1
    BY DEF EvenShares
  <2>1. CASE t = u
    BY <1>3, <1>6, <2>1
  <2>2. CASE t # u
    <3>1. r \in Credited(t) /\ s \in Credited(t)
      BY <1>6, <2>2
    <3>2. receiptCredit'[r] = receiptCredit[r] /\ receiptCredit'[s] = receiptCredit[s]
      BY <1>1, <1>2, <3>1 DEF Credited
    <3> QED
      BY <3>1, <3>2 DEF CreditInv, EvenShares
  <2> QED
    BY <2>1, <2>2
<1>9. \A t \in TaskIds : taskAllocated'[t] = SumFunctionOnSet(receiptCredit', Credited(t)')
  <2> SUFFICES ASSUME NEW t \in TaskIds
               PROVE  taskAllocated'[t] = SumFunctionOnSet(receiptCredit', Credited(t)')
    OBVIOUS
  <2>1. CASE t = u
    <3>1. SumFunctionOnSet(receiptCredit', Credited(t)') = budget
      BY <1>3, <1>6, <2>1
    <3> QED
      BY <1>1, <1>2, <2>1, <3>1
  <2>2. CASE t # u
    <3>1. Credited(t) \in SUBSET creditedReceipts
      BY DEF Credited
    <3>2. SumFunctionOnSet(receiptCredit', Credited(t)') = SumFunctionOnSet(receiptCredit, Credited(t))
      BY <1>5, <1>6, <2>2, <3>1
    <3> QED
      BY <1>1, <1>2, <2>2, <3>2 DEF CreditInv, CreditSums
  <2> QED
    BY <2>1, <2>2
<1>10. ASSUME NEW e \in Epochs, NEW w \in Workers
       PROVE  rawCredit'[e][w] = SumFunctionOnSet(receiptCredit', CreditedTo(e, w)')
  <2> DEFINE before == CreditedTo(e, w)
  <2>1. before \in SUBSET creditedReceipts
    BY DEF CreditedTo
  <2>2. rawCredit[e][w] = SumFunctionOnSet(receiptCredit, before)
    BY DEF CreditInv, CreditSums
  <2>3. CASE e = due /\ w = worker
    <3>1. CreditedTo(e, w)' = before \cup ids
      BY <1>1, <1>4, <2>3 DEF CreditedTo, TaskOf, CreditEpoch, due
    <3>2. /\ IsFiniteSet(before) /\ IsFiniteSet(ids) /\ before \cap ids = {}
          /\ \A r \in before \cup ids : receiptCredit'[r] \in Int
      <4> HIDE DEF before
      <4>1. IsFiniteSet(before) /\ before \cap ids = {}
        BY <1>5, <2>1
      <4>2. \A r \in ReceiptIds : receiptCredit'[r] \in Int
        BY <1>2
      <4>3. before \cup ids \subseteq ReceiptIds
        BY <1>2, <2>1
      <4> QED
        BY <4>1, <4>2, <4>3, ReceiptIdsFinite
    <3> HIDE DEF before
    <3>3. SumFunctionOnSet(receiptCredit', before \cup ids)
            = SumFunctionOnSet(receiptCredit', before) + SumFunctionOnSet(receiptCredit', ids)
      BY <3>2, SumOfUnion
    <3>4. SumFunctionOnSet(receiptCredit', CreditedTo(e, w)') = rawCredit[e][w] + budget
      <4>1. SumFunctionOnSet(receiptCredit', before) = rawCredit[e][w]
        BY <1>5, <2>1, <2>2
      <4>2. SumFunctionOnSet(receiptCredit', CreditedTo(e, w)')
              = SumFunctionOnSet(receiptCredit', before \cup ids)
        BY <3>1, Zenon
      <4> QED
        BY <1>3, <3>3, <4>1, <4>2, Zenon
    <3>5. rawCredit'[e][w] = rawCredit[e][w] + budget
      BY <1>1, <1>2, <2>3
    <3> QED
      BY <3>4, <3>5
  <2>4. CASE ~(e = due /\ w = worker)
    <3>1. CreditedTo(e, w)' = before
      BY <1>1, <1>4, <2>4 DEF CreditedTo, TaskOf, CreditEpoch, due
    <3>2. rawCredit'[e][w] = rawCredit[e][w]
      BY <1>1, <1>2, <2>4
    <3> QED
      BY <1>5, <2>1, <2>2, <3>1, <3>2
  <2> QED
    BY <2>3, <2>4
<1>11. CreditSums'
    BY <1>9, <1>10 DEF CreditSums
<1>12. OnlyCreditedHold'
    BY <1>1 DEF CreditInv, OnlyCreditedHold
<1> QED
    BY <1>7, <1>8, <1>11, <1>12

LEMMA BlockBound ==
    ASSUME Support, blockNumber <= MaxBlock, [Next]_vars PROVE blockNumber' <= MaxBlock
<1>1. blockNumber \in Nat /\ MaxBlock \in Nat
    BY PolicyAssumption DEF Support, TypeInv, TypeOK, PolicyTypeOK
<1>2. (blockNumber < MaxBlock /\ blockNumber' = blockNumber + 1) \/ blockNumber' = blockNumber
    BY DEF Next, PolicyStep, NextBlock, GrantRole, RevokeRole, SetProtocolPolicy, ModelStep,
       TaskStep, CommitmentStep, AuditStep, ReceiptStep, CreditStep, OnlyReceiptsChange,
       OnlyCreditChanges, vars, policyVars
<1> QED
    BY <1>1, <1>2

LEMMA CreditInvStep == ReceiptsInv /\ CreditInv /\ [Next]_vars => CreditInv'
<1> SUFFICES ASSUME ReceiptsInv, CreditInv, [Next]_vars PROVE CreditInv'
    OBVIOUS
<1>1. blockNumber' <= MaxBlock
    BY BlockBound DEF ReceiptsInv, CreditInv
<1>2. PaidByReceipts' /\ EvenShares' /\ CreditSums' /\ OnlyCreditedHold'
    BY SettledOrNot, CreditUntouched, CreditSettled
<1> QED
    BY <1>1, <1>2 DEF CreditInv

LEMMA CreditInvInit == Init => CreditInv
<1> SUFFICES ASSUME Init PROVE CreditInv
    OBVIOUS
<1> USE DEF Init, TaskInit, CreditInit
<1>1. creditedReceipts = {} /\ \A t \in TaskIds : Credited(t) = {}
    BY DEF Credited
<1>2. \A e \in Epochs, w \in Workers : CreditedTo(e, w) = {}
    BY <1>1 DEF CreditedTo
<1>3. PaidByReceipts /\ EvenShares
    BY <1>1 DEF PaidByReceipts, EvenShares
<1>4. CreditSums
    BY <1>1, <1>2, SumOfNone DEF CreditSums
<1>5. OnlyCreditedHold
    BY DEF OnlyCreditedHold
<1>6. blockNumber <= MaxBlock
    BY PolicyAssumption DEF PolicyInit
<1> QED
    BY <1>3, <1>4, <1>5, <1>6 DEF CreditInv

LEMMA CreditInvariant == Spec => []CreditInv
BY CreditInvInit, CreditInvStep, ReceiptsInvariant, PTL DEF Spec

\* Credit is conserved in every deployment: what a task has paid is to the unit what its
\* credited receipts hold, and a worker's credit in an epoch what the receipts of its
\* tasks of the epoch before hold.
THEOREM CreditIsConserved == Spec => []CreditConservation
<1>1. CreditInv => CreditConservation
    BY DEF CreditInv, CreditSums, OnlyCreditedHold, CreditConservation, CreditedTo
<1> QED
    BY <1>1, CreditInvariant, PTL

\* A task pays its whole budget or nothing, only as a consensus task, and evenly.
THEOREM SettlementIsFull == Spec => []SettledInFull
<1>1. ReceiptsInv /\ CreditInv => SettledInFull
  <2> SUFFICES ASSUME ReceiptsInv, CreditInv, NEW t \in TaskIds
               PROVE  /\ taskAllocated[t] \in {0, tasks[t].budget}
                      /\ taskAllocated[t] # 0 => tasks[t].class = "CONSENSUS"
                      /\ \A r, s \in Credited(t) : receiptCredit[r] <= receiptCredit[s] + 1
    BY DEF SettledInFull
  <2>1. ASSUME taskAllocated[t] # 0 PROVE tasks[t].class = "CONSENSUS"
    <3>1. PICK r \in Credited(t) : TRUE
      BY <2>1 DEF CreditInv, PaidByReceipts
    <3> QED
      BY <3>1 DEF ReceiptsInv, CreditBacking, Credited, Creditable
  <2> QED
    BY <2>1 DEF CreditInv, PaidByReceipts, EvenShares
<1> QED
    BY <1>1, CreditInvariant, ReceiptsInvariant, PTL

-----------------------------------------------------------------------------
(***************************************************************************)
(* The contracts implement the abstract credit ledger.                     *)
(***************************************************************************)
\* A task id not handed out yet has the mapping's zero value.
UnusedTasksEmpty == \A t \in TaskIds : ~tasks[t].active => tasks[t] = NoTask

LEMMA UnusedTasksStep == Support /\ UnusedTasksEmpty /\ [Next]_vars => UnusedTasksEmpty'
<1> SUFFICES ASSUME Support, UnusedTasksEmpty, [Next]_vars, NEW t \in TaskIds, ~tasks'[t].active
             PROVE  tasks'[t] = NoTask
    BY DEF UnusedTasksEmpty
<1>1. tasks \in [TaskIds -> Task]
    BY DEF Support, TypeInv, TypeOK, TaskTypeOK
<1>2. CASE TaskStep
  <2>1. ASSUME NEW w \in Workers, RegisterWorker(w)
        PROVE  tasks'[t] = NoTask
    BY <2>1 DEF RegisterWorker, UnusedTasksEmpty
  <2>2. ASSUME NEW m \in Models, NEW w \in Workers, NEW class \in TaskClasses,
               NEW budget \in Budgets, NEW epoch \in Epochs,
               CreateTask(m, w, class, budget, epoch)
        PROVE  tasks'[t] = NoTask
    BY <1>1, <2>2 DEF CreateTask, UnusedTasksEmpty
  <2> QED
    BY <1>2, <2>1, <2>2 DEF TaskStep
<1>3. CASE ~TaskStep
    BY <1>3 DEF UnusedTasksEmpty, Next, PolicyStep, ModelStep, CommitmentStep, AuditStep,
       ReceiptStep, CreditStep, OnlyReceiptsChange, OnlyCreditChanges, vars, taskVars
<1> QED
    BY <1>2, <1>3

LEMMA UnusedTasksInvariant == Spec => []UnusedTasksEmpty
<1>1. Init => UnusedTasksEmpty
    BY DEF Init, TaskInit, UnusedTasksEmpty
<1> QED
    BY <1>1, SupportInvariant, UnusedTasksStep, PTL DEF Spec

\* The next number has the same quotient or the next one.
LEMMA QuotientStep ==
    ASSUME NEW a \in Nat, NEW d \in Nat \ {0}
    PROVE  (a + 1) \div d = a \div d \/ (a + 1) \div d = (a \div d) + 1
<1> DEFINE p == a \div d
           q == (a + 1) \div d
<1>1. /\ p \in Nat /\ q \in Nat
      /\ d * q <= a + 1 /\ a < d * p + d
    OBVIOUS
<1>2. p <= q
    BY QuotientMonotone
<1>3. SUFFICES ASSUME p + 1 < q PROVE FALSE
    BY <1>1, <1>2
<1> HIDE DEF p, q
<1>4. PICK k \in Nat : q = p + 2 + k
  <2>1. q - p - 2 \in Nat
    BY <1>1, <1>3
  <2> QED
    BY <1>1, <2>1
<1>5. d * q = d * p + d + d + d * k
    BY <1>1, <1>4
<1>6. d * k \in Nat /\ d * p \in Nat
    BY <1>1, <1>4
<1> QED
    BY <1>1, <1>5, <1>6

\* A block starts at most one epoch.
LEMMA EpochStep ==
    ASSUME NEW h \in Nat
    PROVE  EpochAt(h + 1) = EpochAt(h) \/ EpochAt(h + 1) = EpochAt(h) + 1
<1> DEFINE since == h - GenesisBlock
<1>1. CASE h + 1 < GenesisBlock
    BY <1>1, PolicyAssumption DEF EpochAt
<1>2. CASE h + 1 = GenesisBlock
  <2>1. 0 \div BlocksPerEpoch = 0
    BY PolicyAssumption
  <2> QED
    BY <1>2, <2>1, PolicyAssumption DEF EpochAt
<1>3. CASE h + 1 > GenesisBlock
  <2>1. /\ since \in Nat
        /\ EpochAt(h) = (since \div BlocksPerEpoch) + 1
        /\ EpochAt(h + 1) = ((since + 1) \div BlocksPerEpoch) + 1
    <3>1. since \in Nat /\ h + 1 - GenesisBlock = since + 1
      BY <1>3, PolicyAssumption
    <3> QED
      BY <1>3, <3>1, PolicyAssumption DEF EpochAt
  <2>2. \/ (since + 1) \div BlocksPerEpoch = since \div BlocksPerEpoch
        \/ (since + 1) \div BlocksPerEpoch = (since \div BlocksPerEpoch) + 1
    <3> HIDE DEF since
    <3> QED
      BY <2>1, QuotientStep, PolicyAssumption
  <2> HIDE DEF since
  <2> QED
    BY <2>1, <2>2
<1> QED
    BY <1>1, <1>2, <1>3, PolicyAssumption

\* The terms the ledger sees of a task.
Terms(t) == [worker |-> tasks[t].worker, epoch |-> tasks[t].epoch,
             pays |-> IF Creditable(t) THEN tasks[t].budget ELSE 0]

Offers == [t \in TaskIds |-> Terms(t)]
Settled == {t \in TaskIds : taskAllocated[t] # 0}

LEMMA LedgerInit == Init => Ledger!Init
<1> SUFFICES ASSUME Init PROVE Ledger!Init
    OBVIOUS
<1>1. CurrentEpoch \in Nat
    BY EpochType, PolicyAssumption DEF CurrentEpoch, Init, PolicyInit
<1>2. \A t \in TaskIds : ~Creditable(t)
    BY DEF Init, TaskInit, NoTask, Creditable
<1>3. Offers = [t \in TaskIds |-> Ledger!NoOffer]
    BY <1>2 DEF Init, TaskInit, NoTask, Offers, Terms, Ledger!NoOffer
<1>4. Settled = {}
    BY DEF Init, CreditInit, Settled
<1> QED
    BY <1>1, <1>3, <1>4 DEF Ledger!Init, Offers, Terms, Settled, Init, CreditInit

\* Blocks move the epoch only.
LEMMA LedgerBlock ==
    ASSUME Support, PolicyStep
    PROVE  Ledger!NextEpoch \/ UNCHANGED Ledger!vars
<1>1. blockNumber \in Nat
    BY DEF Support, TypeInv, TypeOK, PolicyTypeOK
<1>2. blockNumber' = blockNumber + 1 \/ blockNumber' = blockNumber
    BY DEF PolicyStep, NextBlock, GrantRole, RevokeRole, SetProtocolPolicy
<1>3. CurrentEpoch' = CurrentEpoch + 1 \/ CurrentEpoch' = CurrentEpoch
    BY <1>1, <1>2, EpochStep DEF CurrentEpoch
<1>4. tasks' = tasks /\ rawCredit' = rawCredit /\ taskAllocated' = taskAllocated
    BY DEF PolicyStep, taskVars, creditVars
<1>5. Offers' = Offers /\ Settled' = Settled
    BY <1>4 DEF Offers, Settled, Terms, Creditable
<1> QED
    BY <1>3, <1>4, <1>5 DEF Ledger!NextEpoch, Ledger!vars, Offers, Terms, Settled

\* Creating a task offers its terms, for the epoch it is created in.
LEMMA LedgerTask ==
    ASSUME Support, UnusedTasksEmpty, TaskStep
    PROVE  \/ \E t \in TaskIds, w \in Workers, pays \in Budgets \cup {0} : Ledger!Offer(t, w, pays)
           \/ UNCHANGED Ledger!vars
<1>1. /\ blockNumber' = blockNumber /\ rawCredit' = rawCredit /\ taskAllocated' = taskAllocated
      /\ tasks \in [TaskIds -> Task] /\ nextTaskId \in Nat \ {0}
    BY DEF TaskStep, policyVars, creditVars, Support, TypeInv, TypeOK, TaskTypeOK
<1>2. CurrentEpoch' = CurrentEpoch /\ Settled' = Settled
    BY <1>1 DEF CurrentEpoch, Settled
<1>3. ASSUME NEW w \in Workers, RegisterWorker(w)
      PROVE  UNCHANGED Ledger!vars
  <2>1. Offers' = Offers
    BY <1>3 DEF RegisterWorker, Offers, Terms, Creditable
  <2> QED
    BY <1>1, <1>2, <2>1 DEF Ledger!vars, Offers, Terms, Settled
<1>4. ASSUME NEW m \in Models, NEW w \in Workers, NEW class \in TaskClasses,
             NEW budget \in Budgets, NEW epoch \in Epochs,
             CreateTask(m, w, class, budget, epoch)
      PROVE  \E t \in TaskIds, v \in Workers, pays \in Budgets \cup {0} : Ledger!Offer(t, v, pays)
  <2> DEFINE pays == IF class = "CONSENSUS" /\ budget # 0 THEN budget ELSE 0
  <2>1. PICK t \in TaskIds : t = nextTaskId
    <3>1. nextTaskId <= MaxTasks
      BY <1>4 DEF CreateTask
    <3> QED
      BY <1>1, <3>1, TaskAssumption DEF TaskIds
  <2>2. tasks[t] = NoTask
    <3>1. t >= nextTaskId
      BY <1>1, <2>1
    <3> QED
      BY <2>1, <3>1 DEF Support, IdsFresh, UnusedTasksEmpty
  <2>3. Offers[t] = Ledger!NoOffer
    BY <2>1, <2>2 DEF Offers, Terms, NoTask, Creditable, Ledger!NoOffer
  <2>4. tasks' = [tasks EXCEPT ![t] =
            [model |-> m, worker |-> w, class |-> class, budget |-> budget,
             epoch |-> CurrentEpoch, active |-> TRUE]]
    BY <1>4, <2>1 DEF CreateTask
  <2>5. tasks'[t] = [model |-> m, worker |-> w, class |-> class, budget |-> budget,
                     epoch |-> CurrentEpoch, active |-> TRUE]
        /\ \A u \in TaskIds \ {t} : tasks'[u] = tasks[u]
    BY <1>1, <2>1, <2>4
  <2>6. Offers' = [Offers EXCEPT ![t] = [worker |-> w, epoch |-> CurrentEpoch, pays |-> pays]]
    <3>1. Terms(t)' = [worker |-> w, epoch |-> CurrentEpoch, pays |-> pays]
      BY <2>5 DEF Terms, Creditable
    <3>2. \A u \in TaskIds \ {t} : Terms(u)' = Terms(u)
      BY <2>5 DEF Terms, Creditable
    <3> QED
      BY <2>1, <3>1, <3>2 DEF Offers
  <2>7. Ledger!Offer(t, w, pays)
    BY <1>1, <1>2, <2>3, <2>6 DEF Ledger!Offer, Ledger!NoOffer, Offers, Terms, Settled
  <2> QED
    BY <2>1, <2>7
<1> QED
    BY <1>3, <1>4 DEF TaskStep

\* A settlement pays the offer.
LEMMA LedgerSettles ==
    ASSUME ReceiptsInv, CreditInv, NEW t \in TaskIds, NEW ids \in SUBSET ReceiptIds,
           AllocateCredit(t, ids), OnlyCreditChanges
    PROVE  Ledger!Settle(t)
<1>1. /\ Creditable(t) /\ tasks[t].budget \in Nat \ {0}
      /\ CreditEpoch(t) <= CurrentEpoch
      /\ taskAllocated[t] = 0
      /\ taskAllocated' = [taskAllocated EXCEPT ![t] = tasks[t].budget]
      /\ rawCredit' = [rawCredit EXCEPT ![CreditEpoch(t)][tasks[t].worker]
                           = @ + tasks[t].budget]
    BY Settlement
<1>2. taskAllocated \in [TaskIds -> Nat]
    BY DEF ReceiptsInv, Support, TypeInv, TypeOK, CreditTypeOK
<1>3. tasks' = tasks /\ blockNumber' = blockNumber
    BY DEF OnlyCreditChanges, taskVars, policyVars
<1>4. Offers' = Offers /\ CurrentEpoch' = CurrentEpoch
    BY <1>3 DEF Offers, Terms, Creditable, CurrentEpoch
<1>5. Settled' = Settled \cup {t} /\ t \notin Settled
    BY <1>1, <1>2 DEF Settled
<1>6. Offers[t] = [worker |-> tasks[t].worker, epoch |-> tasks[t].epoch, pays |-> tasks[t].budget]
    BY <1>1 DEF Offers, Terms
<1>7. /\ Offers[t].pays > 0 /\ Offers[t].pays = tasks[t].budget
      /\ Offers[t].worker = tasks[t].worker /\ Offers[t].epoch + 1 = CreditEpoch(t)
    BY <1>1, <1>6 DEF CreditEpoch
<1>8. rawCredit' = [rawCredit EXCEPT ![Offers[t].epoch + 1][Offers[t].worker] = @ + Offers[t].pays]
    BY <1>1, <1>7
<1>9. Offers[t].epoch + 1 <= CurrentEpoch
    BY <1>1, <1>7
<1> QED
    BY <1>4, <1>5, <1>7, <1>8, <1>9 DEF Ledger!Settle, Offers, Terms, Settled

LEMMA LedgerStep ==
    ReceiptsInv /\ CreditInv /\ UnusedTasksEmpty /\ [Next]_vars => [Ledger!Next]_(Ledger!vars)
<1> SUFFICES ASSUME ReceiptsInv, CreditInv, UnusedTasksEmpty, [Next]_vars
             PROVE  Ledger!Next \/ UNCHANGED Ledger!vars
    OBVIOUS
<1>1. CASE PolicyStep
    BY <1>1, LedgerBlock DEF ReceiptsInv, Ledger!Next
<1>2. CASE TaskStep
    BY <1>2, LedgerTask DEF ReceiptsInv, Ledger!Next
<1>3. CASE ~PolicyStep /\ ~TaskStep
  <2>1. tasks' = tasks /\ blockNumber' = blockNumber
    BY <1>3 DEF Next, ModelStep, CommitmentStep, AuditStep, ReceiptStep, CreditStep,
       OnlyReceiptsChange, OnlyCreditChanges, vars, policyVars, taskVars
  <2>2. CASE UNCHANGED <<rawCredit, taskAllocated, creditedReceipts, receiptCredit>>
    <3>1. Offers' = Offers /\ CurrentEpoch' = CurrentEpoch /\ Settled' = Settled
      BY <2>1, <2>2 DEF Offers, Terms, Creditable, CurrentEpoch, Settled
    <3> QED
      BY <2>2, <3>1 DEF Ledger!vars, Offers, Terms, Settled
  <2>3. ASSUME NEW t \in TaskIds, NEW ids \in SUBSET ReceiptIds,
               AllocateCredit(t, ids), OnlyCreditChanges
        PROVE  Ledger!Next
    BY <2>3, LedgerSettles DEF Ledger!Next
  <2> QED
    BY <2>2, <2>3, SettledOrNot
<1> QED
    BY <1>1, <1>2, <1>3

\* The contracts implement the abstract credit ledger: a task pays what it offered, to
\* the worker it named, once, as credit of the epoch after its own and not before that
\* epoch has begun.
THEOREM ContractsImplementLedger == Spec => ImplementsLedger
<1>1. Spec => Ledger!Init
    BY LedgerInit DEF Spec
<1>2. Spec => [][Ledger!Next]_(Ledger!vars)
    BY LedgerStep, ReceiptsInvariant, CreditInvariant, UnusedTasksInvariant, PTL DEF Spec
<1> QED
    BY <1>1, <1>2 DEF ImplementsLedger, Ledger!Spec
=============================================================================
