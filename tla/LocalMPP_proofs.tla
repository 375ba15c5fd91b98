---------------------------- MODULE LocalMPP_proofs ----------------------------
(***************************************************************************)
(* Proofs about a local run: what its committee and result files say is    *)
(* so on the chain, for any bounds, any number of disturbances and any     *)
(* blocks a peer mines.  The inductive invariant follows the script: it    *)
(* says, of each position, what the calls before it have left on the       *)
(* chain, in the client's memory and in the output root.                   *)
(***************************************************************************)
EXTENDS LocalMPP, PoIProtocol_proofs

\* The positions of the calls the proofs follow.
LEMMA ScriptCalls ==
    /\ Len(Script) = 51
    /\ \A i \in 1..51 :
          /\ Script[i][1] = "quote" => i \in {5, 7, 36}
          /\ Script[i][1] = "create" => i \in {6, 8, 37}
          /\ Script[i][1] = "writeBundle" <=> i = 11
          /\ Script[i][1] = "commit" => i \in {12, 13, 40}
          /\ Script[i][1] = "mint" => i \in {22, 23, 46}
          /\ Script[i][1] = "mineEpoch" <=> i = 25
          /\ Script[i][1] = "activate" => i \in {26, 27}
          /\ Script[i][1] = "collateral" <=> i = 28
          /\ Script[i][1] = "allocate" => i \in {29, 31}
          /\ Script[i][1] = "replay" <=> i = 33
          /\ Script[i][1] = "readback" <=> i = 34
          /\ Script[i][1] = "writeCommittee" <=> i = 35
          /\ Script[i][1] = "markChallenged" <=> i = 48
          /\ Script[i][1] = "slashReceipt" <=> i = 50
<1> USE DEF Script, SetupCalls, CreateLane, CommitCalls, MintCalls, SettleCalls, ChallengeCalls,
            Each, AuditLane
<1>0. Len(Script) = 51
    OBVIOUS
<1>1. \A i \in 1..51 : Script[i][1] = "quote" => i \in {5, 7, 36}
    OBVIOUS
<1>2. \A i \in 1..51 : Script[i][1] = "create" => i \in {6, 8, 37}
    OBVIOUS
<1>3. \A i \in 1..51 : Script[i][1] = "writeBundle" <=> i = 11
    OBVIOUS
<1>4. \A i \in 1..51 : Script[i][1] = "commit" => i \in {12, 13, 40}
    OBVIOUS
<1>5. \A i \in 1..51 : Script[i][1] = "mint" => i \in {22, 23, 46}
    OBVIOUS
<1>6. \A i \in 1..51 : Script[i][1] = "mineEpoch" <=> i = 25
    OBVIOUS
<1>7. \A i \in 1..51 : Script[i][1] = "activate" => i \in {26, 27}
    OBVIOUS
<1>8. \A i \in 1..51 : Script[i][1] = "collateral" <=> i = 28
    OBVIOUS
<1>9. \A i \in 1..51 : Script[i][1] = "allocate" => i \in {29, 31}
    OBVIOUS
<1>10. \A i \in 1..51 : Script[i][1] = "replay" <=> i = 33
    OBVIOUS
<1>11. \A i \in 1..51 : Script[i][1] = "readback" <=> i = 34
    OBVIOUS
<1>12. \A i \in 1..51 : Script[i][1] = "writeCommittee" <=> i = 35
    OBVIOUS
<1>13. \A i \in 1..51 : Script[i][1] = "markChallenged" <=> i = 48
    OBVIOUS
<1>14. \A i \in 1..51 : Script[i][1] = "slashReceipt" <=> i = 50
    OBVIOUS
<1> HIDE DEF Script
<1> QED
    BY <1>0, <1>1, <1>2, <1>3, <1>4, <1>5, <1>6, <1>7, <1>8, <1>9, <1>10, <1>11, <1>12, <1>13, <1>14

LEMMA ScriptLanes ==
    /\ Script[5] = <<"quote", "consensus">> /\ Script[6] = <<"create", "consensus">>
    /\ Script[7] = <<"quote", "service">> /\ Script[8] = <<"create", "service">>
    /\ Script[12] = <<"commit", "consensus">> /\ Script[13] = <<"commit", "service">>
    /\ Script[22] = <<"mint", "consensus">> /\ Script[23] = <<"mint", "service">>
    /\ Script[26] = <<"activate", "consensus">> /\ Script[27] = <<"activate", "service">>
    /\ Script[29] = <<"allocate", "consensus">> /\ Script[31] = <<"allocate", "service">>
    /\ Script[33] = <<"replay", "consensus">> /\ Script[34] = <<"readback", "consensus">>
    /\ Script[36] = <<"quote", "challenge">> /\ Script[37] = <<"create", "challenge">>
    /\ Script[40] = <<"commit", "challenge">> /\ Script[46] = <<"mint", "challenge">>
    /\ Script[48] = <<"markChallenged", "challenge">>
    /\ Script[50] = <<"slashReceipt", "challenge">>
  BY DEF Script, SetupCalls, CreateLane, CommitCalls, MintCalls, SettleCalls, ChallengeCalls,
         Each, AuditLane

-----------------------------------------------------------------------------
(* The inductive invariant.  A number is a position in Script: step > n    *)
(* says that call n is over and the run went on.                           *)

PlaceOK ==
    /\ step \in Nat
    /\ status \in {"idle", "checked", "waiting"} => step = 0
    /\ status = "running" => step \in 1..51
    /\ status \in {"closed", "done"} => step > 51
    /\ blockNumber \in Nat
    /\ step = 26 => blockNumber <= MaxBlock
    /\ policy = InitialPolicy

MemoOK ==
    /\ DOMAIN memo = DOMAIN NoMemo
    /\ memo.task \in [Lanes -> Nat] /\ memo.receipt \in [Lanes -> Nat]
    /\ memo.height \in [Groups -> Int] /\ memo.epoch \in [Groups -> Int] /\ memo.seen \in Int

IsHappyTask(t) ==
    tasks[t].class = "CONSENSUS" /\ tasks[t].budget = Budget /\ tasks[t].worker = Owner

\* An id is read before the call that takes it, which may revert unnoticed; that the
\* two happy lanes have tasks of their own shows when both have committed.
TasksOK ==
    LET t == LaneTask("consensus")
        s == LaneTask("service")
    IN  /\ nextTaskId \in Nat \ {0} /\ DOMAIN tasks = TaskIds /\ DOMAIN commitments = TaskIds
        /\ \A i \in TaskIds : i >= nextTaskId => ~tasks[i].active
        /\ step <= 6 => nextTaskId <= 1
        /\ step <= 8 => nextTaskId <= 2
        /\ step > 5 => t \in TaskIds
        /\ step > 7 => s \in TaskIds
        /\ step = 6 => t = nextTaskId
        /\ step = 8 => s = nextTaskId
        /\ step \in {6, 7} => (tasks[t].active => IsHappyTask(t))
        /\ step > 7 => (tasks[t].active /\ t # s => IsHappyTask(t))
        /\ step \in 8..31 => (tasks[s].active => tasks[s].class = "SERVICE")
        /\ step = 13 => commitments[t].exists
        /\ step > 13 => t # s
        /\ step > 22 => tasks[t].active

ReceiptsOK ==
    LET t == LaneTask("consensus")
        r == LaneReceipt("consensus")
        s == LaneReceipt("service")
        d == LaneReceipt("challenge")
    IN  /\ nextReceiptId \in Nat \ {0} /\ DOMAIN receipts = ReceiptIds
        /\ \A i \in ReceiptIds : DOMAIN receipts[i] = DOMAIN NoReceipt
        /\ step > 22 =>
              /\ r \in ReceiptIds /\ r < nextReceiptId /\ receipts[r].taskId = t
              /\ receipts[r].state = "ACTIVE" =>
                    /\ receipts[r].activatedEpoch = tasks[t].epoch + 1
                    /\ tasks[t].epoch + 1 \in Epochs
        /\ step > 23 => s \in ReceiptIds /\ s < nextReceiptId /\ s # r
        /\ step > 46 => d \in ReceiptIds /\ d # r
        /\ step > 50 => receipts[d].state = "SLASHED"

Unpaid ==
    /\ rawCredit = [e \in Epochs |-> [w \in Workers |-> 0]]
    /\ taskAllocated = [t \in TaskIds |-> 0]
    /\ receiptCredit = [r \in ReceiptIds |-> 0]

Paid ==
    LET t == LaneTask("consensus")
    IN  /\ receipts[LaneReceipt("consensus")].state = "ACTIVE"
        /\ taskAllocated[t] = Budget
        /\ rawCredit[tasks[t].epoch + 1][Owner] = Budget
        /\ receiptCredit[LaneReceipt("service")] = 0

CreditOK ==
    /\ DOMAIN collateral = Workers
    /\ step > 28 => collateral[Owner] = Collateral
    /\ step <= 29 => Unpaid
    /\ step > 29 => Paid

KernelWeight == Lesser(Lesser(Budget, Collateral \div policy.beta), policy.cap)

WeightOK ==
    step > 34 => /\ memo.creditEpoch = tasks[LaneTask("consensus")].epoch + 1
                 /\ memo.weight = KernelWeight

FilesOK ==
    /\ DOMAIN output = Files
    /\ step > 11 => output["bundle"] = "this"
    /\ step > 35 <=> output["committee"] = "this"
    /\ output["result"] = "this" => status = "done"

MPPInv == PlaceOK /\ MemoOK /\ TasksOK /\ ReceiptsOK /\ CreditOK /\ WeightOK /\ FilesOK

-----------------------------------------------------------------------------
(* What leaves a part alone. *)

\* The step goes on at most past one call, none of those at the given positions.
Past(critical) == step' = step \/ (step' = step + 1 /\ step \notin critical)

LEMMA TasksFrame ==
    ASSUME PlaceOK, TasksOK, Past({5, 7, 12, 13, 22}), UNCHANGED <<nextTaskId, tasks, commitments>>,
           memo'.task = memo.task
    PROVE  TasksOK'
  BY DEF TasksOK, PlaceOK, Past, LaneTask, IsHappyTask

LEMMA ReceiptsFrame ==
    ASSUME PlaceOK, ReceiptsOK, Past({22, 23, 46, 50}), UNCHANGED <<nextReceiptId, receipts>>,
           memo'.receipt = memo.receipt,
           step > 22 => /\ LaneTask("consensus")' = LaneTask("consensus")
                        /\ tasks'[LaneTask("consensus")] = tasks[LaneTask("consensus")]
    PROVE  ReceiptsOK'
  BY DEF ReceiptsOK, PlaceOK, Past, LaneReceipt

\* Other receipts may change state.
LEMMA ReceiptsKept ==
    ASSUME PlaceOK, ReceiptsOK, Past({22, 23, 46, 50}), UNCHANGED nextReceiptId,
           DOMAIN receipts' = ReceiptIds, \A i \in ReceiptIds : DOMAIN receipts'[i] = DOMAIN NoReceipt,
           memo'.receipt = memo.receipt,
           step > 22 => /\ LaneTask("consensus")' = LaneTask("consensus")
                        /\ tasks'[LaneTask("consensus")] = tasks[LaneTask("consensus")]
                        /\ receipts'[LaneReceipt("consensus")] = receipts[LaneReceipt("consensus")],
           step > 50 => receipts'[LaneReceipt("challenge")] = receipts[LaneReceipt("challenge")]
    PROVE  ReceiptsOK'
  BY DEF ReceiptsOK, PlaceOK, Past, LaneReceipt

LEMMA CreditFrame ==
    ASSUME PlaceOK, CreditOK, Past({28, 29}), UNCHANGED <<rawCredit, collateral, taskAllocated, receiptCredit>>,
           step > 29 => /\ LaneTask("consensus")' = LaneTask("consensus")
                        /\ tasks'[LaneTask("consensus")] = tasks[LaneTask("consensus")]
                        /\ LaneReceipt("consensus")' = LaneReceipt("consensus")
                        /\ LaneReceipt("service")' = LaneReceipt("service")
                        /\ receipts'[LaneReceipt("consensus")].state = receipts[LaneReceipt("consensus")].state
    PROVE  CreditOK'
  BY DEF CreditOK, PlaceOK, Past, Paid, Unpaid

LEMMA WeightFrame ==
    ASSUME PlaceOK, PlaceOK', WeightOK, Past({34}), 
           step > 34 => /\ LaneTask("consensus")' = LaneTask("consensus")
                        /\ tasks'[LaneTask("consensus")] = tasks[LaneTask("consensus")]
                        /\ memo'.weight = memo.weight /\ memo'.creditEpoch = memo.creditEpoch
    PROVE  WeightOK'
  BY DEF WeightOK, PlaceOK, Past, KernelWeight

Still == UNCHANGED <<nextTaskId, tasks, commitments, nextReceiptId, receipts, rawCredit, collateral,
                     taskAllocated, receiptCredit>>

SameMemo == /\ memo'.task = memo.task /\ memo'.receipt = memo.receipt
            /\ memo'.creditEpoch = memo.creditEpoch /\ memo'.weight = memo.weight

Critical == {5, 7, 11, 12, 13, 22, 23, 28, 29, 34, 35, 46, 50}

LEMMA FilesFrame ==
    ASSUME PlaceOK, FilesOK, Past({11, 35}), UNCHANGED output, status = "done" => status' = "done"
    PROVE  FilesOK'
  BY DEF FilesOK, PlaceOK, Past

LEMMA Plain ==
    ASSUME MPPInv, PlaceOK', MemoOK', Past(Critical), Still, SameMemo, UNCHANGED output,
           status = "done" => status' = "done"
    PROVE  MPPInv'
<1>1. /\ Past({5, 7, 12, 13, 22}) /\ Past({22, 23, 46, 50}) /\ Past({28, 29}) /\ Past({34}) /\ Past({11, 35})
    BY DEF Past, Critical
<1>2. /\ \A lane : LaneTask(lane)' = LaneTask(lane) /\ LaneReceipt(lane)' = LaneReceipt(lane)
    BY DEF SameMemo, LaneTask, LaneReceipt
<1>3. TasksOK'
    BY <1>1, TasksFrame DEF MPPInv, Still, SameMemo
<1>4. ReceiptsOK'
    BY <1>1, <1>2, ReceiptsFrame DEF MPPInv, Still, SameMemo
<1>5. CreditOK'
    BY <1>1, <1>2, CreditFrame DEF MPPInv, Still
<1>6. WeightOK'
    BY <1>1, <1>2, WeightFrame DEF MPPInv, Still, SameMemo
<1>7. FilesOK'
    BY <1>1, FilesFrame DEF MPPInv
<1> QED
    BY <1>3, <1>4, <1>5, <1>6, <1>7 DEF MPPInv

\* A contract's variables are among those a step leaves alone.
LEMMA ChainStill == UNCHANGED chainVars => Still /\ UNCHANGED <<blockNumber, policy>>
  BY DEF chainVars, vars, policyVars, modelVars, taskVars, commitmentVars, auditVars, receiptVars,
         creditVars, Still

LEMMA NotAtCritical ==
    ASSUME PlaceOK, status = "running",
           Op \notin {"quote", "writeBundle", "commit", "mint", "collateral", "allocate", "readback",
                     "writeCommittee", "slashReceipt"}
    PROVE  step \notin Critical
<1>1. step \in 1..51
    BY DEF PlaceOK
<1>2. /\ Script[11][1] = "writeBundle" /\ Script[28][1] = "collateral" /\ Script[34][1] = "readback"
      /\ Script[35][1] = "writeCommittee"
    BY ScriptCalls
<1>3. ASSUME step \in Critical PROVE FALSE
    BY <1>1, <1>2, <1>3, ScriptLanes DEF Critical, Op
<1> QED
    BY <1>3

LEMMA InitInvMPP == MPPInit => MPPInv
<1> SUFFICES ASSUME MPPInit PROVE MPPInv
    OBVIOUS
<1>1. PlaceOK
    BY PolicyAssumption DEF MPPInit, Init, PolicyInit, PlaceOK
<1>2. MemoOK
    BY DEF MPPInit, MemoOK, NoMemo
<1>3. TasksOK
    BY DEF MPPInit, Init, TaskInit, CommitmentInit, TasksOK, NoTask
<1>4. ReceiptsOK
    BY DEF MPPInit, Init, ReceiptInit, ReceiptsOK
<1>5. CreditOK /\ WeightOK
    BY DEF MPPInit, Init, CreditInit, CreditOK, WeightOK, Unpaid
<1>6. FilesOK
    BY DEF MPPInit, FilesOK, Files
<1> QED
    BY <1>1, <1>2, <1>3, <1>4, <1>5, <1>6 DEF MPPInv

-----------------------------------------------------------------------------
(* The node, the peer and the end of the run. *)

\* Nothing on the chain and nothing the client holds changes.
LEMMA HostStep ==
    ASSUME MPPInv, UNCHANGED <<chainVars, step, memo, output>>, PlaceOK', status = "done" => status' = "done"
    PROVE  MPPInv'
<1>1. Still /\ SameMemo /\ MemoOK' /\ Past(Critical)
    BY ChainStill DEF SameMemo, MemoOK, MPPInv, Past
<1> QED
    BY <1>1, Plain

LEMMA HostInv ==
    ASSUME MPPInv,
           CheckPort \/ Spawn \/ OwnBinds \/ NotReady \/ Close \/ PeerChecksPort \/ PeerBinds
               \/ PeerEnds \/ Killed
    PROVE  MPPInv'
<1>1. UNCHANGED <<chainVars, step, memo, output>>
    BY DEF CheckPort, Spawn, OwnBinds, NotReady, Close, PeerChecksPort, PeerBinds, PeerEnds, Killed
<1>2. status = "done" => status' = "done"
    BY DEF CheckPort, Spawn, OwnBinds, NotReady, Close, PeerChecksPort, PeerBinds, PeerEnds, Killed, Ended
<1>3. \/ status' = status
      \/ status' \in {"failed", "killed"}
      \/ status' \in {"checked", "waiting"} /\ status \in {"idle", "checked"}
      \/ status' = "closed" /\ step > Len(Script)
    BY DEF CheckPort, Spawn, OwnBinds, NotReady, Close, PeerChecksPort, PeerBinds, PeerEnds, Killed
<1>4. UNCHANGED <<blockNumber, policy>>
    BY <1>1, ChainStill
<1>5. PlaceOK'
    BY <1>1, <1>3, <1>4, ScriptCalls DEF PlaceOK, MPPInv
<1> QED
    BY <1>1, <1>2, <1>5, HostStep

LEMMA AttachInv ==
    ASSUME MPPInv, Attach
    PROVE  MPPInv'
<1>1. step = 0 /\ step' = 1 /\ status' = "running" /\ UNCHANGED <<chainVars, memo, output>> /\ status # "done"
    BY DEF Attach, MPPInv, PlaceOK
<1>2. Still /\ SameMemo /\ MemoOK' /\ UNCHANGED <<blockNumber, policy>>
    BY <1>1, ChainStill DEF SameMemo, MemoOK, MPPInv
<1>3. Past(Critical)
    BY <1>1 DEF Past, Critical
<1>4. PlaceOK'
    BY <1>1, <1>2 DEF PlaceOK, MPPInv
<1> QED
    BY <1>1, <1>2, <1>3, <1>4, Plain

LEMMA WriteResultInv ==
    ASSUME MPPInv, WriteResult
    PROVE  MPPInv'
<1>1. status = "closed" /\ status' = "done" /\ UNCHANGED <<chainVars, step, memo>>
      /\ output' = [output EXCEPT !["result"] = "this"]
    BY DEF WriteResult
<1>2. Still /\ SameMemo /\ MemoOK' /\ UNCHANGED <<blockNumber, policy>>
    BY <1>1, ChainStill DEF SameMemo, MemoOK, MPPInv
<1>3. PlaceOK'
    BY <1>1, <1>2 DEF PlaceOK, MPPInv
<1>4. FilesOK'
    BY <1>1 DEF FilesOK, MPPInv, Files
<1>5. /\ TasksOK' /\ ReceiptsOK' /\ CreditOK' /\ WeightOK'
  <2>1. UNCHANGED <<step, memo>> /\ Past({}) 
    BY <1>1 DEF Past
  <2>2. \A lane : LaneTask(lane)' = LaneTask(lane) /\ LaneReceipt(lane)' = LaneReceipt(lane)
    BY <1>1 DEF LaneTask, LaneReceipt
  <2>3. Past({5, 7, 12, 13, 22}) /\ Past({22, 23, 46, 50}) /\ Past({28, 29}) /\ Past({34})
    BY <2>1 DEF Past
  <2> QED
    BY <1>2, <1>3, <2>1, <2>2, <2>3, TasksFrame, ReceiptsFrame, CreditFrame, WeightFrame DEF MPPInv, Still, SameMemo
<1> QED
    BY <1>2, <1>3, <1>4, <1>5 DEF MPPInv

LEMMA PeerMinesInv ==
    ASSUME MPPInv, PeerMinesBlocks
    PROVE  MPPInv'
<1>1. PICK n \in PeerMines : blockNumber + n <= MaxBlock /\ blockNumber' = blockNumber + n
    BY DEF PeerMinesBlocks
<1>2. UNCHANGED <<policy, status, step, memo, output>> /\ Still
    BY DEF PeerMinesBlocks, Still, modelVars, taskVars, commitmentVars, auditVars, receiptVars, creditVars
<1>3. PlaceOK'
    BY <1>1, <1>2, LocalMPPAssumption DEF PlaceOK, MPPInv
<1>4. SameMemo /\ MemoOK' /\ Past(Critical)
    BY <1>2 DEF SameMemo, MemoOK, MPPInv, Past
<1> QED
    BY <1>2, <1>3, <1>4, Plain

-----------------------------------------------------------------------------
(* Calls that leave what the properties follow alone. *)

\* The next position, when a call is over or has failed.
LEMMA NextPlace ==
    ASSUME PlaceOK, status = "running", Advance \/ Raise, UNCHANGED policy, blockNumber' \in Nat,
           step' = 26 => blockNumber' <= MaxBlock
    PROVE  /\ PlaceOK'
           /\ step' = step \/ step' = step + 1
           /\ status # "done"
  BY ScriptCalls DEF PlaceOK, Advance, Raise

\* The block height is bounded where it matters: as the first receipt is activated.
LEMMA NextHeight ==
    ASSUME PlaceOK, status = "running", Advance \/ Raise, UNCHANGED blockNumber, Op # "mineEpoch"
    PROVE  step' = 26 => blockNumber' <= MaxBlock
<1>1. step # 25
    BY ScriptCalls DEF Op
<1> QED
    BY <1>1 DEF PlaceOK, Advance, Raise

LEMMA LostCallInv ==
    ASSUME MPPInv, LostCall
    PROVE  MPPInv'
<1>1. status = "running" /\ UNCHANGED <<chainVars, output>>
    BY DEF LostCall
<1>2. Still /\ UNCHANGED <<blockNumber, policy>>
    BY <1>1, ChainStill
<1>3. CASE Raise /\ UNCHANGED memo
  <2>1. step' = step
    BY <1>3 DEF Raise
  <2>2. PlaceOK'
    BY <1>1, <1>2, <1>3 DEF Raise, PlaceOK, MPPInv
  <2>3. SameMemo /\ MemoOK' /\ Past(Critical)
    BY <1>3, <2>1 DEF SameMemo, MemoOK, MPPInv, Past
  <2> QED
    BY <1>1, <1>2, <2>2, <2>3, Plain
<1>4. CASE Op = "replay" /\ memo' = [memo EXCEPT !.replay = TRUE] /\ Advance
  <2>1. PlaceOK' /\ step' = step + 1
    BY <1>1, <1>2, <1>4, NextPlace, NextHeight DEF MPPInv, Advance, PlaceOK
  <2>2. SameMemo /\ MemoOK'
    BY <1>4 DEF SameMemo, MemoOK, MPPInv, NoMemo
  <2>3. Past(Critical)
    BY <1>1, <1>4, <2>1, NotAtCritical DEF Past, MPPInv
  <2> QED
    BY <1>1, <1>2, <2>1, <2>2, <2>3, Plain
<1> QED
    BY <1>3, <1>4 DEF LostCall

\* Whether the estimate fails or the transaction: the call has no effect.
LEMMA RevertedInv ==
    ASSUME MPPInv, Reverted
    PROVE  MPPInv'
<1>1. status = "running" /\ UNCHANGED <<memo, output>> /\ SameMemo /\ MemoOK'
    BY DEF Reverted, Running, SameMemo, MemoOK, MPPInv
<1>2. CASE Raise /\ UNCHANGED chainVars
  <2>1. Still /\ UNCHANGED <<blockNumber, policy>>
    BY <1>2, ChainStill
  <2>2. PlaceOK' /\ Past(Critical)
    BY <1>1, <1>2, <2>1 DEF Raise, PlaceOK, MPPInv, Past
  <2> QED
    BY <1>1, <2>1, <2>2, Plain
<1>3. CASE /\ Op \in HeightSensitive /\ Mined /\ Advance
           /\ UNCHANGED <<modelVars, taskVars, commitmentVars, auditVars, receiptVars, creditVars>>
  <2>1. Still /\ UNCHANGED policy /\ blockNumber' = blockNumber + 1
    BY <1>3 DEF Mined, Still, modelVars, taskVars, commitmentVars, auditVars, receiptVars, creditVars
  <2>2. step # 25 /\ step \notin Critical
    BY <1>1, <1>3, NotAtCritical, ScriptCalls DEF HeightSensitive, Op, MPPInv
  <2>3. PlaceOK' /\ Past(Critical)
    BY <1>1, <1>3, <2>1, <2>2, NextPlace DEF PlaceOK, MPPInv, Past, Advance
  <2> QED
    BY <1>1, <2>1, <2>3, Plain
<1> QED
    BY <1>2, <1>3 DEF Reverted

\* The other calls that advance and change nothing followed.
LEMMA QuietCall ==
    ASSUME MPPInv, status = "running", Advance, Still, SameMemo, MemoOK', UNCHANGED <<policy, output>>,
           Op \notin {"quote", "writeBundle", "commit", "mint", "collateral", "allocate", "readback",
                     "writeCommittee", "slashReceipt"},
           blockNumber' \in Nat, step' = 26 => blockNumber' <= MaxBlock
    PROVE  MPPInv'
<1>1. step \notin Critical /\ PlaceOK' /\ status # "done"
    BY NotAtCritical, NextPlace DEF MPPInv
<1>2. Past(Critical)
    BY <1>1 DEF Past, Advance
<1> QED
    BY <1>1, <1>2, Plain

LEMMA InspectInv ==
    ASSUME MPPInv, Inspect \/ FailurePaths
    PROVE  MPPInv'
<1>1. /\ status = "running" /\ Op \in {"inspect", "failurePaths"} /\ Advance
      /\ UNCHANGED <<chainVars, output>>
    BY DEF Inspect, FailurePaths, Running
<1>2. Still /\ UNCHANGED <<blockNumber, policy>>
    BY <1>1, ChainStill
<1>3. SameMemo /\ MemoOK'
    BY DEF Inspect, FailurePaths, SameMemo, MemoOK, MPPInv, NoMemo
<1>4. blockNumber' \in Nat /\ (step' = 26 => blockNumber' <= MaxBlock)
    BY <1>1, <1>2, NextHeight DEF MPPInv, PlaceOK
<1> QED
    BY <1>1, <1>2, <1>3, <1>4, QuietCall

\* Epochs of heights, deployed or not.
LEMMA EpochIsNat == \A h \in Int : EpochAt(h) \in Nat
<1> SUFFICES ASSUME NEW h \in Int PROVE EpochAt(h) \in Nat
    OBVIOUS
<1>1. CASE h \in Nat
    BY <1>1, EpochType
<1>2. CASE h \notin Nat
    BY <1>2, PolicyAssumption DEF EpochAt
<1> QED
    BY <1>1, <1>2

LEMMA MineInv ==
    ASSUME MPPInv, Mine
    PROVE  MPPInv'
<1> DEFINE target == IF Op = "mineEpoch" THEN EpochTarget ELSE FinalTarget(Lane)
           count == IF target > memo.seen THEN target - memo.seen ELSE 0
<1>1. /\ status = "running" /\ Op \in {"mineFinal", "mineEpoch"} /\ Advance
      /\ blockNumber + count <= MaxBlock /\ blockNumber' = blockNumber + count
      /\ UNCHANGED <<policy, memo, output>> /\ Still
    BY DEF Mine, Running, Still, modelVars, taskVars, commitmentVars, auditVars, receiptVars, creditVars
<1>2. memo.epoch["happy"] \in Int /\ memo.height["happy"] \in Int /\ memo.height["challenge"] \in Int
      /\ memo.seen \in Int
    BY DEF MPPInv, MemoOK, Groups
<1>3. BlocksPerEpoch \in Int /\ policy.finalityDepth \in Int
    BY PolicyAssumption DEF MPPInv, PlaceOK, PolicyValue
<1>4. EpochTarget \in Int
    BY <1>2, <1>3 DEF EpochTarget
<1>5. FinalTarget(Lane) \in Int
  <2>1. PlannedCommit("service") \in Int /\ PlannedCommit("challenge") \in Int
    BY <1>2 DEF PlannedCommit, Group
  <2> QED
    BY <1>3, <2>1 DEF FinalTarget
<1>6. target \in Int
    BY <1>4, <1>5
<1>7. count \in Nat
  <2> HIDE DEF target
  <2> QED
    BY <1>2, <1>6
<1>8. blockNumber' \in Nat /\ blockNumber' <= MaxBlock
  <2> HIDE DEF count
  <2> QED
    BY <1>1, <1>7 DEF MPPInv, PlaceOK
<1>9. SameMemo /\ MemoOK'
    BY <1>1 DEF SameMemo, MemoOK, MPPInv
<1> HIDE DEF count
<1> QED
    BY <1>1, <1>8, <1>9, QuietCall

LEMMA WriteFileInv ==
    ASSUME MPPInv, WriteFile
    PROVE  MPPInv'
<1>1. /\ status = "running" /\ Op \in {"writeBundle", "writeCommittee"} /\ Advance
      /\ output' = [output EXCEPT ![IF Op = "writeBundle" THEN "bundle" ELSE "committee"] = "this"]
      /\ UNCHANGED <<chainVars, memo>>
    BY DEF WriteFile
<1>2. Still /\ SameMemo /\ MemoOK' /\ UNCHANGED <<blockNumber, policy>>
    BY <1>1, ChainStill DEF SameMemo, MemoOK, MPPInv
<1>3. PlaceOK' /\ step' = step + 1 /\ status # "done"
    BY <1>1, <1>2, NextPlace, NextHeight DEF MPPInv, PlaceOK, Advance
<1>4. (Op = "writeBundle" /\ step = 11) \/ (Op = "writeCommittee" /\ step = 35)
    BY <1>1, ScriptCalls DEF MPPInv, PlaceOK, Op
<1>5. FilesOK'
    BY <1>1, <1>3, <1>4 DEF FilesOK, MPPInv, Files
<1>6. \A lane : LaneTask(lane)' = LaneTask(lane) /\ LaneReceipt(lane)' = LaneReceipt(lane)
    BY <1>1 DEF LaneTask, LaneReceipt
<1>7. Past({5, 7, 12, 13, 22}) /\ Past({22, 23, 46, 50}) /\ Past({28, 29}) /\ Past({34})
    BY <1>3, <1>4 DEF Past
<1> QED
    BY <1>2, <1>3, <1>5, <1>6, <1>7, TasksFrame, ReceiptsFrame, CreditFrame, WeightFrame
       DEF MPPInv, Still, SameMemo

-----------------------------------------------------------------------------
(* Views. *)

LEMMA RaiseInv ==
    ASSUME MPPInv, status = "running", Raise, UNCHANGED <<chainVars, memo, output>>
    PROVE  MPPInv'
<1>1. UNCHANGED step /\ status' = "closing"
    BY DEF Raise
<1>2. UNCHANGED <<blockNumber, policy>>
    BY ChainStill
<1>3. PlaceOK'
    BY <1>1, <1>2 DEF PlaceOK, MPPInv
<1> QED
    BY <1>1, <1>3, HostStep

LEMMA QuoteInv ==
    ASSUME MPPInv, status = "running", Op = "quote", Advance, UNCHANGED <<chainVars, output>>,
           memo' = [memo EXCEPT !.quote = EpochAt(Height), !.task[Lane] = nextTaskId]
    PROVE  MPPInv'
<1>1. Still /\ UNCHANGED <<blockNumber, policy>>
    BY ChainStill
<1>2. PlaceOK' /\ step' = step + 1 /\ status # "done" /\ step \in 1..51
    BY <1>1, NextPlace, NextHeight DEF MPPInv, PlaceOK, Advance
<1>3. /\ step \in {5, 7, 36}
      /\ step = 5 => Lane = "consensus"
      /\ step = 7 => Lane = "service"
      /\ step = 36 => Lane = "challenge"
    BY <1>2, ScriptCalls, ScriptLanes DEF Op, Lane
<1>4. nextTaskId \in Nat /\ Lane \in Lanes
    BY <1>3 DEF MPPInv, TasksOK, Lanes
<1>5. MemoOK'
    BY <1>4 DEF MPPInv, MemoOK, NoMemo
<1>6. /\ memo'.receipt = memo.receipt /\ memo'.weight = memo.weight
      /\ memo'.creditEpoch = memo.creditEpoch
      /\ memo'.task = [memo.task EXCEPT ![Lane] = nextTaskId]
    BY DEF MPPInv, MemoOK, NoMemo
<1>7. /\ \A lane \in Lanes : LaneTask(lane)' = IF lane = Lane THEN nextTaskId ELSE LaneTask(lane)
      /\ \A lane : LaneReceipt(lane)' = LaneReceipt(lane)
    BY <1>4, <1>6 DEF MPPInv, MemoOK, LaneTask, LaneReceipt
<1>8. TasksOK'
  <2>1. CASE step = 5
    <3>1. nextTaskId \in TaskIds /\ nextTaskId = 1
      BY <2>1, LocalMPPAssumption DEF MPPInv, TasksOK, TaskIds
    <3> QED
      BY <1>1, <1>2, <1>3, <1>7, <2>1, <3>1 DEF MPPInv, TasksOK, Still, Lanes
  <2>2. CASE step = 7
    <3>1. nextTaskId \in TaskIds /\ nextTaskId <= 2
      BY <2>2, LocalMPPAssumption DEF MPPInv, TasksOK, TaskIds
    <3>2. LaneTask("consensus")' = LaneTask("consensus") /\ LaneTask("service")' = nextTaskId
      BY <1>3, <1>7, <2>2 DEF Lanes
    <3> QED
      BY <1>1, <1>2, <2>2, <3>1, <3>2 DEF MPPInv, TasksOK, Still, IsHappyTask
  <2>3. CASE step = 36
    <3>1. LaneTask("consensus")' = LaneTask("consensus") /\ LaneTask("service")' = LaneTask("service")
      BY <1>3, <1>7, <2>3 DEF Lanes
    <3> QED
      BY <1>1, <1>2, <2>3, <3>1 DEF MPPInv, TasksOK, Still, IsHappyTask
  <2> QED
    BY <1>3, <2>1, <2>2, <2>3
<1>9. step > 22 => LaneTask("consensus")' = LaneTask("consensus")
    BY <1>3, <1>7 DEF Lanes
<1>10. Past({22, 23, 46, 50}) /\ Past({28, 29}) /\ Past({34}) /\ Past({11, 35})
    BY <1>2, <1>3 DEF Past
<1>11. ReceiptsOK'
    BY <1>1, <1>6, <1>9, <1>10, ReceiptsFrame DEF MPPInv, Still
<1>12. CreditOK'
    BY <1>1, <1>7, <1>9, <1>10, CreditFrame DEF MPPInv, Still, PlaceOK
<1>13. WeightOK'
    BY <1>1, <1>2, <1>6, <1>9, <1>10, WeightFrame DEF MPPInv, Still, PlaceOK
<1>14. FilesOK'
    BY <1>2, <1>10, FilesFrame DEF MPPInv
<1> QED
    BY <1>2, <1>5, <1>8, <1>11, <1>12, <1>13, <1>14 DEF MPPInv

\* The receipt is read back active, of the happy task, and so paid.
LEMMA ReadbackInv ==
    ASSUME MPPInv, status = "running", Op = "readback", Advance, UNCHANGED <<chainVars, output>>,
           ReadbackMatches,
           memo' = [memo EXCEPT !.creditEpoch = CreditEpochRead(receipts[LaneReceipt(Lane)]),
                                !.weight = WeightOf(KernelCredit)]
    PROVE  MPPInv'
<1>1. Still /\ UNCHANGED <<blockNumber, policy>>
    BY ChainStill
<1>2. PlaceOK' /\ step' = step + 1 /\ status # "done" /\ step = 34 /\ Lane = "consensus"
    BY <1>1, NextPlace, NextHeight, ScriptCalls, ScriptLanes DEF MPPInv, PlaceOK, Advance, Op, Lane
<1>3. MemoOK' /\ memo'.receipt = memo.receipt /\ memo'.task = memo.task
    BY DEF MPPInv, MemoOK, NoMemo
<1>4. /\ memo'.creditEpoch = receipts[LaneReceipt("consensus")].activatedEpoch
      /\ memo'.weight = WeightOf(KernelCredit)
    BY <1>2 DEF MPPInv, MemoOK, NoMemo, CreditEpochRead
<1>5. receipts[LaneReceipt("consensus")].state = "ACTIVE"
    BY <1>2 DEF MPPInv, CreditOK, Paid
<1>6. memo'.creditEpoch = tasks[LaneTask("consensus")].epoch + 1 /\ memo'.weight = KernelWeight
    BY <1>2, <1>4, <1>5 DEF MPPInv, ReceiptsOK, KernelCredit, WeightOf, KernelWeight
<1>7. \A lane : LaneTask(lane)' = LaneTask(lane) /\ LaneReceipt(lane)' = LaneReceipt(lane)
    BY <1>3 DEF LaneTask, LaneReceipt
<1>8. Past({5, 7, 12, 13, 22}) /\ Past({22, 23, 46, 50}) /\ Past({28, 29}) /\ Past({11, 35})
    BY <1>2 DEF Past
<1>9. TasksOK' /\ ReceiptsOK' /\ CreditOK' /\ FilesOK'
    BY <1>1, <1>2, <1>3, <1>7, <1>8, TasksFrame, ReceiptsFrame, CreditFrame, FilesFrame DEF MPPInv, Still
<1>10. WeightOK'
    BY <1>1, <1>6, <1>7 DEF WeightOK, Still, KernelWeight
<1> QED
    BY <1>2, <1>3, <1>9, <1>10 DEF MPPInv

LEMMA ViewInv ==
    ASSUME MPPInv, View
    PROVE  MPPInv'
<1>1. status = "running" /\ Op \in Reads /\ UNCHANGED <<chainVars, output>>
    BY DEF View, Running
<1>2. CASE UNCHANGED memo /\ Raise
    BY <1>1, <1>2, RaiseInv
<1>3. CASE ReadAccepted /\ memo' = Read /\ Advance
  <2>1. CASE Op = "quote"
    BY <1>1, <1>3, <2>1, QuoteInv DEF Read
  <2>2. CASE Op = "readback"
    BY <1>1, <1>3, <2>2, ReadbackInv DEF Read, ReadAccepted
  <2>3. CASE Op \in Reads \ {"quote", "readback"}
    <3>1. Still /\ UNCHANGED <<blockNumber, policy>>
      BY <1>1, ChainStill
    <3>2. Height \in Int /\ EpochAt(Height) \in Int
      BY EpochIsNat DEF Height, MPPInv, PlaceOK
    <3>3. \/ memo' = [memo EXCEPT !.height[Lane] = Height]
          \/ memo' = [memo EXCEPT !.epoch[Lane] = EpochAt(Height)]
          \/ memo' = [memo EXCEPT !.seen = Height]
          \/ memo' = [memo EXCEPT !.before = receiptCredit[LaneReceipt(Lane)]]
          \/ memo' = [memo EXCEPT !.after = receiptCredit[LaneReceipt(Lane)]]
      BY <1>3, <2>3 DEF Reads, Read
    <3>4. SameMemo /\ MemoOK'
      BY <3>2, <3>3 DEF SameMemo, MemoOK, MPPInv, NoMemo
    <3>5. blockNumber' \in Nat /\ (step' = 26 => blockNumber' <= MaxBlock)
      BY <1>1, <1>3, <2>3, <3>1, NextHeight DEF MPPInv, PlaceOK, Reads
    <3> QED
      BY <1>1, <1>3, <2>3, <3>1, <3>4, <3>5, QuietCall DEF Reads
  <2> QED
    BY <1>1, <2>1, <2>2, <2>3
<1> QED
    BY <1>2, <1>3 DEF View

-----------------------------------------------------------------------------
(* Transactions. *)

\* What every call that was sent has in common.
LEMMA SentPlace ==
    ASSUME MPPInv, status = "running", Advance, Mined, Op # "mineEpoch"
    PROVE  /\ PlaceOK' /\ step' = step + 1 /\ step \in 1..51 /\ status # "done"
           /\ blockNumber' = blockNumber + 1 /\ policy' = policy
<1>1. blockNumber' = blockNumber + 1 /\ policy' = policy
    BY DEF Mined
<1>2. step \in 1..51 /\ step # 25
    BY ScriptCalls DEF MPPInv, PlaceOK, Op
<1> QED
    BY <1>1, <1>2, NextPlace DEF MPPInv, PlaceOK, Advance

LEMMA CreateInv ==
    ASSUME MPPInv, status = "running", Op = "create", Advance, UNCHANGED <<memo, output>>,
           CreateTask(Model, Owner, Class(Lane), Budget, memo.quote), TaskTx
    PROVE  MPPInv'
<1>1. /\ PlaceOK' /\ step' = step + 1 /\ step \in 1..51 /\ status # "done" /\ policy' = policy
    BY SentPlace DEF TaskTx
<1>2. /\ step \in {6, 8, 37}
      /\ step = 6 => Lane = "consensus"
      /\ step = 8 => Lane = "service"
      /\ step = 37 => Lane = "challenge"
    BY <1>1, ScriptCalls, ScriptLanes DEF Op, Lane
<1> DEFINE new == [model |-> Model, worker |-> Owner, class |-> Class(Lane), budget |-> Budget,
                   epoch |-> memo.quote, active |-> TRUE]
<1>3. /\ tasks' = [tasks EXCEPT ![nextTaskId] = new] /\ nextTaskId' = nextTaskId + 1
      /\ UNCHANGED <<commitments, nextReceiptId, receipts, rawCredit, collateral, taskAllocated,
                     receiptCredit>>
    BY DEF CreateTask, TaskTx, commitmentVars, receiptVars, creditVars
<1>4. MemoOK' /\ \A lane : LaneTask(lane)' = LaneTask(lane) /\ LaneReceipt(lane)' = LaneReceipt(lane)
    BY DEF MPPInv, MemoOK, LaneTask, LaneReceipt
<1>5. step > 22 => tasks'[LaneTask("consensus")] = tasks[LaneTask("consensus")]
    BY <1>3 DEF MPPInv, TasksOK
<1>6. TasksOK'
  <2>1. new.class = Class(Lane) /\ new.budget = Budget /\ new.worker = Owner
    OBVIOUS
  <2> HIDE DEF new
  <2>2. DOMAIN tasks' = TaskIds /\ \A i \in TaskIds : tasks'[i] = IF i = nextTaskId THEN new ELSE tasks[i]
    BY <1>3 DEF MPPInv, TasksOK
  <2>3. \A i \in TaskIds : i >= nextTaskId' => ~tasks'[i].active
    BY <1>3, <2>2 DEF MPPInv, TasksOK, TaskIds
  <2>4. CASE step = 6
    <3>1. new.class = "CONSENSUS"
      BY <1>2, <2>1, <2>4 DEF Class
    <3> QED
      BY <1>1, <1>3, <1>4, <2>1, <2>2, <2>3, <2>4, <3>1 DEF MPPInv, TasksOK, IsHappyTask
  <2>5. CASE step = 8
    <3>1. new.class = "SERVICE"
      BY <1>2, <2>1, <2>5 DEF Class
    <3> QED
      BY <1>1, <1>3, <1>4, <2>1, <2>2, <2>3, <2>5, <3>1 DEF MPPInv, TasksOK, IsHappyTask
  <2>6. CASE step = 37
    <3>1. new.class = "CONSENSUS"
      BY <1>2, <2>1, <2>6 DEF Class
    <3> QED
      BY <1>1, <1>3, <1>4, <2>1, <2>2, <2>3, <2>6, <3>1 DEF MPPInv, TasksOK, IsHappyTask
  <2> QED
    BY <1>2, <2>4, <2>5, <2>6
<1>7. Past({22, 23, 46, 50}) /\ Past({28, 29}) /\ Past({34}) /\ Past({11, 35})
    BY <1>1, <1>2 DEF Past
<1>8. ReceiptsOK'
    BY <1>3, <1>4, <1>5, <1>7, ReceiptsFrame DEF MPPInv
<1>9. CreditOK'
    BY <1>3, <1>4, <1>5, <1>7, CreditFrame DEF MPPInv, PlaceOK
<1>10. WeightOK'
    BY <1>1, <1>4, <1>5, <1>7, WeightFrame DEF MPPInv, PlaceOK
<1>11. FilesOK'
    BY <1>1, <1>7, FilesFrame DEF MPPInv
<1> QED
    BY <1>1, <1>4, <1>6, <1>8, <1>9, <1>10, <1>11 DEF MPPInv

\* Two lanes that both commit have two tasks.
LEMMA CommitInv ==
    ASSUME MPPInv, status = "running", Op = "commit", Advance, UNCHANGED <<memo, output>>,
           CommitResponse(LaneTask(Lane), Owner, Response), CommitTx
    PROVE  MPPInv'
<1>1. /\ PlaceOK' /\ step' = step + 1 /\ step \in 1..51 /\ status # "done" /\ policy' = policy
    BY SentPlace DEF CommitTx
<1>2. /\ step \in {12, 13, 40}
      /\ step = 12 => Lane = "consensus"
      /\ step = 13 => Lane = "service"
      /\ step = 40 => Lane = "challenge"
    BY <1>1, ScriptCalls, ScriptLanes DEF Op, Lane
<1> DEFINE t == LaneTask(Lane)
           new == [worker |-> Owner,
                   hash |-> ResponseCommitment(t, tasks[t].model, models[tasks[t].model].descriptor, Response),
                   committedBlock |-> blockNumber, finalizedBlock |-> blockNumber + policy.finalityDepth,
                   exists |-> TRUE]
<1>3. /\ ~commitments[t].exists /\ new.exists
      /\ commitments' = [commitments EXCEPT ![t] = new]
      /\ UNCHANGED <<nextTaskId, tasks, nextReceiptId, receipts, rawCredit, collateral, taskAllocated,
                     receiptCredit>>
    BY DEF CommitResponse, CommitTx, taskVars, receiptVars, creditVars
<1>4. MemoOK' /\ \A lane : LaneTask(lane)' = LaneTask(lane) /\ LaneReceipt(lane)' = LaneReceipt(lane)
    BY DEF MPPInv, MemoOK, LaneTask, LaneReceipt
<1> HIDE DEF new
<1>5. TasksOK'
    BY <1>1, <1>2, <1>3, <1>4 DEF MPPInv, TasksOK, IsHappyTask
<1>6. Past({22, 23, 46, 50}) /\ Past({28, 29}) /\ Past({34}) /\ Past({11, 35})
    BY <1>1, <1>2 DEF Past
<1> QED
    BY <1>1, <1>3, <1>4, <1>5, <1>6, ReceiptsFrame, CreditFrame, WeightFrame, FilesFrame DEF MPPInv

\* A lane's receipt has an id of its own and is of the lane's task.
LEMMA MintInv ==
    ASSUME MPPInv, status = "running", Op = "mint", Advance, UNCHANGED output,
           memo' = [memo EXCEPT !.receipt[Lane] = nextReceiptId],
           MintPending(LaneTask(Lane), Lane), ReceiptTx
    PROVE  MPPInv'
<1>1. /\ PlaceOK' /\ step' = step + 1 /\ step \in 1..51 /\ status # "done" /\ policy' = policy
    BY SentPlace DEF ReceiptTx
<1>2. /\ step \in {22, 23, 46}
      /\ step = 22 => Lane = "consensus"
      /\ step = 23 => Lane = "service"
      /\ step = 46 => Lane = "challenge"
    BY <1>1, ScriptCalls, ScriptLanes DEF Op, Lane
<1> DEFINE t == LaneTask(Lane)
           new == [taskId |-> t, worker |-> tasks[t].worker, commitment |-> commitments[t].hash,
                   nullifier |-> Lane, state |-> "PENDING", epochIssued |-> tasks[t].epoch,
                   challengeDeadline |-> rounds[t].challengeDeadline, activatedEpoch |-> 0]
<1>3. /\ nextReceiptId <= MaxReceipts /\ tasks[t].active
      /\ receipts' = [receipts EXCEPT ![nextReceiptId] = new] /\ nextReceiptId' = nextReceiptId + 1
      /\ UNCHANGED <<nextTaskId, tasks, commitments, rawCredit, collateral, taskAllocated, receiptCredit>>
    BY DEF MintPending, ReceiptTx, taskVars, commitmentVars, creditVars
<1>4. nextReceiptId \in ReceiptIds /\ nextReceiptId \in Nat /\ Lane \in Lanes
    BY <1>2, <1>3, LocalMPPAssumption DEF MPPInv, ReceiptsOK, ReceiptIds, Lanes
<1>5. /\ MemoOK' /\ memo'.task = memo.task /\ memo'.weight = memo.weight
      /\ memo'.creditEpoch = memo.creditEpoch
      /\ memo'.receipt = [memo.receipt EXCEPT ![Lane] = nextReceiptId]
    BY <1>4 DEF MPPInv, MemoOK, NoMemo
<1>6. /\ \A lane : LaneTask(lane)' = LaneTask(lane)
      /\ \A lane \in Lanes : LaneReceipt(lane)' = IF lane = Lane THEN nextReceiptId ELSE LaneReceipt(lane)
    BY <1>4, <1>5 DEF MPPInv, MemoOK, LaneTask, LaneReceipt
<1>7. TasksOK'
    BY <1>1, <1>2, <1>3, <1>6 DEF MPPInv, TasksOK, IsHappyTask
<1>8. ReceiptsOK'
  <2>1. new.taskId = t /\ new.state = "PENDING" /\ DOMAIN new = DOMAIN NoReceipt
    BY DEF NoReceipt
  <2> HIDE DEF new
  <2>2. /\ DOMAIN receipts' = ReceiptIds
        /\ \A i \in ReceiptIds : receipts'[i] = IF i = nextReceiptId THEN new ELSE receipts[i]
        /\ \A i \in ReceiptIds : DOMAIN receipts'[i] = DOMAIN NoReceipt
    BY <1>3, <1>4, <2>1 DEF MPPInv, ReceiptsOK
  <2>3. CASE step = 22
    <3>1. LaneReceipt("consensus")' = nextReceiptId /\ t = LaneTask("consensus")
      BY <1>2, <1>6, <2>3 DEF Lanes
    <3> QED
      BY <1>1, <1>3, <1>4, <1>6, <2>1, <2>2, <2>3, <3>1 DEF MPPInv, ReceiptsOK
  <2>4. CASE step = 23
    <3>1. LaneReceipt("service")' = nextReceiptId /\ LaneReceipt("consensus")' = LaneReceipt("consensus")
      BY <1>2, <1>6, <2>4 DEF Lanes
    <3>2. receipts'[LaneReceipt("consensus")] = receipts[LaneReceipt("consensus")]
      BY <2>2, <2>4 DEF MPPInv, ReceiptsOK, ReceiptIds
    <3>3. LaneTask("consensus")' = LaneTask("consensus") /\ step' = 24
      BY <1>1, <1>6, <2>4
    <3>4. /\ LaneReceipt("consensus") \in ReceiptIds /\ LaneReceipt("consensus") < nextReceiptId
          /\ receipts[LaneReceipt("consensus")].taskId = LaneTask("consensus")
          /\ receipts[LaneReceipt("consensus")].state = "ACTIVE" =>
                /\ receipts[LaneReceipt("consensus")].activatedEpoch = tasks[LaneTask("consensus")].epoch + 1
                /\ tasks[LaneTask("consensus")].epoch + 1 \in Epochs
      BY <2>4 DEF MPPInv, ReceiptsOK
    <3>5. nextReceiptId' \in Nat \ {0} /\ LaneReceipt("consensus") < nextReceiptId'
      BY <1>3, <1>4, <3>4 DEF ReceiptIds
    <3> QED
      BY <1>3, <1>4, <2>2, <3>1, <3>2, <3>3, <3>4, <3>5 DEF ReceiptsOK
  <2>5. CASE step = 46
    <3>1. /\ LaneReceipt("challenge")' = nextReceiptId /\ LaneReceipt("consensus")' = LaneReceipt("consensus")
          /\ LaneReceipt("service")' = LaneReceipt("service")
      BY <1>2, <1>6, <2>5 DEF Lanes
    <3>2. receipts'[LaneReceipt("consensus")] = receipts[LaneReceipt("consensus")]
      BY <2>2, <2>5 DEF MPPInv, ReceiptsOK, ReceiptIds
    <3>3. LaneTask("consensus")' = LaneTask("consensus") /\ step' = 47
      BY <1>1, <1>6, <2>5
    <3>4. /\ LaneReceipt("consensus") \in ReceiptIds /\ LaneReceipt("consensus") < nextReceiptId
          /\ receipts[LaneReceipt("consensus")].taskId = LaneTask("consensus")
          /\ receipts[LaneReceipt("consensus")].state = "ACTIVE" =>
                /\ receipts[LaneReceipt("consensus")].activatedEpoch = tasks[LaneTask("consensus")].epoch + 1
                /\ tasks[LaneTask("consensus")].epoch + 1 \in Epochs
      BY <2>5 DEF MPPInv, ReceiptsOK
    <3>5. nextReceiptId' \in Nat \ {0} /\ LaneReceipt("consensus") < nextReceiptId'
      BY <1>3, <1>4, <3>4 DEF ReceiptIds
    <3>6. /\ LaneReceipt("service") \in ReceiptIds /\ LaneReceipt("service") < nextReceiptId'
          /\ LaneReceipt("service") # LaneReceipt("consensus")
      BY <1>3, <1>4, <2>5 DEF MPPInv, ReceiptsOK, ReceiptIds
    <3> QED
      BY <1>3, <1>4, <2>2, <3>1, <3>2, <3>3, <3>4, <3>5, <3>6 DEF ReceiptsOK
  <2> QED
    BY <1>2, <2>3, <2>4, <2>5
<1>9. Past({28, 29}) /\ Past({34}) /\ Past({11, 35})
    BY <1>1, <1>2 DEF Past
<1>10. CreditOK'
  <2>1. step > 29 => /\ LaneReceipt("consensus")' = LaneReceipt("consensus")
                     /\ LaneReceipt("service")' = LaneReceipt("service")
                     /\ receipts'[LaneReceipt("consensus")] = receipts[LaneReceipt("consensus")]
    BY <1>2, <1>3, <1>4, <1>6 DEF MPPInv, ReceiptsOK, Lanes
  <2> QED
    BY <1>3, <1>6, <1>9, <2>1, CreditFrame DEF MPPInv
<1> QED
    BY <1>1, <1>3, <1>5, <1>6, <1>7, <1>8, <1>9, <1>10, WeightFrame, FilesFrame DEF MPPInv

LEMMA ActivateInv ==
    ASSUME MPPInv, status = "running", Op = "activate", Advance, UNCHANGED <<memo, output>>,
           Activate(LaneReceipt(Lane)), ReceiptTx
    PROVE  MPPInv'
<1> DEFINE r == LaneReceipt(Lane)
<1>1. /\ PlaceOK' /\ step' = step + 1 /\ step \in 1..51 /\ status # "done" /\ policy' = policy
    BY SentPlace DEF ReceiptTx
<1>2. /\ step \in {26, 27}
      /\ step = 26 => Lane = "consensus"
      /\ step = 27 => Lane = "service"
    BY <1>1, ScriptCalls, ScriptLanes DEF Op, Lane
<1>3. /\ receipts' = [receipts EXCEPT ![r].state = "ACTIVE", ![r].activatedEpoch = CurrentEpoch]
      /\ CurrentEpoch = tasks[receipts[r].taskId].epoch + 1
      /\ UNCHANGED <<nextReceiptId, nextTaskId, tasks, commitments, rawCredit, collateral, taskAllocated,
                     receiptCredit>>
    BY DEF Activate, IsTaskActivatable, ReceiptTx, taskVars, commitmentVars, creditVars
<1>4. MemoOK' /\ \A lane : LaneTask(lane)' = LaneTask(lane) /\ LaneReceipt(lane)' = LaneReceipt(lane)
    BY DEF MPPInv, MemoOK, LaneTask, LaneReceipt
<1>5. step = 26 => CurrentEpoch \in Epochs
  <2> SUFFICES ASSUME step = 26 PROVE CurrentEpoch \in Epochs
    OBVIOUS
  <2>1. blockNumber \in Nat /\ blockNumber <= MaxBlock
    BY DEF MPPInv, PlaceOK
  <2>2. EpochAt(blockNumber) \in Nat /\ EpochAt(MaxBlock) \in Nat
        /\ EpochAt(blockNumber) <= EpochAt(MaxBlock)
    BY <2>1, EpochType, EpochMonotone, PolicyAssumption
  <2> QED
    BY <2>2, CreditAssumption DEF CurrentEpoch, Epochs
<1>6. ReceiptsOK'
  <2>1. CASE step = 26
    BY <1>1, <1>2, <1>3, <1>4, <1>5, <2>1 DEF MPPInv, ReceiptsOK, NoReceipt
  <2>2. CASE step = 27
    <3>1. r # LaneReceipt("consensus") /\ r \in ReceiptIds
      BY <1>2, <2>2 DEF MPPInv, ReceiptsOK
    <3>2. receipts'[LaneReceipt("consensus")] = receipts[LaneReceipt("consensus")]
      BY <1>3, <2>2, <3>1 DEF MPPInv, ReceiptsOK
    <3>3. /\ DOMAIN receipts' = ReceiptIds
          /\ \A i \in ReceiptIds : DOMAIN receipts'[i] = DOMAIN NoReceipt
      BY <1>3 DEF MPPInv, ReceiptsOK
    <3>4. Past({22, 23, 46, 50})
      BY <1>1, <2>2 DEF Past
    <3> QED
      BY <1>3, <1>4, <2>2, <3>2, <3>3, <3>4, ReceiptsKept DEF MPPInv
  <2> QED
    BY <1>2, <2>1, <2>2
<1>7. Past({5, 7, 12, 13, 22}) /\ Past({28, 29}) /\ Past({34}) /\ Past({11, 35}) /\ ~(step > 29)
    BY <1>1, <1>2 DEF Past
<1> QED
    BY <1>1, <1>3, <1>4, <1>6, <1>7, TasksFrame, CreditFrame, WeightFrame, FilesFrame DEF MPPInv

LEMMA CollateralInv ==
    ASSUME MPPInv, status = "running", Op = "collateral", Advance, UNCHANGED <<memo, output>>,
           SetCollateral(Owner, Collateral), CreditTx
    PROVE  MPPInv'
<1>1. /\ PlaceOK' /\ step' = step + 1 /\ step = 28 /\ status # "done" /\ policy' = policy
    BY SentPlace, ScriptCalls DEF CreditTx, Op
<1>2. /\ collateral' = [collateral EXCEPT ![Owner] = Collateral]
      /\ UNCHANGED <<nextReceiptId, receipts, nextTaskId, tasks, commitments, rawCredit, taskAllocated,
                     receiptCredit>>
    BY DEF SetCollateral, CreditTx, taskVars, commitmentVars, receiptVars
<1>3. MemoOK' /\ \A lane : LaneTask(lane)' = LaneTask(lane) /\ LaneReceipt(lane)' = LaneReceipt(lane)
    BY DEF MPPInv, MemoOK, LaneTask, LaneReceipt
<1>4. CreditOK'
    BY <1>1, <1>2, LocalMPPAssumption DEF MPPInv, CreditOK, Unpaid
<1>5. Past({5, 7, 12, 13, 22}) /\ Past({22, 23, 46, 50}) /\ Past({34}) /\ Past({11, 35})
    BY <1>1 DEF Past
<1> QED
    BY <1>1, <1>2, <1>3, <1>4, <1>5, TasksFrame, ReceiptsFrame, WeightFrame, FilesFrame DEF MPPInv

\* A task's only receipt takes the whole budget.
LEMMA WholeShare ==
    ASSUME NEW r \in ReceiptIds
    PROVE  TotalOfShares(Budget, {r}) = Budget
<1> DEFINE f == [i \in {r} |-> Share(Budget, i, {r})]
<1>1. {r} \in SUBSET ReceiptIds /\ {r} # {} /\ Budget \in Nat /\ \A i \in {r} : f[i] = Share(Budget, i, {r})
    BY LocalMPPAssumption
<1> HIDE DEF f
<1> QED
    BY <1>1, SharesAddUp

\* What the transactions of an allocation do: the happy task is paid once, and the
\* service task never.
LEMMA HappyCreditable == MPPInv /\ step > 22 => Creditable(LaneTask("consensus"))
<1> SUFFICES ASSUME MPPInv, step > 22 PROVE Creditable(LaneTask("consensus"))
    OBVIOUS
<1>1. step \in Nat
    BY DEF MPPInv, PlaceOK
<1>2. tasks[LaneTask("consensus")].active /\ IsHappyTask(LaneTask("consensus"))
    BY <1>1 DEF MPPInv, TasksOK
<1> QED
    BY <1>2, LocalMPPAssumption DEF IsHappyTask, Creditable

LEMMA AllocateInv ==
    ASSUME MPPInv, status = "running", Op = "allocate", Advance, UNCHANGED <<memo, output>>,
           Allocation(Lane)
    PROVE  MPPInv'
<1>1. /\ PlaceOK' /\ step' = step + 1 /\ step \in 1..51 /\ status # "done" /\ policy' = policy
    BY SentPlace DEF Allocation, CreditTx
<1>2. /\ step \in {29, 31}
      /\ step = 29 => Lane = "consensus"
      /\ step = 31 => Lane = "service"
    BY <1>1, ScriptCalls, ScriptLanes DEF Op, Lane
<1>3. UNCHANGED <<nextReceiptId, receipts, nextTaskId, tasks, commitments>>
    BY DEF Allocation, CreditTx, taskVars, commitmentVars, receiptVars
<1>4. MemoOK' /\ \A lane : LaneTask(lane)' = LaneTask(lane) /\ LaneReceipt(lane)' = LaneReceipt(lane)
    BY DEF MPPInv, MemoOK, LaneTask, LaneReceipt
<1>5. CreditOK'
  <2>1. CASE step = 31
    <3>1. ~Creditable(LaneTask("service"))
      BY <2>1 DEF MPPInv, TasksOK, Creditable
    <3>2. UNCHANGED <<rawCredit, collateral, taskAllocated, receiptCredit>>
      BY <1>2, <2>1, <3>1 DEF Allocation, creditVars
    <3>3. Past({28, 29})
      BY <1>1, <2>1 DEF Past
    <3> QED
      BY <1>3, <1>4, <3>2, <3>3, CreditFrame DEF MPPInv
  <2>2. CASE step = 29
    <3> DEFINE t == LaneTask("consensus")
               r == LaneReceipt("consensus")
               s == LaneReceipt("service")
    <3>1. AllocateCredit(t, {r})
      BY <1>2, <2>2, HappyCreditable DEF Allocation
    <3>2. /\ t \in TaskIds /\ IsHappyTask(t) /\ r \in ReceiptIds /\ s \in ReceiptIds /\ r # s
      BY <2>2 DEF MPPInv, TasksOK, ReceiptsOK
    <3>3. TotalOfShares(tasks[t].budget, {r}) = Budget
      BY <3>2, WholeShare DEF IsHappyTask
    <3>4. receipts[r].state = "ACTIVE" /\ tasks[t].epoch + 1 \in Epochs
      BY <2>2, <3>1 DEF AllocateCredit, CreditableReceipt, MPPInv, ReceiptsOK
    <3>5. Unpaid /\ DOMAIN collateral = Workers /\ collateral[Owner] = Collateral
      BY <2>2 DEF MPPInv, CreditOK
    <3>6. taskAllocated'[t] = Budget
      <4>1. taskAllocated' = [taskAllocated EXCEPT ![t] = @ + TotalOfShares(tasks[t].budget, {r})]
        BY <3>1 DEF AllocateCredit
      <4>2. taskAllocated' = [taskAllocated EXCEPT ![t] = @ + Budget]
        BY <3>3, <4>1
      <4> QED
        BY <3>2, <3>5, <4>2, LocalMPPAssumption DEF Unpaid
    <3>7. rawCredit'[tasks[t].epoch + 1][Owner] = Budget
      <4>1. rawCredit' = [rawCredit EXCEPT ![tasks[t].epoch + 1][tasks[t].worker] =
                              @ + TotalOfShares(tasks[t].budget, {r})]
        BY <3>1 DEF AllocateCredit, CreditEpoch
      <4>2. tasks[t].worker = Owner
        BY <3>2 DEF IsHappyTask
      <4>3. rawCredit' = [rawCredit EXCEPT ![tasks[t].epoch + 1][Owner] = @ + Budget]
        BY <3>3, <4>1, <4>2
      <4> DEFINE e == tasks[t].epoch + 1
      <4>4. e \in Epochs /\ Owner \in Workers /\ Budget \in Nat
        BY <3>4, LocalMPPAssumption
      <4> HIDE DEF e
      <4>5. rawCredit'[e][Owner] = rawCredit[e][Owner] + Budget
        BY <3>5, <4>3, <4>4 DEF Unpaid, e
      <4>6. rawCredit[e][Owner] = 0
        BY <3>5, <4>4 DEF Unpaid
      <4> QED
        BY <4>4, <4>5, <4>6 DEF e
    <3>8. receiptCredit'[s] = 0
      BY <3>1, <3>2, <3>5 DEF AllocateCredit, Unpaid
    <3>9. UNCHANGED collateral
      BY <3>1 DEF AllocateCredit
    <3> QED
      BY <1>1, <1>3, <1>4, <2>2, <3>4, <3>5, <3>6, <3>7, <3>8, <3>9 DEF CreditOK, Paid
  <2> QED
    BY <1>2, <2>1, <2>2
<1>6. Past({5, 7, 12, 13, 22}) /\ Past({22, 23, 46, 50}) /\ Past({34}) /\ Past({11, 35})
    BY <1>1, <1>2 DEF Past
<1> QED
    BY <1>1, <1>3, <1>4, <1>5, <1>6, TasksFrame, ReceiptsFrame, WeightFrame, FilesFrame DEF MPPInv

\* The second allocation is refused, whatever refuses it: the budget is spent.
LEMMA ReplayInv ==
    ASSUME MPPInv, Replay
    PROVE  MPPInv'
<1>1. status = "running" /\ Op = "replay" /\ UNCHANGED output
    BY DEF Replay, Running
<1>2. step = 33 /\ Lane = "consensus"
    BY <1>1, ScriptCalls, ScriptLanes DEF MPPInv, PlaceOK, Op, Lane
<1>3. ~Call
  <2> SUFFICES ASSUME Call PROVE FALSE
    OBVIOUS
  <2> DEFINE t == LaneTask("consensus")
             r == LaneReceipt("consensus")
  <2>1. AllocateCredit(t, {r})
    BY <1>1, <1>2, HappyCreditable DEF Call, Allocation
  <2>2. r \in ReceiptIds /\ IsHappyTask(t) /\ taskAllocated[t] = Budget
    BY <1>2 DEF MPPInv, TasksOK, ReceiptsOK, CreditOK, Paid
  <2>3. taskAllocated[t] + TotalOfShares(tasks[t].budget, {r}) <= tasks[t].budget
    BY <2>1 DEF AllocateCredit
  <2>4. Budget + Budget <= Budget
    BY <2>2, <2>3, WholeShare DEF IsHappyTask
  <2> QED
    BY <2>4, LocalMPPAssumption
<1>4. /\ memo' = [memo EXCEPT !.replay = TRUE] /\ Advance /\ UNCHANGED chainVars
    BY <1>3 DEF Replay
<1>5. Still /\ UNCHANGED <<blockNumber, policy>>
    BY <1>4, ChainStill
<1>6. SameMemo /\ MemoOK'
    BY <1>4 DEF SameMemo, MemoOK, MPPInv, NoMemo
<1>7. blockNumber' \in Nat /\ (step' = 26 => blockNumber' <= MaxBlock)
    BY <1>1, <1>4, <1>5, NextHeight DEF MPPInv, PlaceOK
<1> QED
    BY <1>1, <1>4, <1>5, <1>6, <1>7, QuietCall

\* The disputed lane's receipt is not the happy lane's.
LEMMA DisputedInv ==
    ASSUME MPPInv, status = "running", Op \in {"markChallenged", "slashReceipt"}, Advance,
           UNCHANGED <<memo, output>>,
           \/ Op = "markChallenged" /\ MarkChallenged(LaneReceipt(Lane))
           \/ Op = "slashReceipt" /\ SlashReceipt(LaneReceipt(Lane)),
           ReceiptTx
    PROVE  MPPInv'
<1> DEFINE d == LaneReceipt("challenge")
           r == LaneReceipt("consensus")
<1>1. /\ PlaceOK' /\ step' = step + 1 /\ step \in 1..51 /\ status # "done" /\ policy' = policy
    BY SentPlace DEF ReceiptTx
<1>2. /\ step \in {48, 50} /\ Lane = "challenge"
      /\ step = 50 <=> Op = "slashReceipt"
    BY <1>1, ScriptCalls, ScriptLanes DEF Op, Lane
<1>3. /\ \/ receipts' = [receipts EXCEPT ![d].state = "CHALLENGED"] /\ step = 48
         \/ receipts' = [receipts EXCEPT ![d].state = "SLASHED"] /\ step = 50
      /\ UNCHANGED <<nextReceiptId, nextTaskId, tasks, commitments, rawCredit, collateral, taskAllocated,
                     receiptCredit>>
    BY <1>2 DEF MarkChallenged, SlashReceipt, SetReceiptState, ReceiptTx, taskVars, commitmentVars,
                creditVars
<1>4. MemoOK' /\ \A lane : LaneTask(lane)' = LaneTask(lane) /\ LaneReceipt(lane)' = LaneReceipt(lane)
    BY DEF MPPInv, MemoOK, LaneTask, LaneReceipt
<1>5. d \in ReceiptIds /\ r \in ReceiptIds /\ d # r
    BY <1>2 DEF MPPInv, ReceiptsOK
<1>6. receipts'[r] = receipts[r]
    BY <1>3, <1>5 DEF MPPInv, ReceiptsOK
<1>7. /\ DOMAIN receipts' = ReceiptIds
      /\ \A i \in ReceiptIds : DOMAIN receipts'[i] = DOMAIN NoReceipt
    BY <1>3 DEF MPPInv, ReceiptsOK
<1>8. ReceiptsOK'
  <2>1. CASE step = 48
    <3>1. Past({22, 23, 46, 50})
      BY <1>1, <2>1 DEF Past
    <3> QED
      BY <1>3, <1>4, <1>6, <1>7, <2>1, <3>1, ReceiptsKept DEF MPPInv
  <2>2. CASE step = 50
    <3>1. receipts'[d].state = "SLASHED"
      BY <1>3, <1>5, <2>2 DEF MPPInv, ReceiptsOK, NoReceipt
    <3>2. step' = 51
      BY <1>1, <2>2
    <3>3. /\ nextReceiptId \in Nat \ {0} /\ r < nextReceiptId
          /\ receipts[r].taskId = LaneTask("consensus")
          /\ receipts[r].state = "ACTIVE" =>
                /\ receipts[r].activatedEpoch = tasks[LaneTask("consensus")].epoch + 1
                /\ tasks[LaneTask("consensus")].epoch + 1 \in Epochs
          /\ LaneReceipt("service") \in ReceiptIds /\ LaneReceipt("service") < nextReceiptId
          /\ LaneReceipt("service") # r
      BY <2>2 DEF MPPInv, ReceiptsOK
    <3> QED
      BY <1>3, <1>4, <1>5, <1>6, <1>7, <3>1, <3>2, <3>3 DEF ReceiptsOK
  <2> QED
    BY <1>2, <2>1, <2>2
<1>9. /\ Past({5, 7, 12, 13, 22}) /\ Past({28, 29}) /\ Past({34}) /\ Past({11, 35})
    BY <1>1, <1>2 DEF Past
<1>10. TasksOK' /\ WeightOK' /\ FilesOK'
    BY <1>1, <1>3, <1>4, <1>9, TasksFrame, WeightFrame, FilesFrame DEF MPPInv
<1>11. CreditOK'
    BY <1>3, <1>4, <1>6, <1>9, CreditFrame DEF MPPInv
<1> QED
    BY <1>1, <1>4, <1>8, <1>10, <1>11 DEF MPPInv

\* Deployment, the registrations and the audit calls change nothing followed.
LEMMA AuditCallInv ==
    ASSUME MPPInv, status = "running", Advance, UNCHANGED <<memo, output>>, Call,
           Op \in {"deploy", "registerModel", "registerWorker", "openAudit", "recordAudit", "recordDA",
                  "dispute", "slashTask"}
    PROVE  MPPInv'
<1>1. \/ Op = "deploy" /\ Deploy
      \/ RegisterModel(Model, Descriptor) /\ ModelTx
      \/ RegisterWorker(Owner) /\ TaskTx
      \/ AuditTx
    BY DEF Call
<1>2. Still /\ policy' = policy
    BY <1>1 DEF Still, Deploy, ModelTx, TaskTx, AuditTx, Mined, RegisterWorker, modelVars, taskVars,
                commitmentVars, auditVars, receiptVars, creditVars
<1>3. blockNumber' = blockNumber + DeployBlocks \/ blockNumber' = blockNumber + 1
    BY <1>1 DEF Deploy, ModelTx, TaskTx, AuditTx, Mined
<1>4. blockNumber' \in Nat
    BY <1>3, LocalMPPAssumption DEF MPPInv, PlaceOK
<1>5. SameMemo /\ MemoOK'
    BY DEF SameMemo, MemoOK, MPPInv
<1>6. step' # 26
    BY ScriptCalls DEF MPPInv, PlaceOK, Op, Advance
<1> QED
    BY <1>2, <1>4, <1>5, <1>6, QuietCall

LEMMA SendInv ==
    ASSUME MPPInv, Send
    PROVE  MPPInv'
<1>1. /\ status = "running" /\ Op \in Sends \ {"replay"} /\ Call /\ Advance /\ UNCHANGED output
      /\ memo' = Identified
    BY DEF Send, Running
<1>2. CASE Op = "mint"
    BY <1>1, <1>2, MintInv DEF Call, Identified
<1>3. ASSUME Op # "mint" PROVE memo' = memo
    BY <1>1, <1>3 DEF Identified
<1>4. CASE Op = "create"
    BY <1>1, <1>3, <1>4, CreateInv DEF Call
<1>5. CASE Op = "commit"
    BY <1>1, <1>3, <1>5, CommitInv DEF Call
<1>6. CASE Op = "activate"
    BY <1>1, <1>3, <1>6, ActivateInv DEF Call
<1>7. CASE Op = "collateral"
    BY <1>1, <1>3, <1>7, CollateralInv DEF Call
<1>8. CASE Op = "allocate"
    BY <1>1, <1>3, <1>8, AllocateInv DEF Call
<1>9. CASE Op \in {"markChallenged", "slashReceipt"}
    BY <1>1, <1>3, <1>9, DisputedInv DEF Call
<1>10. CASE Op \in {"deploy", "registerModel", "registerWorker", "openAudit", "recordAudit", "recordDA",
                    "dispute", "slashTask"}
    BY <1>1, <1>3, <1>10, AuditCallInv
<1> QED
    BY <1>1, <1>2, <1>4, <1>5, <1>6, <1>7, <1>8, <1>9, <1>10 DEF Sends

LEMMA NextInvMPP == MPPInv /\ [MPPNext]_mppVars => MPPInv'
<1> SUFFICES ASSUME MPPInv, [MPPNext]_mppVars PROVE MPPInv'
    OBVIOUS
<1>1. CASE UNCHANGED mppVars
  <2>1. UNCHANGED <<chainVars, step, memo, output, status>>
    BY <1>1 DEF mppVars, chainVars
  <2>2. PlaceOK'
    BY <2>1, ChainStill DEF MPPInv, PlaceOK
  <2> QED
    BY <2>1, <2>2, HostStep
<1>2. CASE RunStep
    BY <1>2, HostInv, AttachInv, WriteResultInv, SendInv, RevertedInv, ReplayInv, ViewInv, MineInv,
       InspectInv, WriteFileInv DEF RunStep
<1>3. CASE OwnBinds \/ Disturbance
    BY <1>3, HostInv, PeerMinesInv, LostCallInv DEF Disturbance
<1> QED
    BY <1>1, <1>2, <1>3 DEF MPPNext

LEMMA MPPInvariant == MPPSpec => []MPPInv
<1>1. MPPInv /\ [MPPNext]_mppVars => MPPInv'
    BY NextInvMPP
<1> QED
    BY <1>1, InitInvMPP, PTL DEF MPPSpec

-----------------------------------------------------------------------------

LEMMA JourneyDone == MPPInv /\ status = "done" => Journey
<1> SUFFICES ASSUME MPPInv, status = "done" PROVE Journey
    OBVIOUS
<1>1. step \in Nat /\ step > 51
    BY DEF MPPInv, PlaceOK
<1>2. Paid
    BY <1>1 DEF MPPInv, CreditOK
<1>3. receipts[LaneReceipt("challenge")].state = "SLASHED"
    BY <1>1 DEF MPPInv, ReceiptsOK
<1> QED
    BY <1>2, <1>3 DEF Journey, Paid

\* A result file of this run is written only beside its own bundle and committee and
\* after a journey that did on the chain what the result says, whatever a peer mined
\* between the calls and wherever a call was lost or reverted unnoticed.
THEOREM ResultsAreGenuine == MPPSpec => []ResultIsGenuine
<1>1. MPPInv => ResultIsGenuine
  <2> SUFFICES ASSUME MPPInv, output["result"] = "this"
               PROVE  output["bundle"] = "this" /\ output["committee"] = "this" /\ Journey
      BY DEF ResultIsGenuine
  <2>1. status = "done"
      BY DEF MPPInv, FilesOK
  <2>2. step \in Nat /\ step > 51
      BY <2>1 DEF MPPInv, PlaceOK
  <2>3. output["bundle"] = "this" /\ output["committee"] = "this"
      BY <2>2 DEF MPPInv, FilesOK
  <2> QED
      BY <2>1, <2>3, JourneyDone
<1> QED
    BY <1>1, MPPInvariant, PTL

\* The weight the Python kernel writes to the committee file is the authority the
\* contract gives the worker in the epoch the file names, for every budget, collateral
\* and policy and at every later height.
THEOREM CommitteeMatches == MPPSpec => []CommitteeMatchesChain
<1>1. MPPInv => CommitteeMatchesChain
  <2> SUFFICES ASSUME MPPInv, output["committee"] = "this"
               PROVE  memo.weight > 0 /\ memo.weight = ActiveWeight(memo.creditEpoch, Owner)
      BY DEF CommitteeMatchesChain
  <2>1. step \in Nat /\ step > 35
      BY DEF MPPInv, FilesOK, PlaceOK
  <2>2. memo.creditEpoch = tasks[LaneTask("consensus")].epoch + 1 /\ memo.weight = KernelWeight
      BY <2>1 DEF MPPInv, WeightOK
  <2>3. rawCredit[memo.creditEpoch][Owner] = Budget /\ collateral[Owner] = Collateral
      BY <2>1, <2>2 DEF MPPInv, CreditOK, Paid
  <2>4. policy = InitialPolicy /\ policy.beta \in Nat \ {0} /\ policy.cap \in Nat \ {0}
      BY PolicyAssumption DEF MPPInv, PlaceOK, PolicyValue
  <2>5. Collateral \div policy.beta \in Nat \ {0} /\ Collateral # 0 /\ Budget # 0 /\ Budget \in Nat
      BY <2>4, LocalMPPAssumption
  <2>6. ActiveWeight(memo.creditEpoch, Owner) = KernelWeight
      BY <2>3, <2>5 DEF ActiveWeight, KernelWeight
  <2>7. KernelWeight > 0
      BY <2>4, <2>5 DEF KernelWeight, Lesser
  <2> QED
      BY <2>2, <2>6, <2>7
<1> QED
    BY <1>1, MPPInvariant, PTL
-----------------------------------------------------------------------------
(* The node a run leaves behind: what RunEndsClean asks of the end of a    *)
(* run, without that it comes.                                             *)

\* Unless a run that is over was killed, its node is not running and will not be: not
\* even one that was spawned and had not bound the port yet.
LeavesNoNode == status \in Ended /\ status # "killed" => host.own \notin {"starting", "up"}

\* No run goes on after its end.
EndIsFinal == [][status' # status => status \notin Ended]_mppVars

\* The node starts after the port was checked and stops before the run is closed.
NodeInv ==
    /\ DOMAIN host = {"own", "peer", "chain"}
    /\ status \in {"idle", "checked"} => host.own = "none"
    /\ status = "failed" => host.own \in {"none", "exited"}
    /\ status \in {"closed", "done"} => host.own = "exited"

LEMMA NodeStep ==
    ASSUME NodeInv, [MPPNext]_mppVars
    PROVE  NodeInv' /\ (status \in Ended => status' = status)
<1>1. CASE UNCHANGED mppVars
    BY <1>1 DEF mppVars, NodeInv
<1>2. CASE CheckPort \/ Spawn \/ Attach \/ NotReady \/ Close \/ WriteResult
    BY <1>2 DEF CheckPort, Spawn, Attach, NotReady, Close, Stopped, WriteResult, NodeInv, Ended
<1>3. CASE Send \/ Reverted \/ Replay \/ View \/ Mine \/ Inspect \/ FailurePaths \/ WriteFile \/ LostCall
  <2>1. host' = host /\ status = "running"
    BY <1>3 DEF Send, Reverted, Replay, View, Mine, Inspect, FailurePaths, WriteFile, LostCall, Running
  <2>2. status' \in {"running", "closing"}
    BY <1>3 DEF Send, Reverted, Replay, View, Mine, Inspect, FailurePaths, WriteFile, LostCall,
       Advance, Raise
  <2> QED
    BY <2>1, <2>2 DEF NodeInv, Ended
<1>4. CASE OwnBinds \/ PeerChecksPort \/ PeerBinds \/ PeerEnds
  <2>1. status' = status
    BY <1>4 DEF OwnBinds, PeerChecksPort, PeerBinds, PeerEnds
  <2>2. \/ host.own = "starting"
        \/ host'.own = host.own
    BY <1>4 DEF OwnBinds, PeerChecksPort, PeerBinds, PeerEnds, NodeInv
  <2>3. DOMAIN host' = DOMAIN host
    BY <1>4 DEF OwnBinds, PeerChecksPort, PeerBinds, PeerEnds
  <2> QED
    BY <2>1, <2>2, <2>3 DEF NodeInv
<1>5. CASE PeerMinesBlocks \/ Killed
    BY <1>5 DEF PeerMinesBlocks, Killed, NodeInv, Ended
<1> QED
    BY <1>1, <1>2, <1>3, <1>4, <1>5 DEF MPPNext, RunStep, Disturbance

\* The safety half of RunEndsClean: a run that returned, or failed wherever it did, has no
\* node that runs or may still come up, and does not start again (the finally clause of
\* run_local_mpp and _start_anvil's own cleanup).
THEOREM EndedRunsAreClean == MPPSpec => []LeavesNoNode /\ EndIsFinal
<1>1. MPPInit => NodeInv
    BY DEF MPPInit, NodeInv
<1>2. NodeInv /\ [MPPNext]_mppVars => NodeInv'
    BY NodeStep
<1>3. NodeInv /\ [MPPNext]_mppVars => [status' # status => status \notin Ended]_mppVars
    BY NodeStep
<1>4. NodeInv => LeavesNoNode
    BY DEF NodeInv, LeavesNoNode, Ended
<1> QED
    BY <1>1, <1>2, <1>3, <1>4, PTL DEF MPPSpec, EndIsFinal
=============================================================================
