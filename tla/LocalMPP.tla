------------------------------- MODULE LocalMPP -------------------------------
(***************************************************************************)
(* src/poi_mpp/orchestration/run_mpp.py: one local run.  It starts an      *)
(* Anvil node, deploys the contracts (the PoIProtocol modules this one     *)
(* extends), drives three tasks through them, and writes what it saw to    *)
(* the output root.                                                        *)
(*                                                                         *)
(* Automine: every transaction is alone in its block, and blockNumber is   *)
(* the height of the block being built, so a transaction runs at           *)
(* blockNumber and a view call at Height, one below.  A call that would    *)
(* revert fails in gas estimation: no block, a CalledProcessError.         *)
(*                                                                         *)
(* The port is tested before the node is spawned and readiness is a chain  *)
(* id answered on that port, so a peer run started in the same moment can  *)
(* end up on the same chain, mining blocks between this run's calls.       *)
(***************************************************************************)
EXTENDS PoIProtocol, Sequences

CONSTANTS
    Owner,           \* _ANVIL_OWNER: deployer, admin and worker
    Model, Descriptor, Response,
    DeployBlocks,    \* transactions of _deploy_stack
    Budget,          \* _CREDIT_BUDGET
    Collateral,      \* posted for the worker
    PeerMines,       \* bound: blocks one call of the peer may mine
    Upsets           \* bound: peer calls, lost calls and kills in one run

Lanes == {"consensus", "service", "challenge"}
Groups == {"happy", "challenge"}
Group(lane) == IF lane = "challenge" THEN "challenge" ELSE "happy"
Class(lane) == IF lane = "service" THEN "SERVICE" ELSE "CONSENSUS"

ASSUME LocalMPPAssumption ==
    /\ Owner \in Workers /\ Model \in Models /\ Descriptor \in Descriptors
    /\ Response \in Responses /\ Lanes \subseteq Nullifiers
    /\ Budget \in Nat \ {0} /\ Collateral \in Nat /\ DeployBlocks \in Nat
    /\ Collateral >= InitialPolicy.beta   \* it is worth some authority
    /\ {MaxTasks, MaxReceipts} \subseteq Nat \ (0..2)   \* the bounds do not bite
    /\ Upsets \in Nat /\ PeerMines \subseteq Nat \ {0}

VARIABLES
    status,   \* idle, checked, waiting, running, closing, closed, done, failed or killed
    step,     \* position in Script while it runs
    memo,     \* what the client has read and will use later
    host,     \* both Anvil processes (own, peer) and the chain this run talks to
    output,   \* who wrote each file of the output root
    upsets    \* disturbances so far

chainVars == vars
mppVars == <<vars, status, step, memo, host, output, upsets>>

-----------------------------------------------------------------------------
(* The calls of _run_synthetic_mechanics, in order. *)
Each(op, lanes) == [i \in DOMAIN lanes |-> <<op, lanes[i]>>]
AuditLane(lane) == <<<<"openAudit", lane>>, <<"recordAudit", lane>>, <<"recordDA", lane>>>>
CreateLane(lane) == <<<<"quote", lane>>, <<"create", lane>>>>

SetupCalls ==
    <<<<"deploy", "happy">>, <<"inspect", "happy">>,
      <<"registerModel", "happy">>, <<"registerWorker", "happy">>>>
    \o CreateLane("consensus") \o CreateLane("service")
    \o <<<<"planHeight", "happy">>, <<"planEpoch", "happy">>, <<"writeBundle", "happy">>>>

CommitCalls ==
    Each("commit", <<"consensus", "service">>) \o <<<<"see", "happy">>, <<"mineFinal", "happy">>>>

MintCalls ==
    Each("mint", <<"consensus", "service">>) \o <<<<"see", "happy">>, <<"mineEpoch", "happy">>>>

SettleCalls ==
    Each("activate", <<"consensus", "service">>)
    \o <<<<"collateral", "happy">>, <<"allocate", "consensus">>, <<"before", "service">>,
         <<"allocate", "service">>, <<"after", "service">>, <<"replay", "consensus">>,
         <<"readback", "consensus">>, <<"writeCommittee", "happy">>>>

ChallengeCalls ==
    CreateLane("challenge")
    \o <<<<"planEpoch", "challenge">>, <<"planHeight", "challenge">>, <<"commit", "challenge">>,
         <<"see", "challenge">>, <<"mineFinal", "challenge">>>>
    \o AuditLane("challenge")
    \o <<<<"mint", "challenge">>, <<"dispute", "challenge">>, <<"markChallenged", "challenge">>,
         <<"slashTask", "challenge">>, <<"slashReceipt", "challenge">>,
         <<"failurePaths", "challenge">>>>

Script == SetupCalls \o CommitCalls \o AuditLane("consensus") \o AuditLane("service")
              \o MintCalls \o SettleCalls \o ChallengeCalls

Op == Script[step][1]
Lane == Script[step][2]

Height == blockNumber - 1

LaneTask(lane) == memo.task[lane]
LaneReceipt(lane) == memo.receipt[lane]

\* The height the client predicts for a lane's commitment.
PlannedCommit(lane) == memo.height[Group(lane)] + (IF lane = "service" THEN 2 ELSE 1)

\* max of the finalized heights of the lanes committed together
FinalTarget(group) ==
    PlannedCommit(IF group = "happy" THEN "service" ELSE "challenge") + policy.finalityDepth

\* Faulty variant: the first block of the task's own epoch.
EpochTargetOfTask == BlocksPerEpoch * (memo.epoch["happy"] - 1) + 1

\* The formula counts from genesis block 1, as deployed.
EpochTarget == BlocksPerEpoch * memo.epoch["happy"] + 1

-----------------------------------------------------------------------------
NoMemo == [task |-> [l \in Lanes |-> 0], receipt |-> [l \in Lanes |-> 0],
           quote |-> 0, height |-> [g \in Groups |-> 0], epoch |-> [g \in Groups |-> 0],
           seen |-> 0, before |-> 0, after |-> 0, replay |-> FALSE,
           creditEpoch |-> 0, weight |-> 0, blocker |-> "NONE"]

Ended == {"done", "failed", "killed"}
Files == {"bundle", "committee", "result"}

\* The output root may hold the files of an earlier run, complete or not.
MPPInit ==
    /\ Init
    /\ status = "idle"
    /\ step = 0
    /\ memo = NoMemo
    /\ host = [own |-> "none", peer |-> "none", chain |-> "none"]
    /\ output \in {[f \in Files |-> "none"], [f \in Files |-> "earlier"],
                   [f \in Files |-> IF f = "bundle" THEN "earlier" ELSE "none"]}
    /\ upsets = 0

Upset == upsets < Upsets /\ upsets' = upsets + 1

-----------------------------------------------------------------------------
(* _start_anvil and _AnvilProcess.close *)
PortTaken == host.own = "up" \/ host.peer = "up"

CheckPort ==
    /\ status = "idle"
    /\ status' = IF PortTaken THEN "failed" ELSE "checked"
    /\ UNCHANGED <<chainVars, step, memo, host, output, upsets>>

Spawn ==
    /\ status = "checked"
    /\ status' = "waiting"
    /\ host' = [host EXCEPT !.own = "starting"]
    /\ UNCHANGED <<chainVars, step, memo, output, upsets>>

\* Whoever binds the port second exits.
OwnBinds ==
    /\ host.own = "starting"
    /\ host' = [host EXCEPT !.own = IF host.peer = "up" THEN "exited" ELSE "up"]
    /\ UNCHANGED <<chainVars, status, step, memo, output, upsets>>

\* The readiness loop: the spawned process has not exited and the port answers.
Attach ==
    /\ status = "waiting"
    /\ host.own # "exited"
    /\ PortTaken
    /\ status' = "running"
    /\ step' = 1
    /\ host' = [host EXCEPT !.chain = IF host.own = "up" THEN "own" ELSE "peer"]
    /\ UNCHANGED <<chainVars, memo, output, upsets>>

\* The process exited, or the startup timeout passed: SIGTERM and an exception.
NotReady ==
    /\ status = "waiting"
    /\ IF host.own = "exited" THEN UNCHANGED upsets ELSE Upset
    /\ status' = "failed"
    /\ host' = [host EXCEPT !.own = "exited"]
    /\ UNCHANGED <<chainVars, step, memo, output>>

\* Faulty variant: only a run that completed stops its node.
StoppedIfComplete == IF step > Len(Script) THEN [host EXCEPT !.own = "exited"] ELSE host

\* close(): SIGTERM, SIGKILL ten seconds later, and wait.
Stopped == [host EXCEPT !.own = "exited"]

\* The finally clause.  An exception under way, or one of close(), ends the run.
Close ==
    /\ status = "closing"
    /\ host' = Stopped
    /\ \/ step > Len(Script) /\ status' = "closed" /\ UNCHANGED upsets
       \/ step <= Len(Script) /\ status' = "failed" /\ UNCHANGED upsets
       \/ status' = "failed" /\ Upset
    /\ UNCHANGED <<chainVars, step, memo, output>>

WriteResult ==
    /\ status = "closed"
    /\ output' = [output EXCEPT !["result"] = "this"]
    /\ status' = "done"
    /\ UNCHANGED <<chainVars, step, memo, host, upsets>>

-----------------------------------------------------------------------------
(* A peer run, and what else may befall this one. *)
PeerChecksPort ==
    /\ host.peer = "none" /\ ~PortTaken /\ Upset
    /\ host' = [host EXCEPT !.peer = "checked"]
    /\ UNCHANGED <<chainVars, status, step, memo, output>>

\* The peer's node gets the port, or the peer finds ours answering on it.
PeerBinds ==
    /\ host.peer = "checked"
    /\ host' = [host EXCEPT !.peer = IF host.own = "up" THEN "guest" ELSE "up"]
    /\ UNCHANGED <<chainVars, status, step, memo, output, upsets>>

OnOneChain == \/ host.chain = "own" /\ host.peer = "guest"
              \/ host.chain = "peer" /\ host.peer = "up"

PeerMinesBlocks ==
    /\ status = "running" /\ OnOneChain /\ Upset
    /\ \E n \in PeerMines :
          /\ blockNumber + n <= MaxBlock
          /\ blockNumber' = blockNumber + n
    /\ UNCHANGED <<roles, policy, modelVars, taskVars, commitmentVars, auditVars, receiptVars,
                   creditVars, status, step, memo, host, output>>

PeerEnds ==
    /\ host.peer \in {"checked", "up", "guest"}
    /\ host' = [host EXCEPT !.peer = "gone"]
    /\ UNCHANGED <<chainVars, status, step, memo, output, upsets>>

\* A SIGKILL of the run: the node is in a session of its own and lives on.
Killed ==
    /\ status \notin Ended /\ Upset
    /\ status' = "killed"
    /\ UNCHANGED <<chainVars, step, memo, host, output>>

-----------------------------------------------------------------------------
(* Transactions *)
ChainAlive == \/ host.chain = "own" /\ host.own = "up"
              \/ host.chain = "peer" /\ host.peer = "up"

Mined == blockNumber' = blockNumber + 1 /\ UNCHANGED <<roles, policy>>

\* One policy contract, five role grants, six contracts, six registrations.
Deploy ==
    /\ blockNumber' = blockNumber + DeployBlocks
    /\ roles' = Roles \X {Owner}
    /\ UNCHANGED <<policy, modelVars, taskVars, commitmentVars, auditVars, receiptVars,
                   creditVars>>

ModelTx == Mined /\ UNCHANGED <<taskVars, commitmentVars, auditVars, receiptVars, creditVars>>
TaskTx == Mined /\ UNCHANGED <<modelVars, commitmentVars, auditVars, receiptVars, creditVars>>
CommitTx == Mined /\ UNCHANGED <<modelVars, taskVars, auditVars, receiptVars, creditVars>>
AuditTx == Mined /\ UNCHANGED <<modelVars, taskVars, commitmentVars, receiptVars, creditVars>>
ReceiptTx == Mined /\ UNCHANGED <<modelVars, taskVars, commitmentVars, auditVars, creditVars>>
CreditTx == Mined /\ UNCHANGED <<modelVars, taskVars, commitmentVars, auditVars, receiptVars>>

\* A task that earns nothing makes allocateCredit return, not revert.
Allocation(lane) ==
    IF Creditable(LaneTask(lane))
    THEN AllocateCredit(LaneTask(lane), {LaneReceipt(lane)}) /\ CreditTx
    ELSE UNCHANGED creditVars /\ CreditTx

Call ==
    \/ Op = "deploy" /\ Deploy
    \/ Op = "registerModel" /\ RegisterModel(Model, Descriptor) /\ ModelTx
    \/ Op = "registerWorker" /\ RegisterWorker(Owner) /\ TaskTx
    \/ Op = "create" /\ CreateTask(Model, Owner, Class(Lane), Budget, memo.quote) /\ TaskTx
    \/ Op = "commit" /\ CommitResponse(LaneTask(Lane), Owner, Response) /\ CommitTx
    \/ Op = "openAudit" /\ OpenAudit(LaneTask(Lane)) /\ AuditTx
    \/ Op = "recordAudit" /\ RecordAuditResult(LaneTask(Lane), "ACCEPT") /\ AuditTx
    \/ Op = "recordDA" /\ RecordDataAvailability(LaneTask(Lane), TRUE) /\ AuditTx
    \/ Op = "mint" /\ MintPending(LaneTask(Lane), Lane) /\ ReceiptTx
    \/ Op = "activate" /\ Activate(LaneReceipt(Lane)) /\ ReceiptTx
    \/ Op = "collateral" /\ SetCollateral(Owner, Collateral) /\ CreditTx
    \/ Op \in {"allocate", "replay"} /\ Allocation(Lane)
    \/ Op = "dispute" /\ OpenChallenge(LaneTask(Lane)) /\ AuditTx
    \/ Op = "markChallenged" /\ MarkChallenged(LaneReceipt(Lane)) /\ ReceiptTx
    \/ Op = "slashTask" /\ SlashTask(LaneTask(Lane)) /\ AuditTx
    \/ Op = "slashReceipt" /\ SlashReceipt(LaneReceipt(Lane)) /\ ReceiptTx

Sends == {"deploy", "registerModel", "registerWorker", "create", "commit", "openAudit",
          "recordAudit", "recordDA", "mint", "activate", "collateral", "allocate", "replay",
          "dispute", "markChallenged", "slashTask", "slashReceipt"}

\* Faulty variant: a refused estimate is not noticed either.
RefusedCalls == {"create", "activate", "dispute", "markChallenged", "slashTask", "slashReceipt"}

\* Gas is estimated on the last block, so a call whose guard depends on the
\* height may pass the estimate and revert in its own block.
HeightSensitive == {"create", "activate", "dispute"}

\* The id a lane will get is read before the call that creates it.
Identified ==
    CASE Op = "mint" -> [memo EXCEPT !.receipt[Lane] = nextReceiptId]
      [] OTHER -> memo

Advance == step' = step + 1 /\ status' = IF step = Len(Script) THEN "closing" ELSE "running"

Running == status = "running" /\ ChainAlive

\* The replay is the one call that must not succeed.
Send ==
    /\ Running /\ Op \in Sends \ {"replay"}
    /\ Call
    /\ memo' = Identified
    /\ Advance
    /\ UNCHANGED <<host, output, upsets>>

Raise == status' = "closing" /\ UNCHANGED step

\* cast may report a reverted transaction as an error or hand back its receipt,
\* whose status _send does not look at.
Reverted ==
    /\ Running /\ Op \in Sends \ {"replay"}
    /\ ~ENABLED Call
    /\ \/ Raise /\ UNCHANGED chainVars
       \/ /\ Op \in HeightSensitive
          /\ Mined
          /\ UNCHANGED <<modelVars, taskVars, commitmentVars, auditVars, receiptVars, creditVars>>
          /\ Advance
    /\ UNCHANGED <<memo, host, output, upsets>>

Replay ==
    /\ Running /\ Op = "replay"
    /\ \/ Call /\ Raise /\ UNCHANGED memo
       \/ /\ ~ENABLED Call
          /\ memo' = [memo EXCEPT !.replay = TRUE]
          /\ Advance
          /\ UNCHANGED chainVars
    /\ UNCHANGED <<host, output, upsets>>

\* A timeout, a nonce taken by the peer or a dead node.  The replay counts any
\* failed command as the refusal it waits for; a timeout it does not catch.
LostCall ==
    /\ status = "running"
    /\ IF ChainAlive THEN Upset ELSE UNCHANGED upsets
    /\ \/ Raise /\ UNCHANGED memo
       \/ Op = "replay" /\ memo' = [memo EXCEPT !.replay = TRUE] /\ Advance
    /\ UNCHANGED <<chainVars, host, output>>

-----------------------------------------------------------------------------
(* Reads, mining and files *)
\* derive_active_weight
WeightOf(credit) == Lesser(Lesser(credit, Collateral \div policy.beta), policy.cap)

\* allocate_credit of the Python kernel for the one receipt read back.
KernelCredit == IF receipts[LaneReceipt("consensus")].state = "ACTIVE" THEN Budget ELSE 0

\* What _validated_happy_authoritative_receipt compares.
ReadbackMatches ==
    LET t == LaneTask("consensus")
        r == receipts[LaneReceipt("consensus")]
    IN  /\ r.taskId = t /\ r.worker = Owner /\ r.nullifier = "consensus"
        /\ r.commitment = ResponseCommitment(t, Model, Descriptor, Response)
        /\ r.state = "ACTIVE"
        /\ r.epochIssued = memo.epoch["happy"]
        /\ r.activatedEpoch = memo.epoch["happy"] + 1
        /\ rounds[t].commitment = r.commitment
        /\ rounds[t].challengeDeadline = r.challengeDeadline
        /\ Accepted(t) /\ rounds[t].exists

\* Faulty variant: the epoch of the task, not of the activation.
CreditEpochIssued(r) == r.epochIssued

CreditEpochRead(r) == r.activatedEpoch

\* The values a view call leaves with the client.
Read ==
    CASE Op = "quote" -> [memo EXCEPT !.quote = EpochAt(Height), !.task[Lane] = nextTaskId]
      [] Op = "planHeight" -> [memo EXCEPT !.height[Lane] = Height]
      [] Op = "planEpoch" -> [memo EXCEPT !.epoch[Lane] = EpochAt(Height)]
      [] Op = "see" -> [memo EXCEPT !.seen = Height]
      [] Op = "before" -> [memo EXCEPT !.before = receiptCredit[LaneReceipt(Lane)]]
      [] Op = "after" -> [memo EXCEPT !.after = receiptCredit[LaneReceipt(Lane)]]
      [] Op = "readback" ->
             [memo EXCEPT !.creditEpoch = CreditEpochRead(receipts[LaneReceipt(Lane)]),
                          !.weight = WeightOf(KernelCredit)]

Reads == {"quote", "planHeight", "planEpoch", "see", "before", "after", "readback"}

ReadAccepted ==
    CASE Op = "after" -> memo.before = receiptCredit[LaneReceipt(Lane)]
      [] Op = "readback" -> ReadbackMatches
      [] OTHER -> TRUE

View ==
    /\ Running /\ Op \in Reads
    /\ IF ReadAccepted THEN memo' = Read /\ Advance ELSE UNCHANGED memo /\ Raise
    /\ UNCHANGED <<chainVars, host, output, upsets>>

\* anvil_mine with the difference to the height seen before.
Mine ==
    LET target == IF Op = "mineEpoch" THEN EpochTarget ELSE FinalTarget(Lane)
        count == IF target > memo.seen THEN target - memo.seen ELSE 0
    IN  /\ Running /\ Op \in {"mineFinal", "mineEpoch"}
        /\ blockNumber + count <= MaxBlock
        /\ blockNumber' = blockNumber + count
        /\ Advance
        /\ UNCHANGED <<roles, policy, modelVars, taskVars, commitmentVars, auditVars,
                       receiptVars, creditVars, memo, host, output, upsets>>

\* _verify_local_model_artifact: the roots hold what the manifest names, or not.
Inspect ==
    /\ Running /\ Op = "inspect"
    /\ \E found \in {"WAITING_LOCAL_MODEL_ARTIFACT", "WAITING_EXTERNAL_EVALUATOR_AUTHORITY"} :
          memo' = [memo EXCEPT !.blocker = found]
    /\ Advance
    /\ UNCHANGED <<chainVars, host, output, upsets>>

\* The failure paths run in the Python machine, away from the chain.
FailurePaths ==
    /\ status = "running" /\ Op = "failurePaths"
    /\ Advance
    /\ UNCHANGED <<chainVars, memo, host, output, upsets>>

\* _write_mechanics_artifact: each file is replaced atomically, alone.
WriteFile ==
    /\ status = "running" /\ Op \in {"writeBundle", "writeCommittee"}
    /\ output' = [output EXCEPT ![IF Op = "writeBundle" THEN "bundle" ELSE "committee"] = "this"]
    /\ Advance
    /\ UNCHANGED <<chainVars, memo, host, upsets>>

-----------------------------------------------------------------------------
RunStep == \/ CheckPort \/ Spawn \/ Attach \/ NotReady \/ Close \/ WriteResult
           \/ Send \/ Reverted \/ Replay \/ View \/ Mine \/ Inspect \/ FailurePaths \/ WriteFile

Disturbance == \/ PeerChecksPort \/ PeerBinds \/ PeerMinesBlocks \/ PeerEnds
               \/ Killed \/ LostCall

MPPNext == RunStep \/ OwnBinds \/ Disturbance

\* The run's process and its node are scheduled, a call on a dead node fails,
\* and nothing is asked of the peer.
MPPSpec == /\ MPPInit /\ [][MPPNext]_mppVars
           /\ WF_mppVars(RunStep) /\ WF_mppVars(OwnBinds)
           /\ WF_mppVars(LostCall /\ ~ChainAlive)

-----------------------------------------------------------------------------
(* The happy lane settled its whole budget in the next epoch, the service lane
   was paid nothing and the disputed lane's receipt ended slashed. *)
Journey ==
    LET t == LaneTask("consensus")
    IN  /\ receipts[LaneReceipt("consensus")].state = "ACTIVE"
        /\ rawCredit[tasks[t].epoch + 1][Owner] = Budget
        /\ taskAllocated[t] = Budget
        /\ receiptCredit[LaneReceipt("service")] = 0
        /\ receipts[LaneReceipt("challenge")].state = "SLASHED"

\* A result file of this run is written only beside its own bundle and committee
\* and after a journey that did on the chain what the result says, however the
\* reads raced a peer's blocks (run_local_mpp writes it last).
ResultIsGenuine ==
    output["result"] = "this" =>
        /\ output["bundle"] = "this" /\ output["committee"] = "this"
        /\ Journey

\* The weight in the committee file, computed by the Python kernel from a receipt
\* read back and the collateral it posted, is the authority the contract gives the
\* worker in the epoch the file names, at every later height.
CommitteeMatchesChain ==
    output["committee"] = "this" =>
        memo.weight > 0 /\ memo.weight = ActiveWeight(memo.creditEpoch, Owner)

\* A run nothing disturbs gets through: each call is sent in a block and an epoch
\* that accept it (the heights and the epoch the client computed are right).
QuietRunCompletes == [](upsets = 0) => <>(status = "done")

\* Every run ends, and leaves no node of its own unless it was killed (the finally
\* clause of run_local_mpp and _start_anvil's own cleanup).
RunEndsClean ==
    <>[](status \in Ended /\ (status # "killed" => host.own \notin {"starting", "up"}))
=============================================================================
