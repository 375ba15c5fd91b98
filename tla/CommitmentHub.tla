---------------------------- MODULE CommitmentHub ----------------------------
(***************************************************************************)
(* contracts/src/CommitmentHub.sol.  ProtocolHashing is a chain of         *)
(* collision-free hashes, modelled by the tuple it hashes: the task        *)
(* commitment stands for the task id (a task is immutable), the model      *)
(* commitment for the root and its descriptor at commit time, the response *)
(* for <<responseHash, traceRoot, evidenceRoot, artifactRoot, nonce>>.     *)
(***************************************************************************)
EXTENDS TaskManager

CONSTANT Responses   \* nonzero response bundles a worker may commit

ASSUME CommitmentAssumption == Zero \notin Responses

VARIABLE commitments   \* commitments: task id -> Commitment

commitmentVars == <<commitments>>

ResponseCommitment(t, m, descriptor, response) ==
    [task |-> t, model |-> m, descriptor |-> descriptor, response |-> response]

ResponseCommitments == [task : TaskIds, model : Models \cup {Zero},
                        descriptor : Descriptors \cup {Zero}, response : Responses]

NoCommitment == [worker |-> Zero, hash |-> Zero, committedBlock |-> 0,
                 finalizedBlock |-> 0, exists |-> FALSE]

Commitment == [worker : Workers \cup {Zero}, hash : ResponseCommitments \cup {Zero},
               committedBlock : Nat, finalizedBlock : Nat, exists : BOOLEAN]

CommitmentTypeOK == commitments \in [TaskIds -> Commitment]

CommitmentInit == commitments = [t \in TaskIds |-> NoCommitment]

\* modelCommitment reverts when the model was deactivated after createTask.
CommitResponse(t, sender, response) ==
    /\ tasks[t].active
    /\ tasks[t].worker = sender
    /\ sender \in registeredWorkers
    /\ ~commitments[t].exists
    /\ IsRegisteredModel(tasks[t].model)
    /\ commitments' = [commitments EXCEPT ![t] =
           [worker |-> sender,
            hash |-> ResponseCommitment(t, tasks[t].model,
                                        models[tasks[t].model].descriptor, response),
            committedBlock |-> blockNumber,
            finalizedBlock |-> blockNumber + policy.finalityDepth,
            exists |-> TRUE]]

IsFinalized(t) == commitments[t].exists /\ blockNumber >= commitments[t].finalizedBlock
=============================================================================
