---------------------------- MODULE AuditManager ----------------------------
(***************************************************************************)
(* contracts/src/AuditManager.sol: one audit round per task.  The audit    *)
(* id, seed hash and policy hash are opaque to the chain and left out.     *)
(***************************************************************************)
EXTENDS CommitmentHub

VARIABLE rounds   \* rounds: task id -> AuditRound

auditVars == <<rounds>>

Decisions == {"NONE", "ACCEPT", "REJECT", "ABSTAIN"}

NoRound == [commitment |-> Zero, openedBlock |-> 0, challengeDeadline |-> 0,
            decision |-> "NONE", daRecorded |-> FALSE, daPassed |-> FALSE,
            challenged |-> FALSE, slashed |-> FALSE, exists |-> FALSE]

AuditRound == [commitment : ResponseCommitments \cup {Zero}, openedBlock : Nat,
               challengeDeadline : Nat, decision : Decisions, daRecorded : BOOLEAN,
               daPassed : BOOLEAN, challenged : BOOLEAN, slashed : BOOLEAN,
               exists : BOOLEAN]

AuditTypeOK == rounds \in [TaskIds -> AuditRound]

AuditInit == rounds = [t \in TaskIds |-> NoRound]

Accepted(t) ==
    /\ rounds[t].decision = "ACCEPT"
    /\ rounds[t].daRecorded
    /\ rounds[t].daPassed

-----------------------------------------------------------------------------
\* Faulty variant: the snapshot is hashed again from the registry's current descriptor.
OpenedRoundRehashed(t) ==
    [NoRound EXCEPT
        !.commitment = [commitments[t].hash EXCEPT
                            !.descriptor = models[tasks[t].model].descriptor],
        !.openedBlock = blockNumber,
        !.challengeDeadline = blockNumber + policy.challengeWindow,
        !.exists = TRUE]

OpenedRound(t) ==
    [NoRound EXCEPT !.commitment = commitments[t].hash,
                    !.openedBlock = blockNumber,
                    !.challengeDeadline = blockNumber + policy.challengeWindow,
                    !.exists = TRUE]

OpenAudit(t) ==
    /\ Authorized("AUDITOR")
    /\ ~rounds[t].exists
    /\ IsFinalized(t)
    /\ rounds' = [rounds EXCEPT ![t] = OpenedRound(t)]

RecordAuditResult(t, decision) ==
    /\ Authorized("AUDITOR")
    /\ rounds[t].exists
    /\ rounds[t].decision = "NONE"
    /\ decision # "NONE"
    /\ rounds' = [rounds EXCEPT ![t].decision = decision]

RecordDataAvailability(t, available) ==
    /\ Authorized("AUDITOR")
    /\ rounds[t].exists
    /\ ~rounds[t].daRecorded
    /\ rounds' = [rounds EXCEPT ![t].daRecorded = TRUE, ![t].daPassed = available]

\* The block of the deadline itself still admits a challenge.
OpenChallenge(t) ==
    /\ Authorized("AUDITOR")
    /\ rounds[t].exists
    /\ Accepted(t)
    /\ ~rounds[t].slashed
    /\ blockNumber <= rounds[t].challengeDeadline
    /\ rounds' = [rounds EXCEPT ![t].challenged = TRUE]

SlashTask(t) ==
    /\ Authorized("AUDITOR")
    /\ rounds[t].exists
    /\ rounds[t].challenged
    /\ ~rounds[t].slashed
    /\ rounds' = [rounds EXCEPT ![t].slashed = TRUE]

-----------------------------------------------------------------------------
IsTaskChallenged(t) == rounds[t].exists /\ rounds[t].challenged
IsTaskSlashed(t) == rounds[t].exists /\ rounds[t].slashed

\* Faulty variant: an open challenge does not block activation.
IsTaskActivatableDisputed(t) ==
    /\ rounds[t].exists
    /\ Accepted(t)
    /\ ~rounds[t].slashed
    /\ blockNumber >= rounds[t].challengeDeadline
    /\ CurrentEpoch = tasks[t].epoch + 1

IsTaskActivatable(t) ==
    /\ rounds[t].exists
    /\ Accepted(t)
    /\ ~rounds[t].challenged
    /\ ~rounds[t].slashed
    /\ blockNumber >= rounds[t].challengeDeadline
    /\ CurrentEpoch = tasks[t].epoch + 1
=============================================================================
