-------------------------- MODULE ReferenceMachine --------------------------
(***************************************************************************)
(* src/poi_mpp/protocol/reference_machine.py: transition(receipt, event,   *)
(* context) over immutable receipts.  A caller holds the current version   *)
(* of each receipt, offers it any event with the height and epoch of the   *)
(* moment and with the nullifiers it knows to be used; an event the        *)
(* machine refuses (InvalidTransition) leaves the receipt as it was.       *)
(*                                                                         *)
(* A binding stands for the task root, response hash and commitment a      *)
(* semantic receipt is about; a verification for a result of the semantic  *)
(* verifier and its digest.                                                *)
(***************************************************************************)
EXTENDS Integers

CONSTANTS
    Receipts,        \* receipt ids
    Nullifiers,
    Bindings,
    None,            \* the absent value (None)
    Window,          \* challenge_window_blocks
    MaxHeight,       \* bound: last height
    MaxEpoch         \* bound: last epoch

Decisions == {"ACCEPT", "REJECT", "ABSTAIN"}
Verifications == [binding : Bindings, decision : Decisions]

ASSUME MachineAssumption ==
    /\ None \notin Bindings /\ None \notin Verifications
    /\ Window \in Nat /\ MaxHeight \in Nat /\ MaxEpoch \in Nat

States == {"NONE", "PENDING", "ACTIVE", "ABSTAINED", "CHALLENGED", "DA_FAILED", "EXPIRED",
           "REJECTED", "SLASHED"}

\* Unset stands for an audit_decision or da_decision of None.
Unset == "UNSET"

\* A RecordAudit event: the decision, the verification whose digest it quotes
\* and the binding it claims, both None for a legacy receipt.
AuditEvents ==
    [decision : Decisions \cup {"NONE"}, digest : {None}, binding : {None}]
        \cup [decision : Decisions, digest : Verifications, binding : Bindings]

Receipt ==
    [state : States, epochIssued : Nat, deadline : Nat,
     nullifier : Nullifiers \cup {None},
     binding : Bindings \cup {None},                \* None: LEGACY_PROTOCOL
     audit : Decisions \cup {Unset}, accepted : BOOLEAN,
     digest : Verifications \cup {None},            \* audit_verification_result_digest
     da : {Unset, "AVAILABLE", "UNAVAILABLE"}, passed : BOOLEAN,
     activatedEpoch : Nat,                          \* 0: None
     challenged : BOOLEAN, slashed : BOOLEAN]       \* a reason is recorded

NoReceipt ==
    [state |-> "NONE", epochIssued |-> 0, deadline |-> 0, nullifier |-> None,
     binding |-> None, audit |-> Unset, accepted |-> FALSE, digest |-> None,
     da |-> Unset, passed |-> FALSE, activatedEpoch |-> 0, challenged |-> FALSE,
     slashed |-> FALSE]

VARIABLES
    receipts,   \* the caller's current version of each receipt
    height,
    epoch

vars == <<receipts, height, epoch>>

TypeOK ==
    /\ receipts \in [Receipts -> Receipt]
    /\ height \in 0..MaxHeight
    /\ epoch \in 0..MaxEpoch

Init ==
    /\ receipts = [r \in Receipts |-> NoReceipt]
    /\ height = 0
    /\ epoch = 0

-----------------------------------------------------------------------------
\* The chain the callers read heights and epochs from.
Tick ==
    /\ height < MaxHeight
    /\ height' = height + 1
    /\ \E e \in {epoch, epoch + 1} \cap (0..MaxEpoch) : epoch' = e
    /\ UNCHANGED receipts

\* model_copy(update=...): the machine does not validate what it returns.
Become(r, receipt) ==
    /\ receipts' = [receipts EXCEPT ![r] = receipt]
    /\ UNCHANGED <<height, epoch>>

\* _make_pending_receipt, for a task of epoch `since` whose commitment was made
\* at height `committed`; nothing prevents two receipts with one nullifier.
Issue(r, nullifier, binding, since, committed) ==
    /\ receipts[r].state = "NONE"
    /\ Become(r, [NoReceipt EXCEPT !.state = "PENDING", !.epochIssued = since,
                                   !.deadline = committed + Window,
                                   !.nullifier = nullifier, !.binding = binding])

Pending(r) == receipts[r].state = "PENDING"

\* Faulty variant: the verification is matched with the event only.
MatchesEvent(receipt, event, result) ==
    IF receipt.binding = None
    THEN event.binding = None /\ result = None
    ELSE /\ result # None
         /\ event.decision = result.decision
         /\ event.digest = result
         /\ event.binding = result.binding

\* A semantic receipt consumes the result of verifying its own response, and
\* the event must quote that result; a legacy receipt consumes none.
VerificationMatches(receipt, event, result) ==
    IF receipt.binding = None
    THEN event.binding = None /\ result = None
    ELSE /\ result # None
         /\ event.decision = result.decision
         /\ event.digest = result
         /\ event.binding = result.binding
         /\ event.binding = receipt.binding

\* The receipt after its audit: a decision of NONE counts as REJECT.
Audited(receipt, event) ==
    CASE event.decision = "ACCEPT" ->
             [receipt EXCEPT !.audit = "ACCEPT", !.accepted = TRUE, !.digest = event.digest]
      [] event.decision = "ABSTAIN" ->
             [receipt EXCEPT !.state = "ABSTAINED", !.audit = "ABSTAIN", !.accepted = FALSE,
                             !.passed = FALSE, !.digest = event.digest]
      [] OTHER ->
             [receipt EXCEPT !.state = "REJECTED", !.audit = "REJECT", !.accepted = FALSE,
                             !.passed = FALSE, !.digest = event.digest]

RecordAudit(r, event, result) ==
    /\ Pending(r)
    /\ receipts[r].audit = Unset
    /\ receipts[r].da = Unset
    /\ VerificationMatches(receipts[r], event, result)
    /\ Become(r, Audited(receipts[r], event))

RecordDataAvailability(r, available) ==
    /\ Pending(r)
    /\ receipts[r].da = Unset
    /\ IF available
       THEN Become(r, [receipts[r] EXCEPT !.da = "AVAILABLE", !.passed = TRUE])
       ELSE Become(r, [receipts[r] EXCEPT !.state = "DA_FAILED", !.da = "UNAVAILABLE",
                                          !.passed = FALSE])

\* Faulty variant: one of the two gates is enough.
OneGate(receipt) == receipt.audit = "ACCEPT" \/ receipt.da = "AVAILABLE"

Ready(receipt) == receipt.audit = "ACCEPT" /\ receipt.da = "AVAILABLE"

CanChallenge(r) == Pending(r) /\ Ready(receipts[r]) /\ height <= receipts[r].deadline

OpenChallenge(r) ==
    /\ CanChallenge(r)
    /\ Become(r, [receipts[r] EXCEPT !.state = "CHALLENGED", !.challenged = TRUE])

\* context.used_nullifiers is whatever the caller passes.
CanActivate(r, known) ==
    /\ Pending(r)
    /\ Ready(receipts[r])
    /\ height >= receipts[r].deadline
    /\ epoch = receipts[r].epochIssued + 1
    /\ receipts[r].nullifier \notin known

ActivateReceipt(r, known) ==
    /\ CanActivate(r, known)
    /\ Become(r, [receipts[r] EXCEPT !.state = "ACTIVE", !.activatedEpoch = epoch])

CanExpire(r) == Pending(r) /\ height >= receipts[r].deadline /\ ~Ready(receipts[r])

ExpireReceipt(r) ==
    /\ CanExpire(r)
    /\ Become(r, [receipts[r] EXCEPT !.state = "EXPIRED"])

CanSlash(r) == receipts[r].state = "CHALLENGED"

SlashReceipt(r) ==
    /\ CanSlash(r)
    /\ Become(r, [receipts[r] EXCEPT !.state = "SLASHED", !.activatedEpoch = 0,
                                     !.slashed = TRUE])

ReceiptStep(r) ==
    \/ \E n \in Nullifiers, b \in Bindings \cup {None}, since \in 0..epoch,
          committed \in 0..height : Issue(r, n, b, since, committed)
    \/ \E event \in AuditEvents, result \in Verifications \cup {None} :
          RecordAudit(r, event, result)
    \/ \E available \in BOOLEAN : RecordDataAvailability(r, available)
    \/ OpenChallenge(r)
    \/ \E known \in SUBSET Nullifiers : ActivateReceipt(r, known)
    \/ ExpireReceipt(r)
    \/ SlashReceipt(r)

Next == Tick \/ \E r \in Receipts : ReceiptStep(r)

Spec == Init /\ [][Next]_vars

-----------------------------------------------------------------------------
\* types.py:350-393: what Receipt.validate_state asks of a receipt.  transition
\* returns unvalidated copies, and allocate_credit refuses a receipt that fails.
ValidState(c) ==
    /\ c.binding = None => c.digest = None
    /\ c.binding # None /\ c.audit # Unset => c.digest # None
    /\ c.audit = "ACCEPT" => c.accepted
    /\ c.audit \in {"REJECT", "ABSTAIN"} => ~c.accepted
    /\ c.da = "AVAILABLE" => c.passed
    /\ c.da = "UNAVAILABLE" => ~c.passed
    /\ c.state = "ACTIVE" <=> c.activatedEpoch # 0
    /\ c.state = "ABSTAINED" => c.audit = "ABSTAIN"
    /\ c.state = "CHALLENGED" => c.challenged
    /\ c.state = "DA_FAILED" => c.da = "UNAVAILABLE"
    /\ c.state = "REJECTED" => c.audit = "REJECT"
    /\ c.state = "SLASHED" => c.slashed

EveryReceiptValid == \A r \in Receipts : ValidState(receipts[r])

\* An active receipt passed every gate: accepted, available, its window over,
\* never challenged, in the one epoch after its own; and allocate_credit
\* (credit.py:56-66) finds nothing in it to refuse.
Earned(c) ==
    /\ c.audit = "ACCEPT" /\ c.accepted /\ c.da = "AVAILABLE" /\ c.passed
    /\ c.activatedEpoch = c.epochIssued + 1 /\ c.activatedEpoch <= epoch
    /\ height >= c.deadline
    /\ ~c.challenged /\ ~c.slashed

ActiveEarned == \A r \in Receipts : receipts[r].state = "ACTIVE" => Earned(receipts[r])

\* What a semantic receipt's audit says is what verifying its own response
\* said, whatever events and results the caller mixed up.
OwnAudit(c) ==
    c.binding # None /\ c.audit # Unset
        => c.digest = [binding |-> c.binding, decision |-> c.audit]

AuditIsOwn == \A r \in Receipts : OwnAudit(receipts[r])

Terminal == {"ACTIVE", "ABSTAINED", "DA_FAILED", "EXPIRED", "REJECTED", "SLASHED"}

\* No event revives or reclassifies a finished receipt, and a recorded audit or
\* availability decision is never revised.
Kept(c, d) ==
    /\ c.state \in Terminal => d = c
    /\ c.audit # Unset => d.audit = c.audit /\ d.digest = c.digest
    /\ c.da # Unset => d.da = c.da

OutcomeFinal == [][\A r \in Receipts : Kept(receipts[r], receipts'[r])]_vars
=============================================================================
