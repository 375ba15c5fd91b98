--------------------------- MODULE Reference_proofs ---------------------------
(***************************************************************************)
(* Proofs about the Python reference code.  ReferenceMachine, for any      *)
(* receipts, verifications and bounds: the inductive invariant describes   *)
(* one receipt and the clock; a receipt whose story is not over carries no *)
(* trace of a later stage; and each event is a step of the life cycle the  *)
(* contracts implement.  GroundedVerification, for any samples,            *)
(* requests and policies: why two rules never hold together, why observed  *)
(* values are thresholds enough, and what a verdict says of every claim    *)
(* and every input it was made from.                                       *)
(***************************************************************************)
EXTENDS ReferenceMachine, GroundedVerification, SumTheorems, TLAPS

-----------------------------------------------------------------------------
(* ReferenceMachine *)

\* What transition relies on and validate_state does not ask: a receipt without
\* an audit has no digest, and one that is pending has no reason and no epoch.
Sound(c) ==
    /\ ValidState(c)
    /\ OwnAudit(c)
    /\ c.state = "ACTIVE" => Earned(c)
    /\ c.audit = Unset => c.digest = None
    /\ c.state \in {"NONE", "PENDING"} => ~c.challenged /\ ~c.slashed
    /\ c.state = "CHALLENGED" => ~c.slashed
    /\ c.state = "NONE" => c.audit = Unset /\ c.da = Unset

IInv == TypeOK /\ \A r \in Receipts : Sound(receipts[r])

LEMMA NoReceiptFacts == NoReceipt \in Receipt /\ Sound(NoReceipt)
  BY DEF NoReceipt, Receipt, States, Decisions, Unset, Sound, ValidState, OwnAudit

\* A version of one receipt that is sound keeps the invariant.
LEMMA BecomeInv ==
    ASSUME IInv, NEW r \in Receipts, NEW c, Become(r, c), c \in Receipt, Sound(c)
    PROVE  IInv'
  <1>1. receipts' = [receipts EXCEPT ![r] = c] /\ UNCHANGED <<height, epoch>>
    BY DEF Become
  <1>2. TypeOK'
    BY <1>1 DEF IInv, TypeOK
  <1>3. \A s \in Receipts : Sound(receipts'[s])
    BY <1>1 DEF IInv, TypeOK
  <1>4. \A s \in Receipts : Sound(receipts[s])'
    BY <1>1, <1>3 DEF Sound, Earned
  <1> QED
    BY <1>2, <1>4 DEF IInv

\* What every step on one receipt must give: a sound receipt that revises
\* nothing its predecessor had settled.
Good(r, c) == Become(r, c) /\ c \in Receipt /\ Sound(c) /\ Kept(receipts[r], c)

LEMMA IssueGood ==
    ASSUME IInv, NEW r \in Receipts, NEW n \in Nullifiers, NEW b \in Bindings \cup {None},
           NEW since \in 0..epoch, NEW committed \in 0..height,
           Issue(r, n, b, since, committed)
    PROVE  \E c : Good(r, c)
  <1> DEFINE c == [NoReceipt EXCEPT !.state = "PENDING", !.epochIssued = since,
                                    !.deadline = committed + Window,
                                    !.nullifier = n, !.binding = b]
  <1>1. since \in Nat /\ committed + Window \in Nat
    BY MachineAssumption DEF IInv, TypeOK
  <1>2. c \in Receipt
    <2>1. "PENDING" \in States
      BY DEF States
    <2> QED
      BY <1>1, <2>1, NoReceiptFacts DEF Receipt
  <1>3. Sound(c)
    <2>1. /\ c.state = "PENDING" /\ c.audit = NoReceipt.audit /\ c.digest = NoReceipt.digest
          /\ c.da = NoReceipt.da /\ c.activatedEpoch = NoReceipt.activatedEpoch
          /\ c.challenged = NoReceipt.challenged /\ c.slashed = NoReceipt.slashed
      BY NoReceiptFacts DEF Receipt
    <2>2. /\ NoReceipt.audit = Unset /\ NoReceipt.digest = None /\ NoReceipt.da = Unset
          /\ NoReceipt.activatedEpoch = 0 /\ ~NoReceipt.challenged /\ ~NoReceipt.slashed
      BY DEF NoReceipt
    <2> HIDE DEF c
    <2> QED
      BY <2>1, <2>2 DEF Sound, ValidState, OwnAudit, Unset
  <1>4. receipts[r].state = "NONE" /\ Sound(receipts[r])
    BY DEF Issue, IInv
  <1>5. Kept(receipts[r], c)
    BY <1>4 DEF Kept, Terminal, Sound
  <1>6. Become(r, c)
    BY DEF Issue
  <1> QED
    BY <1>2, <1>3, <1>5, <1>6 DEF Good

LEMMA RecordAuditGood ==
    ASSUME IInv, NEW r \in Receipts, NEW event \in AuditEvents,
           NEW result \in Verifications \cup {None}, RecordAudit(r, event, result)
    PROVE  \E c : Good(r, c)
  <1> DEFINE old == receipts[r]
             c == Audited(old, event)
  <1>1. old \in Receipt /\ Sound(old)
    BY DEF IInv, TypeOK
  <1>2. old.state = "PENDING" /\ old.audit = Unset /\ old.da = Unset
        /\ VerificationMatches(old, event, result)
    BY DEF RecordAudit, Pending
  <1>3. event.digest \in Verifications \cup {None} /\ event.decision \in Decisions \cup {"NONE"}
    BY DEF AuditEvents
  <1>4. c \in Receipt
    BY <1>1, <1>3 DEF Receipt, Audited, States, Decisions
  <1>5. /\ c.binding = old.binding /\ c.digest = event.digest
        /\ c.activatedEpoch = old.activatedEpoch /\ c.da = old.da
        /\ c.challenged = old.challenged /\ c.slashed = old.slashed
    BY <1>1 DEF Audited, Receipt
  <1>6. \/ event.decision = "ACCEPT" /\ c.audit = "ACCEPT" /\ c.accepted /\ c.state = "PENDING"
        \/ event.decision = "ABSTAIN" /\ c.audit = "ABSTAIN" /\ ~c.accepted /\ c.state = "ABSTAINED"
        \/ event.decision \in {"NONE", "REJECT"} /\ c.audit = "REJECT" /\ ~c.accepted
           /\ c.state = "REJECTED"
    BY <1>1, <1>2, <1>3 DEF Audited, Receipt, Decisions
  <1>7. old.binding = None => c.digest = None
    <2>1. event.binding = None => event.digest = None
      BY MachineAssumption DEF AuditEvents
    <2> QED
      BY <1>2, <1>5, <2>1 DEF VerificationMatches
  <1>8. old.binding # None => c.digest = [binding |-> c.binding, decision |-> c.audit] /\ c.digest # None
    <2> SUFFICES ASSUME old.binding # None
                 PROVE  c.digest = [binding |-> c.binding, decision |-> c.audit] /\ c.digest # None
      OBVIOUS
    <2>1. /\ result \in Verifications /\ event.decision = result.decision
          /\ event.digest = result /\ result.binding = old.binding
      BY <1>2 DEF VerificationMatches
    <2>2. result = [binding |-> result.binding, decision |-> result.decision]
          /\ result.decision \in Decisions
      BY <2>1 DEF Verifications
    <2>3. c.audit = result.decision
      BY <1>6, <2>1, <2>2 DEF Decisions
    <2> QED
      BY <1>5, <2>1, <2>2, <2>3, MachineAssumption
  <1>9. Sound(c)
    <2>1. ValidState(c)
      BY <1>1, <1>2, <1>5, <1>6, <1>7, <1>8 DEF ValidState, Sound, Unset
    <2>2. OwnAudit(c)
      BY <1>5, <1>8 DEF OwnAudit
    <2> QED
      BY <1>1, <1>2, <1>5, <1>6, <2>1, <2>2 DEF Sound, Unset
  <1>10. Kept(old, c)
    BY <1>2, <1>5 DEF Kept, Terminal
  <1> QED
    BY <1>4, <1>9, <1>10 DEF Good, RecordAudit

LEMMA DataAvailabilityGood ==
    ASSUME IInv, NEW r \in Receipts, NEW available \in BOOLEAN,
           RecordDataAvailability(r, available)
    PROVE  \E c : Good(r, c)
  <1> DEFINE old == receipts[r]
             yes == [old EXCEPT !.da = "AVAILABLE", !.passed = TRUE]
             no == [old EXCEPT !.state = "DA_FAILED", !.da = "UNAVAILABLE", !.passed = FALSE]
  <1>1. old \in Receipt /\ Sound(old) /\ old.state = "PENDING" /\ old.da = Unset
    BY DEF IInv, TypeOK, RecordDataAvailability, Pending
  <1>2. yes \in Receipt /\ no \in Receipt
    BY <1>1 DEF Receipt, States
  <1>3. Sound(yes) /\ Kept(old, yes)
    BY <1>1 DEF Receipt, Sound, ValidState, OwnAudit, Kept, Terminal, Unset
  <1>4. Sound(no) /\ Kept(old, no)
    BY <1>1 DEF Receipt, Sound, ValidState, OwnAudit, Kept, Terminal, Unset
  <1> QED
    BY <1>2, <1>3, <1>4 DEF Good, RecordDataAvailability

LEMMA StateStepGood ==
    ASSUME IInv, NEW r \in Receipts,
           \/ OpenChallenge(r)
           \/ \E known \in SUBSET Nullifiers : ActivateReceipt(r, known)
           \/ ExpireReceipt(r)
           \/ SlashReceipt(r)
    PROVE  \E c : Good(r, c)
  <1> DEFINE old == receipts[r]
  <1>0. old \in Receipt /\ Sound(old) /\ height \in Nat /\ epoch \in Nat
    BY MachineAssumption DEF IInv, TypeOK
  <1>1. CASE OpenChallenge(r)
    <2> DEFINE c == [old EXCEPT !.state = "CHALLENGED", !.challenged = TRUE]
    <2>1. old.state = "PENDING" /\ Become(r, c)
      BY <1>1 DEF OpenChallenge, CanChallenge, Pending
    <2>2. c \in Receipt
      BY <1>0 DEF Receipt, States
    <2>3. Sound(c) /\ Kept(old, c)
      BY <1>0, <2>1 DEF Receipt, Sound, ValidState, OwnAudit, Kept, Terminal
    <2> QED
      BY <2>1, <2>2, <2>3 DEF Good
  <1>2. CASE \E known \in SUBSET Nullifiers : ActivateReceipt(r, known)
    <2> DEFINE c == [old EXCEPT !.state = "ACTIVE", !.activatedEpoch = epoch]
    <2>1. /\ old.state = "PENDING" /\ Ready(old) /\ height >= old.deadline
          /\ epoch = old.epochIssued + 1 /\ Become(r, c)
      BY <1>2 DEF ActivateReceipt, CanActivate, Pending
    <2>2. c \in Receipt
      BY <1>0 DEF Receipt, States
    <2>3. epoch # 0
      BY <1>0, <2>1 DEF Receipt
    <2>4. Sound(c)
      BY <1>0, <2>1, <2>3 DEF Receipt, Sound, ValidState, OwnAudit, Earned, Ready, Unset
    <2>5. Kept(old, c)
      BY <1>0, <2>1 DEF Receipt, Kept, Terminal
    <2> QED
      BY <2>1, <2>2, <2>4, <2>5 DEF Good
  <1>3. CASE ExpireReceipt(r)
    <2> DEFINE c == [old EXCEPT !.state = "EXPIRED"]
    <2>1. old.state = "PENDING" /\ Become(r, c)
      BY <1>3 DEF ExpireReceipt, CanExpire, Pending
    <2>2. c \in Receipt
      BY <1>0 DEF Receipt, States
    <2>3. Sound(c) /\ Kept(old, c)
      BY <1>0, <2>1 DEF Receipt, Sound, ValidState, OwnAudit, Kept, Terminal
    <2> QED
      BY <2>1, <2>2, <2>3 DEF Good
  <1>4. CASE SlashReceipt(r)
    <2> DEFINE c == [old EXCEPT !.state = "SLASHED", !.activatedEpoch = 0, !.slashed = TRUE]
    <2>1. old.state = "CHALLENGED" /\ Become(r, c)
      BY <1>4 DEF SlashReceipt, CanSlash
    <2>2. c \in Receipt
      BY <1>0 DEF Receipt, States
    <2>3. Sound(c) /\ Kept(old, c)
      BY <1>0, <2>1 DEF Receipt, Sound, ValidState, OwnAudit, Kept, Terminal
    <2> QED
      BY <2>1, <2>2, <2>3 DEF Good
  <1> QED
    BY <1>1, <1>2, <1>3, <1>4

LEMMA ReceiptStepGood ==
    ASSUME IInv, NEW r \in Receipts, ReceiptStep(r)
    PROVE  \E c : Good(r, c)
  <1>1. CASE \E n \in Nullifiers, b \in Bindings \cup {None}, since \in 0..epoch,
                committed \in 0..height : Issue(r, n, b, since, committed)
    BY <1>1, IssueGood
  <1>2. CASE \E event \in AuditEvents, result \in Verifications \cup {None} :
                 RecordAudit(r, event, result)
    BY <1>2, RecordAuditGood
  <1>3. CASE \E available \in BOOLEAN : RecordDataAvailability(r, available)
    BY <1>3, DataAvailabilityGood
  <1>4. CASE OpenChallenge(r) \/ (\E known \in SUBSET Nullifiers : ActivateReceipt(r, known))
             \/ ExpireReceipt(r) \/ SlashReceipt(r)
    BY <1>4, StateStepGood
  <1> QED
    BY <1>1, <1>2, <1>3, <1>4 DEF ReceiptStep

\* Time passing makes no receipt unsound: heights and epochs only grow.
LEMMA TickInv ==
    ASSUME IInv, Tick
    PROVE  IInv' /\ UNCHANGED receipts
  <1>0. height \in Nat /\ epoch \in Nat
    BY MachineAssumption DEF IInv, TypeOK
  <1>1. /\ height' = height + 1 /\ height' \in 0..MaxHeight
        /\ epoch' \in {epoch, epoch + 1} /\ epoch' \in 0..MaxEpoch /\ receipts' = receipts
    BY <1>0, MachineAssumption DEF IInv, TypeOK, Tick
  <1>2. TypeOK'
    BY <1>1 DEF IInv, TypeOK
  <1>3. ASSUME NEW r \in Receipts PROVE Sound(receipts[r])'
    <2>1. receipts[r] \in Receipt /\ Sound(receipts[r])
      BY DEF IInv, TypeOK
    <2>2. Earned(receipts[r]) => Earned(receipts[r])'
      BY <1>0, <1>1, <2>1 DEF Earned, Receipt
    <2> QED
      BY <1>1, <2>1, <2>2 DEF Sound
  <1> QED
    BY <1>1, <1>2, <1>3 DEF IInv

LEMMA NextInv ==
    ASSUME IInv, [Next]_vars
    PROVE  IInv' /\ [\A r \in Receipts : Kept(receipts[r], receipts'[r])]_vars
  <1>1. CASE UNCHANGED vars
    BY <1>1 DEF IInv, TypeOK, Sound, Earned, vars
  <1>2. CASE Tick
    <2>1. \A r \in Receipts : Kept(receipts[r], receipts'[r])
      BY <1>2, TickInv DEF Kept
    <2> QED
      BY <1>2, <2>1, TickInv
  <1>3. ASSUME NEW r \in Receipts, ReceiptStep(r)
        PROVE  IInv' /\ [\A s \in Receipts : Kept(receipts[s], receipts'[s])]_vars
    <2>1. PICK c : Good(r, c)
      BY <1>3, ReceiptStepGood
    <2>2. IInv'
      BY <2>1, BecomeInv DEF Good
    <2>3. \A s \in Receipts : Kept(receipts[s], receipts'[s])
      BY <2>1 DEF Good, Become, Kept, IInv, TypeOK
    <2> QED
      BY <2>2, <2>3
  <1> QED
    BY <1>1, <1>2, <1>3 DEF Next

-----------------------------------------------------------------------------
THEOREM Invariance == Spec => []IInv
  <1>1. Init => IInv
    BY NoReceiptFacts, MachineAssumption DEF Init, IInv, TypeOK
  <1>2. IInv /\ [Next]_vars => IInv'
    BY NextInv
  <1> QED
    BY <1>1, <1>2, PTL DEF Spec

\* Every receipt transition returns passes Receipt.validate_state, although
\* model_copy does not run it (types.py:350-393).
THEOREM ReceiptsStayValid == Spec => []EveryReceiptValid
  <1>1. IInv => EveryReceiptValid
    BY DEF IInv, Sound, EveryReceiptValid
  <1> QED
    BY <1>1, Invariance, PTL

\* Only a receipt that passed every gate is active (reference_machine.py:150-168).
THEOREM ActivationEarned == Spec => []ActiveEarned
  <1>1. IInv => ActiveEarned
    BY DEF IInv, Sound, ActiveEarned
  <1> QED
    BY <1>1, Invariance, PTL

\* A semantic receipt records the verification of its own response and no
\* other (reference_machine.py:45-89).
THEOREM AuditsAreOwn == Spec => []AuditIsOwn
  <1>1. IInv => AuditIsOwn
    BY DEF IInv, Sound, AuditIsOwn
  <1> QED
    BY <1>1, Invariance, PTL

\* Outcomes and recorded decisions are final (transition).
THEOREM OutcomesAreFinal == Spec => OutcomeFinal
  <1>1. IInv /\ [Next]_vars => [\A r \in Receipts : Kept(receipts[r], receipts'[r])]_vars
    BY NextInv
  <1> QED
    BY <1>1, Invariance, PTL DEF Spec, OutcomeFinal

-----------------------------------------------------------------------------
(* The life cycle the receipt contract implements.                         *)

\* A receipt the machine ends without activation or dispute is one the contract
\* leaves pending.
Stage(c) ==
    IF c.state \in {"ABSTAINED", "DA_FAILED", "EXPIRED", "REJECTED"} THEN "PENDING" ELSE c.state

Issued(r) == receipts[r].state # "NONE"

\* transition sees one receipt at a time: each has a task of its own, and a registry
\* of nullifiers of its own, in which it spends one.
Lifecycle == INSTANCE ReceiptLifecycle WITH
    Receipts <- Receipts, Tasks <- Receipts, Nullifiers <- {{r} : r \in Receipts},
    NoTaskId <- None, NoNullifier <- {},
    stage <- [r \in Receipts |-> Stage(receipts[r])],
    taskOf <- [r \in Receipts |-> IF Issued(r) THEN r ELSE None],
    nullifier <- [r \in Receipts |-> IF Issued(r) THEN {r} ELSE {}],
    disputed <- {r \in Receipts : receipts[r].challenged}

\* OpenChallenge does in one event what the contracts do in two transactions: it
\* disputes the receipt's task and marks the receipt challenged.
DisputedAtOnce(r) ==
    /\ Stage(receipts[r]) = "PENDING" /\ ~receipts[r].challenged
    /\ Stage(receipts'[r]) = "CHALLENGED" /\ receipts'[r].challenged
    /\ \A s \in Receipts \ {r} : receipts'[s] = receipts[s]

\* Each accepted event is one step of the contract's life cycle, or a dispute and the
\* challenge that follows it, or changes nothing the life cycle sees.
FollowsLifecycle ==
    Lifecycle!Init /\ [][Lifecycle!Next \/ \E r \in Receipts : DisputedAtOnce(r)]_(Lifecycle!vars)

\* A step on one receipt changes what the life cycle sees of it alone.
LEMMA OthersAreLeft ==
    ASSUME IInv, NEW r \in Receipts, NEW c, Become(r, c)
    PROVE  /\ receipts'[r] = c /\ \A s \in Receipts \ {r} : receipts'[s] = receipts[s]
           /\ receipts' \in [Receipts -> {receipts[s] : s \in Receipts} \cup {c}]
  BY DEF Become, IInv, TypeOK

\* An event that keeps the stage and disputes nothing is none of the life cycle's steps.
LEMMA SameStage ==
    ASSUME IInv, NEW r \in Receipts, NEW c, Become(r, c), c.state # "NONE", Issued(r),
           Stage(c) = Stage(receipts[r]), c.challenged = receipts[r].challenged
    PROVE  UNCHANGED Lifecycle!vars
  <1>1. \A s \in Receipts : /\ Stage(receipts'[s]) = Stage(receipts[s])
                            /\ receipts'[s].challenged = receipts[s].challenged
                            /\ Issued(s)' <=> Issued(s)
    BY OthersAreLeft DEF Issued
  <1> QED
    BY <1>1 DEF Lifecycle!vars

\* An event that moves the receipt and disputes nothing is a move of the life cycle.
LEMMA OneMove ==
    ASSUME IInv, NEW r \in Receipts, NEW c, Become(r, c), NEW from, NEW to, Issued(r),
           receipts[r].state = from, c.state = to, from \in {"PENDING", "CHALLENGED"},
           to \in {"ACTIVE", "SLASHED"}, c.challenged = receipts[r].challenged
    PROVE  Lifecycle!Move(r, from, to)
  <1>1. \A s \in Receipts : /\ Stage(receipts'[s]) = IF s = r THEN to ELSE Stage(receipts[s])
                            /\ receipts'[s].challenged = receipts[s].challenged
                            /\ Issued(s)' <=> Issued(s)
    BY OthersAreLeft DEF Issued, Stage
  <1>2. Stage(receipts[r]) = from
    BY DEF Stage
  <1> QED
    BY <1>1, <1>2 DEF Lifecycle!Move

LEMMA LifecycleStep ==
    ASSUME IInv, NEW r \in Receipts, ReceiptStep(r)
    PROVE  \/ UNCHANGED Lifecycle!vars
           \/ Lifecycle!Next
           \/ DisputedAtOnce(r)
  <1> DEFINE old == receipts[r]
  <1>0. old \in Receipt /\ Sound(old) /\ (Issued(r) <=> old.state # "NONE")
    BY DEF IInv, TypeOK, Issued
  <1>1. CASE \E n \in Nullifiers, b \in Bindings \cup {None}, since \in 0..epoch,
                committed \in 0..height : Issue(r, n, b, since, committed)
    <2>0. PICK n \in Nullifiers, b \in Bindings \cup {None}, since \in 0..epoch,
               committed \in 0..height : Issue(r, n, b, since, committed)
      BY <1>1
    <2> DEFINE c == [NoReceipt EXCEPT !.state = "PENDING", !.epochIssued = since,
                                      !.deadline = committed + Window,
                                      !.nullifier = n, !.binding = b]
    <2>1. Become(r, c) /\ c.state = "PENDING" /\ ~c.challenged /\ c.challenged \in BOOLEAN
          /\ old.state = "NONE" /\ ~old.challenged
      BY <1>0, <2>0 DEF Issue, NoReceipt, Sound
    <2> HIDE DEF c
    <2>2. \A s \in Receipts : /\ Stage(receipts'[s]) = IF s = r THEN "PENDING" ELSE Stage(receipts[s])
                              /\ receipts'[s].challenged = receipts[s].challenged
                              /\ Issued(s)' <=> Issued(s) \/ s = r
      <3>1. receipts'[r] = c /\ \A s \in Receipts \ {r} : receipts'[s] = receipts[s]
        BY <2>1, OthersAreLeft
      <3>2. Stage(c) = "PENDING" /\ Issued(r)' /\ c.challenged = receipts[r].challenged
        BY <1>0, <2>1, <3>1, NoReceiptFacts DEF Issued, Stage, Receipt
      <3> QED
        BY <3>1, <3>2 DEF Issued
    <2>3. Stage(old) = "NONE" /\ ~Issued(r)
      BY <1>0, <2>1 DEF Stage
    <2>4. \A s \in Receipts : (IF Issued(s) THEN {s} ELSE {}) # {r}
      BY <2>3
    <2>5. Lifecycle!Mint(r, r, {r})
      BY <2>2, <2>3, <2>4 DEF Lifecycle!Mint
    <2> QED
      BY <2>5 DEF Lifecycle!Next
  <1>2. CASE \E event \in AuditEvents, result \in Verifications \cup {None} :
                 RecordAudit(r, event, result)
    <2>1. PICK event \in AuditEvents, result \in Verifications \cup {None} :
             RecordAudit(r, event, result)
      BY <1>2
    <2> DEFINE c == Audited(old, event)
    <2>2. Become(r, c) /\ old.state = "PENDING"
      BY <2>1 DEF RecordAudit, Pending
    <2>3. c.state \in {"PENDING", "ABSTAINED", "REJECTED"} /\ c.challenged = old.challenged
      BY <1>0, <2>2 DEF Audited, Receipt
    <2> HIDE DEF c
    <2> QED
      BY <1>0, <2>2, <2>3, SameStage DEF Stage
  <1>3. CASE \E available \in BOOLEAN : RecordDataAvailability(r, available)
    <2> DEFINE yes == [old EXCEPT !.da = "AVAILABLE", !.passed = TRUE]
               no == [old EXCEPT !.state = "DA_FAILED", !.da = "UNAVAILABLE", !.passed = FALSE]
    <2>1. old.state = "PENDING" /\ (Become(r, yes) \/ Become(r, no))
      BY <1>3 DEF RecordDataAvailability, Pending
    <2>2. /\ yes.state = "PENDING" /\ yes.challenged = old.challenged
          /\ no.state = "DA_FAILED" /\ no.challenged = old.challenged
      BY <1>0, <2>1 DEF Receipt
    <2> HIDE DEF yes, no
    <2> QED
      BY <1>0, <2>1, <2>2, SameStage DEF Stage
  <1>4. CASE OpenChallenge(r)
    <2> DEFINE c == [old EXCEPT !.state = "CHALLENGED", !.challenged = TRUE]
    <2>1. Become(r, c) /\ c.state = "CHALLENGED" /\ c.challenged
      BY <1>0, <1>4 DEF OpenChallenge, Receipt
    <2> HIDE DEF c
    <2>2. old.state = "PENDING" /\ ~old.challenged
      BY <1>0, <1>4 DEF OpenChallenge, CanChallenge, Pending, Sound
    <2> QED
      BY <2>1, <2>2, OthersAreLeft DEF DisputedAtOnce, Stage
  <1>5. CASE \E known \in SUBSET Nullifiers : ActivateReceipt(r, known)
    <2> DEFINE c == [old EXCEPT !.state = "ACTIVE", !.activatedEpoch = epoch]
    <2>1. Become(r, c) /\ c.state = "ACTIVE" /\ c.challenged = old.challenged
      BY <1>0, <1>5 DEF ActivateReceipt, Receipt
    <2> HIDE DEF c
    <2>2. old.state = "PENDING" /\ ~old.challenged
      BY <1>0, <1>5 DEF ActivateReceipt, CanActivate, Pending, Sound
    <2>3. Lifecycle!Activate(r)
      BY <1>0, <2>1, <2>2, OneMove DEF Lifecycle!Activate
    <2> QED
      BY <2>3 DEF Lifecycle!Next
  <1>6. CASE ExpireReceipt(r)
    <2> DEFINE c == [old EXCEPT !.state = "EXPIRED"]
    <2>1. Become(r, c) /\ c.state = "EXPIRED" /\ c.challenged = old.challenged
      BY <1>0, <1>6 DEF ExpireReceipt, Receipt
    <2> HIDE DEF c
    <2>2. old.state = "PENDING"
      BY <1>6 DEF ExpireReceipt, CanExpire, Pending
    <2> QED
      BY <1>0, <2>1, <2>2, SameStage DEF Stage
  <1>7. CASE SlashReceipt(r)
    <2> DEFINE c == [old EXCEPT !.state = "SLASHED", !.activatedEpoch = 0, !.slashed = TRUE]
    <2>1. Become(r, c) /\ c.state = "SLASHED" /\ c.challenged = old.challenged
      BY <1>0, <1>7 DEF SlashReceipt, Receipt
    <2> HIDE DEF c
    <2>2. old.state = "CHALLENGED" /\ old.challenged
      BY <1>0, <1>7 DEF SlashReceipt, CanSlash, Sound, ValidState
    <2>3. Lifecycle!Slash(r)
      BY <1>0, <2>1, <2>2, OneMove DEF Lifecycle!Slash
    <2> QED
      BY <2>3 DEF Lifecycle!Next
  <1> QED
    BY <1>1, <1>2, <1>3, <1>4, <1>5, <1>6, <1>7 DEF ReceiptStep

\* transition follows the contract's life cycle, except that it disputes and challenges
\* in one event: whatever events a caller offers, a receipt is issued once, activation
\* and dispute exclude each other, and only a disputed receipt is slashed.
THEOREM TransitionsFollowLifecycle == Spec => FollowsLifecycle
  <1>1. Init => Lifecycle!Init
    BY DEF Init, NoReceipt, Lifecycle!Init, Issued, Stage
  <1>2. IInv /\ [Next]_vars
           => [Lifecycle!Next \/ \E r \in Receipts : DisputedAtOnce(r)]_(Lifecycle!vars)
    <2> SUFFICES ASSUME IInv, [Next]_vars
                 PROVE  [Lifecycle!Next \/ \E r \in Receipts : DisputedAtOnce(r)]_(Lifecycle!vars)
      OBVIOUS
    <2>1. CASE UNCHANGED vars \/ Tick
      <3>1. receipts' = receipts
        BY <2>1 DEF vars, Tick
      <3> QED
        BY <3>1 DEF Lifecycle!vars, Issued, Stage
    <2>2. CASE \E r \in Receipts : ReceiptStep(r)
      BY <2>2, LifecycleStep
    <2> QED
      BY <2>1, <2>2 DEF Next
  <1> QED
    BY <1>1, <1>2, Invariance, PTL DEF Spec, FollowsLifecycle

-----------------------------------------------------------------------------
(* Claims *)

\* What two crossing conditions compare is one number.
LEMMA NoAmbiguity ==
    ASSUME NEW claim, ValidClaim(claim),
           claim.supported \cup claim.refuted \subseteq ClaimConditions,
           NEW metrics \in [MetricIds -> Observations],
           Satisfies(claim.supported, metrics), Satisfies(claim.refuted, metrics)
    PROVE  FALSE
  <1>1. PICK low \in claim.supported \cup claim.refuted, high \in claim.supported \cup claim.refuted :
           /\ low.metric = high.metric /\ low.source = high.source
           /\ low.operator \in Above /\ high.operator \in Below
           /\ ~(low.threshold < high.threshold)
           /\ ~(low.threshold = high.threshold /\ low.operator = "GE" /\ high.operator = "LE")
    BY DEF ValidClaim, Feasible
  <1>2. Meets(low, metrics) /\ Meets(high, metrics)
    BY DEF Satisfies
  <1>3. /\ low.metric \in MetricIds /\ low.source \in ValueSources
        /\ low.threshold \in Int /\ high.threshold \in Int
    BY ClaimAssumption DEF ClaimConditions
  <1> DEFINE o == metrics[low.metric]
             value == IF low.source = "POINT_ESTIMATE" THEN o.estimate
                      ELSE o.interval[IF low.source = "LOWER_CONFIDENCE_BOUND" THEN 1 ELSE 2]
  <1>4. /\ Compares(low.operator, value, low.threshold)
        /\ Compares(high.operator, value, high.threshold)
    BY <1>1, <1>2 DEF Meets
  <1>5. o \in Observations /\ o # Unobserved
    BY <1>2, <1>3 DEF Meets
  <1>6. low.source # "POINT_ESTIMATE" => o.interval # NoInterval
    BY <1>2 DEF Meets
  <1>7. value \in Int
    <2>1. o \in [estimate : MetricValues, denominator : Denominators,
                 interval : {NoInterval} \cup {i \in MetricValues \X MetricValues : i[1] <= i[2]}]
      BY <1>5 DEF Observations
    <2> HIDE DEF o
    <2>2. o.estimate \in Int
      BY <2>1, ClaimAssumption
    <2>3. low.source # "POINT_ESTIMATE" => o.interval \in MetricValues \X MetricValues
      BY <2>1, <1>6
    <2>4. low.source # "POINT_ESTIMATE" => o.interval[1] \in Int /\ o.interval[2] \in Int
      BY <2>3, ClaimAssumption
    <2> QED
      BY <2>2, <2>4
  <1> HIDE DEF value
  <1>8. (low.operator = "GE" /\ value >= low.threshold) \/ (low.operator = "GT" /\ value > low.threshold)
    BY <1>1, <1>4 DEF Compares, Above
  <1>9. (high.operator = "LE" /\ value <= high.threshold) \/ (high.operator = "LT" /\ value < high.threshold)
    BY <1>1, <1>4 DEF Compares, Below
  <1> QED
    BY <1>1, <1>3, <1>7, <1>8, <1>9

-----------------------------------------------------------------------------
(* Thresholds *)

Scores == [1..7 -> Int]

LEMMA OutscoresTransitive ==
    ASSUME NEW a \in Scores, NEW b \in Scores, NEW c \in Scores, Outscores(a, b), Outscores(b, c)
    PROVE  Outscores(a, c)
  <1>1. PICK i \in 1..7 : a[i] > b[i] /\ \A k \in 1..(i - 1) : a[k] = b[k]
    BY DEF Outscores, Scores
  <1>2. PICK j \in 1..7 : b[j] > c[j] /\ \A k \in 1..(j - 1) : b[k] = c[k]
    BY DEF Outscores, Scores
  <1>3. \A k \in 1..7 : a[k] \in Int /\ b[k] \in Int /\ c[k] \in Int
    BY DEF Scores
  <1> DEFINE m == IF i <= j THEN i ELSE j
  <1>4. m \in 1..7 /\ \A k \in 1..(m - 1) : k \in 1..(i - 1) /\ k \in 1..(j - 1)
    OBVIOUS
  <1>5. \A k \in 1..(m - 1) : a[k] = c[k]
    BY <1>1, <1>2, <1>4
  <1>6. a[m] > c[m]
    <2>1. CASE i < j
      BY <2>1, <1>1, <1>2, <1>3
    <2>2. CASE i = j
      BY <2>2, <1>1, <1>2, <1>3
    <2>3. CASE i > j
      BY <2>3, <1>1, <1>2, <1>3
    <2> QED
      BY <2>1, <2>2, <2>3
  <1>7. DOMAIN a = 1..7
    BY DEF Scores
  <1> HIDE DEF m
  <1> QED
    BY <1>4, <1>5, <1>6, <1>7 DEF Outscores

LEMMA OutscoresTotal ==
    ASSUME NEW a \in Scores, NEW b \in Scores, a # b
    PROVE  Outscores(a, b) \/ Outscores(b, a)
  <1> DEFINE C == {i \in 1..7 : a[i] # b[i]}
  <1>1. C # {} /\ C \in SUBSET Nat
    BY DEF Scores
  <1>2. PICK m \in C : \A k \in C : m <= k
    BY <1>1, LeastNatural
  <1>3. m \in 1..7 /\ a[m] # b[m] /\ a[m] \in Int /\ b[m] \in Int
    BY DEF Scores
  <1>4. \A k \in 1..(m - 1) : a[k] = b[k] /\ b[k] = a[k]
    <2> TAKE k \in 1..(m - 1)
    <2>1. k \in 1..7 /\ ~(m <= k)
      BY <1>3
    <2> QED
      BY <1>2, <2>1
  <1>5. DOMAIN a = 1..7 /\ DOMAIN b = 1..7
    BY DEF Scores
  <1> QED
    BY <1>3, <1>4, <1>5 DEF Outscores

\* Of finitely many different scores one outscores the others.
LEMMA OneOutscores ==
    ASSUME NEW S, IsFiniteSet(S), S # {}, NEW score \in [S -> Scores],
           \A x, y \in S : score[x] = score[y] => x = y
    PROVE  \E t \in S : \A u \in S \ {t} : Outscores(score[t], score[u])
  <1> DEFINE Leads(T, t) == \A u \in T \ {t} : Outscores(score[t], score[u])
             Led == {T \in SUBSET S : T = {} \/ \E t \in T : Leads(T, t)}
  <1>1. {} \in Led
    OBVIOUS
  <1>2. ASSUME NEW T \in Led, NEW x \in S \ T
        PROVE  T \cup {x} \in Led
    <2>1. CASE T = {}
      BY <2>1
    <2>2. CASE T # {}
      <3>1. PICK t \in T : Leads(T, t)
        BY <2>2
      <3>2. t \in S /\ score[t] \in Scores /\ score[x] \in Scores /\ score[t] # score[x]
        OBVIOUS
      <3>3. CASE Outscores(score[t], score[x])
        <4>1. Leads(T \cup {x}, t)
          BY <3>1, <3>3
        <4> QED
          BY <4>1
      <3>4. CASE Outscores(score[x], score[t])
        <4>1. ASSUME NEW u \in (T \cup {x}) \ {x} PROVE Outscores(score[x], score[u])
          <5>1. CASE u = t
            BY <5>1, <3>4
          <5>2. CASE u # t
            <6>1. Outscores(score[t], score[u]) /\ score[u] \in Scores
              BY <3>1, <5>2
            <6> QED
              BY <6>1, <3>2, <3>4, OutscoresTransitive
          <5> QED
            BY <5>1, <5>2
        <4>2. Leads(T \cup {x}, x)
          BY <4>1
        <4> QED
          BY <4>2
      <3> QED
        BY <3>2, <3>3, <3>4, OutscoresTotal
    <2> QED
      BY <2>1, <2>2
  <1> HIDE DEF Led
  <1>3. S \in Led
    BY <1>1, <1>2, GrowingSet DEF Led
  <1> QED
    BY <1>3 DEF Led

ValidRows == Seq([expected : {"ACCEPT", "REJECT", "ABSTAIN"}, fraction : Fractions, confidence : Fractions])

LEMMA RowFacts ==
    ASSUME NEW rows \in ValidRows
    PROVE  /\ IsFiniteSet(DOMAIN rows)
           /\ \A i \in DOMAIN rows : rows[i].fraction \in Fractions /\ rows[i].confidence \in Fractions
  <1>1. DOMAIN rows = 1..Len(rows) /\ Len(rows) \in Nat
    BY DEF ValidRows
  <1> DEFINE R == [expected : {"ACCEPT", "REJECT", "ABSTAIN"}, fraction : Fractions, confidence : Fractions]
  <1>2. \A i \in DOMAIN rows : rows[i] \in R
    <2> HIDE DEF R
    <2>1. rows \in Seq(R)
      BY DEF ValidRows, R
    <2> QED
      BY <1>1, <2>1
  <1>3. IsFiniteSet(1..Len(rows))
    BY <1>1, FS_Interval
  <1>4. \A i \in DOMAIN rows : rows[i].fraction \in Fractions /\ rows[i].confidence \in Fractions
    BY <1>2
  <1> QED
    BY <1>1, <1>3, <1>4

LEMMA ScoreTyped ==
    ASSUME NEW rows \in ValidRows, NEW t \in Thresholds
    PROVE  CalibrationScore(rows, t) \in Scores
  <1>1. \A s \in SUBSET DOMAIN rows : Cardinality(s) \in Nat
    BY RowFacts, FS_Subset, FS_CardinalityType
  <1>2. /\ Correct(rows, t) \in Nat /\ FalseAccepts(rows, t) \in Nat
        /\ FalseRejects(rows, t) \in Nat /\ Covered(rows, t) \in Nat
    BY <1>1 DEF Correct, FalseAccepts, FalseRejects, Covered
  <1>3. t.support \in Int /\ t.reject \in Int /\ t.confidence \in Int
    BY CalibrationAssumption DEF Thresholds, Fractions
  <1> HIDE DEF Scores
  <1> QED
    BY <1>2, <1>3 DEF CalibrationScore, Scores

LEMMA CandidatesFinite ==
    ASSUME NEW rows \in ValidRows
    PROVE  IsFiniteSet(Candidates(rows)) /\ Candidates(rows) # {}
  <1> DEFINE F == Fractions
             R == [support : F, reject : F, confidence : F]
             f == [p \in (F \X F) \X F |-> [support |-> p[1][1], reject |-> p[1][2], confidence |-> p[2]]]
  <1>1. IsFiniteSet(F)
    BY FS_Interval, CalibrationAssumption DEF Fractions
  <1>2. IsFiniteSet((F \X F) \X F)
    BY <1>1, FS_Product
  <1>3. f \in Surjection((F \X F) \X F, R)
    <2>1. f \in [(F \X F) \X F -> R]
      OBVIOUS
    <2>2. ASSUME NEW r \in R PROVE \E p \in (F \X F) \X F : f[p] = r
      <3>1. <<<<r.support, r.reject>>, r.confidence>> \in (F \X F) \X F
        OBVIOUS
      <3>2. f[<<<<r.support, r.reject>>, r.confidence>>] = r
        BY <3>1
      <3> QED
        BY <3>1, <3>2
    <2> QED
      BY <2>1, <2>2 DEF Surjection
  <1>4. IsFiniteSet(R)
    BY <1>2, <1>3, FS_Surjection
  <1>5. Candidates(rows) \subseteq R
    BY DEF Candidates, Thresholds
  <1>6. [support |-> Unit, reject |-> 0, confidence |-> 0] \in Candidates(rows)
    BY CalibrationAssumption DEF Candidates, Thresholds, Fractions
  <1> QED
    BY <1>4, <1>5, <1>6, FS_Subset

\* The selection is a candidate that predicts as many rows as any other.
LEMMA SelectionBest ==
    ASSUME NEW rows \in ValidRows
    PROVE  /\ SelectThresholds(rows) \in Candidates(rows)
           /\ \A u \in Candidates(rows) : Correct(rows, u) <= Correct(rows, SelectThresholds(rows))
  <1> DEFINE S == Candidates(rows)
             score == [t \in S |-> CalibrationScore(rows, t)]
             best == SelectThresholds(rows)
  <1>1. S \subseteq Thresholds
    BY DEF Candidates
  <1>2. score \in [S -> Scores]
    BY <1>1, ScoreTyped
  <1>3. ASSUME NEW x \in S, NEW y \in S, score[x] = score[y] PROVE x = y
    <2>1. CalibrationScore(rows, x) = CalibrationScore(rows, y)
      BY <1>3
    <2>2. x.support = y.support /\ -x.reject = -y.reject /\ x.confidence = y.confidence
      BY <2>1 DEF CalibrationScore
    <2>3. /\ x = [support |-> x.support, reject |-> x.reject, confidence |-> x.confidence]
          /\ y = [support |-> y.support, reject |-> y.reject, confidence |-> y.confidence]
          /\ x.reject \in Int /\ y.reject \in Int
      BY <1>1, CalibrationAssumption DEF Thresholds, Fractions
    <2> QED
      BY <2>2, <2>3
  <1>4. \E t \in S : \A u \in S \ {t} : Outscores(score[t], score[u])
    <2> HIDE DEF S, score
    <2> QED
      BY <1>2, <1>3, CandidatesFinite, OneOutscores DEF S
  <1>5. \E t \in Candidates(rows) : \A u \in Candidates(rows) \ {t} :
            Outscores(CalibrationScore(rows, t), CalibrationScore(rows, u))
    BY <1>4
  <1>6. /\ best \in Candidates(rows)
        /\ \A u \in Candidates(rows) \ {best} :
              Outscores(CalibrationScore(rows, best), CalibrationScore(rows, u))
    BY <1>5 DEF SelectThresholds
  <1> HIDE DEF best
  <1>7. ASSUME NEW u \in Candidates(rows) PROVE Correct(rows, u) <= Correct(rows, best)
    <2>1. Correct(rows, u) \in Int /\ Correct(rows, best) \in Int
      <3>1. CalibrationScore(rows, u) \in Scores /\ CalibrationScore(rows, best) \in Scores
        BY <1>1, <1>6, ScoreTyped
      <3>2. CalibrationScore(rows, u)[1] \in Int /\ CalibrationScore(rows, best)[1] \in Int
        BY <3>1 DEF Scores
      <3> QED
        BY <3>2 DEF CalibrationScore
    <2>2. CASE u = best
      BY <2>1, <2>2
    <2>3. CASE u # best
      <3> DEFINE a == CalibrationScore(rows, best)
                 b == CalibrationScore(rows, u)
      <3>1. a[1] = Correct(rows, best) /\ b[1] = Correct(rows, u) /\ DOMAIN a = 1..7
        BY DEF CalibrationScore
      <3>2. PICK i \in DOMAIN a : a[i] > b[i] /\ \A j \in 1..(i - 1) : a[j] = b[j]
        BY <1>6, <2>3 DEF Outscores
      <3> HIDE DEF a, b
      <3>3. CASE i = 1
        BY <3>1, <3>2, <3>3, <2>1
      <3>4. CASE i # 1
        <4>1. 1 \in 1..(i - 1)
          BY <3>1, <3>4
        <4> QED
          BY <4>1, <3>1, <3>2, <2>1
      <3> QED
        BY <3>3, <3>4
    <2> QED
      BY <2>2, <2>3
  <1> QED
    BY <1>6, <1>7 DEF best

\* Any thresholds can be moved to candidates that predict every row alike.
LEMMA Rounded ==
    ASSUME NEW rows \in ValidRows, NEW t \in Thresholds
    PROVE  \E c \in Candidates(rows) :
              \A i \in DOMAIN rows : Prediction(rows[i], c) = Prediction(rows[i], t)
  <1> DEFINE F == {0, Unit} \cup {rows[i].fraction : i \in DOMAIN rows}
             C == {0, Unit} \cup {rows[i].confidence : i \in DOMAIN rows}
  <1>1. Unit \in Nat /\ F \in SUBSET Fractions /\ C \in SUBSET Fractions /\ Fractions \subseteq Nat
    BY RowFacts, CalibrationAssumption DEF Fractions
  <1>2. t = [support |-> t.support, reject |-> t.reject, confidence |-> t.confidence]
        /\ t.support \in Fractions /\ t.reject \in Fractions /\ t.confidence \in Fractions
        /\ t.reject <= t.support
    BY DEF Thresholds
  <1>3. 0 \in F /\ Unit \in F /\ Unit \in C
    OBVIOUS
  <1>4. \A i \in DOMAIN rows : rows[i].fraction \in F /\ rows[i].confidence \in C
    OBVIOUS
  <1>5. F \cup C \subseteq Nat
    BY <1>1
  <1>6. t.support \in Nat /\ t.reject \in Nat /\ t.confidence \in Nat
        /\ t.support <= Unit /\ t.confidence <= Unit /\ 0 <= t.reject
    BY <1>1, <1>2 DEF Fractions
  <1>7. IsFiniteSet(Fractions)
    BY <1>1, FS_Interval DEF Fractions
  <1> HIDE DEF F, C
  <1>8. PICK support \in {v \in F : v >= t.support} : \A v \in {w \in F : w >= t.support} : support <= v
    <2>1. {v \in F : v >= t.support} \in SUBSET Nat /\ {v \in F : v >= t.support} # {}
      BY <1>3, <1>5, <1>6
    <2> QED
      BY <2>1, LeastNatural
  <1>9. PICK confidence \in {v \in C : v >= t.confidence} :
            \A v \in {w \in C : w >= t.confidence} : confidence <= v
    <2>1. {v \in C : v >= t.confidence} \in SUBSET Nat /\ {v \in C : v >= t.confidence} # {}
      BY <1>3, <1>5, <1>6
    <2> QED
      BY <2>1, LeastNatural
  <1>10. PICK reject \in {v \in F : v <= t.reject} : \A v \in {w \in F : w <= t.reject} : v <= reject
    <2> DEFINE D == {v \in F : v <= t.reject}
    <2>1. D \in SUBSET Nat /\ D # {} /\ D \in SUBSET Fractions
      BY <1>1, <1>3, <1>5, <1>6
    <2> HIDE DEF D
    <2>2. IsFiniteSet(D)
      BY <2>1, <1>7, FS_Subset
    <2>3. \E m \in D : \A x \in D : x <= m
      BY <2>1, <2>2, GreatestMember
    <2> QED
      BY <2>3 DEF D
  <1> DEFINE c == [support |-> support, reject |-> reject, confidence |-> confidence]
  <1>11. reject \in Nat /\ support \in Nat /\ confidence \in Nat /\ reject <= support
    BY <1>2, <1>5, <1>6, <1>8, <1>9, <1>10
  <1>12. c \in Candidates(rows)
    <2>1. c \in Thresholds
      BY <1>1, <1>8, <1>9, <1>10, <1>11 DEF Thresholds
    <2>2. c.support \in F /\ c.reject \in F /\ c.confidence \in C
      BY <1>8, <1>9, <1>10
    <2> QED
      BY <2>1, <2>2 DEF Candidates, F, C
  <1>13. ASSUME NEW i \in DOMAIN rows
         PROVE  Prediction(rows[i], c) = Prediction(rows[i], t)
    <2> DEFINE f == rows[i].fraction
               k == rows[i].confidence
    <2>1. f \in F /\ k \in C /\ f \in Nat /\ k \in Nat
      BY <1>4, <1>5
    <2> HIDE DEF f, k
    <2>2. f <= reject <=> f <= t.reject
      BY <2>1, <1>6, <1>10, <1>11
    <2>3. f >= support <=> f >= t.support
      BY <2>1, <1>6, <1>8, <1>11
    <2>4. k >= confidence <=> k >= t.confidence
      BY <2>1, <1>6, <1>9, <1>11
    <2> QED
      BY <2>2, <2>3, <2>4 DEF Prediction, f, k
  <1> QED
    BY <1>12, <1>13

\* No thresholds at all predict more of the rows than the selected ones.
LEMMA SelectionUnbeaten ==
    ASSUME NEW rows \in ValidRows, NEW t \in Thresholds
    PROVE  Correct(rows, t) <= Correct(rows, SelectThresholds(rows))
  <1>1. PICK c \in Candidates(rows) :
            \A i \in DOMAIN rows : Prediction(rows[i], c) = Prediction(rows[i], t)
    BY Rounded
  <1>2. Correct(rows, t) = Correct(rows, c)
    <2>1. {i \in DOMAIN rows : Prediction(rows[i], t) = rows[i].expected}
            = {i \in DOMAIN rows : Prediction(rows[i], c) = rows[i].expected}
      BY <1>1
    <2> QED
      BY <2>1, Zenon DEF Correct
  <1> QED
    BY <1>2, SelectionBest

-----------------------------------------------------------------------------
(* Evidence *)

Decided == {"ACCEPT", "REJECT", "ABSTAIN"}

\* What an outcome says of its claim.
Speaks(o, c) ==
    /\ o.fraction \in Nat /\ o.outcome \in SemanticOutcomes /\ o.decision \in Decided
    /\ o.fraction > 0 => Grounded(c)
    /\ o.outcome = "SUPPORTED" => o.decision = "ACCEPT"
    /\ o.decision = "ACCEPT" =>
          /\ \A k \in DOMAIN c.views : "SUPPORTS" \in c.views[k].kinds
          /\ \A e \in c.expected : NumbersAgree(e, c.views)

LEMMA EvaluationSpeaks ==
    ASSUME NEW c \in GroundedClaims
    PROVE  Speaks(EvaluateClaim(c), c)
  <1> DEFINE cited == DOMAIN c.views
             supporting == {i \in cited : "SUPPORTS" \in c.views[i].kinds}
             fraction == (Cardinality(supporting) * Unit) \div Len(c.views)
             Result(outcome, decision, support) ==
                [outcome |-> outcome, decision |-> decision, fraction |-> support]
             o == EvaluateClaim(c)
  <1>1. c.views \in Seq(Views) /\ c.views # <<>>
    BY DEF GroundedClaims
  <1>2. Len(c.views) \in Nat /\ Len(c.views) # 0 /\ cited = 1..Len(c.views)
    BY <1>1
  <1>3. IsFiniteSet(supporting)
    <2>1. IsFiniteSet(cited)
      BY <1>2, FS_Interval
    <2> QED
      BY <2>1, FS_Subset
  <1>4. fraction \in Nat /\ (supporting = {} => fraction = 0)
    <2> DEFINE n == Len(c.views)
               s == Cardinality(supporting)
    <2>1. s \in Nat /\ (supporting = {} => s = 0)
      BY <1>3, FS_CardinalityType, FS_EmptySet
    <2>2. n \in Nat /\ n # 0 /\ Unit \in Nat
      BY <1>2, CalibrationAssumption
    <2> HIDE DEF n, s
    <2>3. s * Unit \in Nat /\ (supporting = {} => s * Unit = 0)
      BY <2>1, <2>2
    <2>4. (s * Unit) \div n \in Nat
      BY <2>2, <2>3, DivisionParts
    <2>5. 0 \div n = 0
      BY <2>2
    <2> QED
      BY <2>3, <2>4, <2>5 DEF n, s
  <1> HIDE DEF fraction
  <1>5. CASE \E i \in cited : c.views[i].records # 1
    <2>1. o = Result("CITATION_ERROR", "REJECT", 0)
      BY <1>5 DEF EvaluateClaim
    <2> QED
      BY <2>1 DEF Speaks, SemanticOutcomes, Decided
  <1>6. CASE /\ \A i \in cited : c.views[i].records = 1
             /\ \E i \in cited : "CONTRADICTS" \in c.views[i].kinds
    <2>1. o = Result("CONTRADICTORY", "REJECT", 0)
      BY <1>6 DEF EvaluateClaim
    <2> QED
      BY <2>1 DEF Speaks, SemanticOutcomes, Decided
  <1>7. CASE \A i \in cited : c.views[i].records = 1 /\ "CONTRADICTS" \notin c.views[i].kinds
    <2>1. o = IF supporting = {} THEN Result("UNSUPPORTED", "REJECT", fraction)
              ELSE IF \E e \in c.expected : ~NumbersAgree(e, c.views)
                   THEN Result("NUMERICAL_ERROR", "REJECT", fraction)
              ELSE IF supporting # cited THEN Result("PARTIAL", "ABSTAIN", fraction)
              ELSE Result("SUPPORTED", "ACCEPT", fraction)
      BY <1>7 DEF EvaluateClaim, fraction
    <2>2. supporting # {} => Grounded(c)
      BY <1>7 DEF Grounded
    <2>3. CASE supporting = {}
      <3>1. o = Result("UNSUPPORTED", "REJECT", fraction)
        BY <2>1, <2>3
      <3> QED
        BY <3>1, <2>3, <1>4 DEF Speaks, SemanticOutcomes, Decided
    <2>4. CASE supporting # {} /\ \E e \in c.expected : ~NumbersAgree(e, c.views)
      <3>1. o = Result("NUMERICAL_ERROR", "REJECT", fraction)
        BY <2>1, <2>4
      <3> QED
        BY <3>1, <2>2, <2>4, <1>4 DEF Speaks, SemanticOutcomes, Decided
    <2>5. CASE /\ supporting # {} /\ \A e \in c.expected : NumbersAgree(e, c.views)
               /\ supporting # cited
      <3>1. o = Result("PARTIAL", "ABSTAIN", fraction)
        BY <2>1, <2>5
      <3> QED
        BY <3>1, <2>2, <2>5, <1>4 DEF Speaks, SemanticOutcomes, Decided
    <2>6. CASE /\ supporting # {} /\ \A e \in c.expected : NumbersAgree(e, c.views)
               /\ supporting = cited
      <3>1. o = Result("SUPPORTED", "ACCEPT", fraction)
        BY <2>1, <2>6
      <3>2. \A k \in DOMAIN c.views : "SUPPORTS" \in c.views[k].kinds
        BY <2>6
      <3> QED
        BY <3>1, <3>2, <2>2, <2>6, <1>4 DEF Speaks, SemanticOutcomes, Decided
    <2> QED
      BY <2>3, <2>4, <2>5, <2>6
  <1> QED
    BY <1>5, <1>6, <1>7

\* The support of a response is the least of its claims', and it is supported only
\* when every claim of it is accepted.
LEMMA AggregateSpeaks ==
    ASSUME NEW claims \in Seq(GroundedClaims), claims # <<>>
    PROVE  LET outcomes == [i \in DOMAIN claims |-> EvaluateClaim(claims[i])]
           IN  /\ Aggregate(outcomes).fraction \in Nat
               /\ Aggregate(outcomes).outcome \in SemanticOutcomes
               /\ \A i \in DOMAIN claims :
                     /\ Speaks(outcomes[i], claims[i])
                     /\ Aggregate(outcomes).fraction <= outcomes[i].fraction
                     /\ Aggregate(outcomes).outcome = "SUPPORTED" => outcomes[i].decision = "ACCEPT"
  <1> DEFINE outcomes == [i \in DOMAIN claims |-> EvaluateClaim(claims[i])]
             fractions == {outcomes[i].fraction : i \in DOMAIN outcomes}
             having(d) == {i \in DOMAIN outcomes : outcomes[i].decision = d}
             s == Spokesman(outcomes)
  <1>1. DOMAIN claims = 1..Len(claims) /\ Len(claims) \in Nat /\ Len(claims) # 0
    OBVIOUS
  <1>2. \A i \in DOMAIN claims : claims[i] \in GroundedClaims
    OBVIOUS
  <1>3. \A i \in DOMAIN claims : Speaks(outcomes[i], claims[i])
    BY <1>2, EvaluationSpeaks
  <1>4. DOMAIN outcomes = DOMAIN claims /\ 1 \in DOMAIN claims
    BY <1>1
  <1> HIDE DEF outcomes
  <1>5. \A S \in SUBSET Nat : S # {} => Min(S) \in S /\ \A k \in S : Min(S) <= k
    <2> TAKE S \in SUBSET Nat
    <2> HAVE S # {}
    <2>1. \E x \in S : \A y \in S : x <= y
      BY LeastNatural
    <2> QED
      BY <2>1 DEF Min
  <1>6. fractions \in SUBSET Nat /\ fractions # {}
    BY <1>3, <1>4 DEF Speaks
  <1>7. Min(fractions) \in Nat /\ \A i \in DOMAIN claims : Min(fractions) <= outcomes[i].fraction
    <2>1. \A i \in DOMAIN claims : outcomes[i].fraction \in fractions
      BY <1>4
    <2> HIDE DEF fractions
    <2> QED
      BY <2>1, <1>5, <1>6
  <1>8. \A d : having(d) \in SUBSET Nat
    BY <1>1, <1>4
  <1>9. /\ s \in DOMAIN claims
        /\ outcomes[s].decision = "ACCEPT" => \A i \in DOMAIN claims : outcomes[i].decision = "ACCEPT"
    <2>1. CASE having("REJECT") # {}
      <3>1. s = Min(having("REJECT"))
        BY <2>1 DEF Spokesman
      <3>2. s \in having("REJECT")
        BY <3>1, <2>1, <1>5, <1>8
      <3> QED
        BY <3>2, <1>4
    <2>2. CASE having("REJECT") = {} /\ having("ABSTAIN") # {}
      <3>1. s = Min(having("ABSTAIN"))
        BY <2>2 DEF Spokesman
      <3>2. s \in having("ABSTAIN")
        BY <3>1, <2>2, <1>5, <1>8
      <3> QED
        BY <3>2, <1>4
    <2>3. CASE having("REJECT") = {} /\ having("ABSTAIN") = {}
      <3>1. s = 1
        BY <2>3 DEF Spokesman
      <3>2. \A i \in DOMAIN claims : outcomes[i].decision # "REJECT" /\ outcomes[i].decision # "ABSTAIN"
        BY <2>3, <1>4
      <3>3. \A i \in DOMAIN claims : outcomes[i].decision = "ACCEPT"
        BY <3>2, <1>3 DEF Speaks, Decided
      <3> QED
        BY <3>1, <3>3, <1>4
    <2> QED
      BY <2>1, <2>2, <2>3
  <1>10. Aggregate(outcomes).outcome = outcomes[s].outcome /\ Aggregate(outcomes).fraction = Min(fractions)
    BY DEF Aggregate
  <1>11. outcomes[s].outcome \in SemanticOutcomes
         /\ (outcomes[s].outcome = "SUPPORTED" => outcomes[s].decision = "ACCEPT")
    BY <1>3, <1>9 DEF Speaks
  <1> HIDE DEF s, fractions, having
  <1> QED
    BY <1>3, <1>7, <1>9, <1>10, <1>11 DEF outcomes

-----------------------------------------------------------------------------
(* Bindings *)

LEMMA CarriedByEach ==
    /\ Carries["envelope"] = EnvelopeCarries /\ Carries["policy"] = PolicyCarries
    /\ Carries["record"] = RecordCarries /\ Carries["snapshot"] = SnapshotCarries
    /\ Carries["crypto"] = CryptoCarries /\ Carries["trace"] = TraceCarries
    /\ Carries["freeze"] = FreezeCarries /\ Carries["task"] = {"envelope"}
    /\ Carries["protocolModel"] = {"model"}
    /\ Carries["commitment"] = {"task", "protocolModel", "response", "trace"}
    /\ Carries["confReport"] = {"devDataset", "dataset"}
    /\ Carries["devReport"] = {"devDataset"} /\ Carries["ledger"] = {"devDataset"}
    /\ \A i \in {"claim", "dataset", "environment", "model", "prompt", "response"} : Carries[i] = {}
  BY DEF Carries, Inputs

Carrying ==
    {"envelope", "policy", "record", "snapshot", "crypto", "trace", "freeze", "task",
     "protocolModel", "commitment", "confReport", "devReport", "ledger"}

LEMMA InputsSplit ==
    Inputs = Carrying \cup {"claim", "dataset", "environment", "model", "prompt", "response"}
  BY DEF Inputs, Carrying

\* What the registry entry carries carries nothing itself, so it is carried on only
\* from itself, and then the record carries it too.
LEMMA RecordCarriesToo ==
    ASSUME request.origin \in Origins, NEW p \in {"claim", "dataset", "environment"},
           p \in CarriedInto[request.origin]
    PROVE  "record" \in CarriedInto[request.origin]
  <1> DEFINE o == request.origin
             Sourced(set) == \A i \in set : i = o \/ Carries[i] # {}
             Twice(set) == Carriers(Carriers(set))
  <1>1. \A set : Sourced(set) => Sourced(Carriers(set))
    BY DEF Carriers
  <1>2. \A set : set \subseteq Carriers(set)
    BY DEF Carriers
  <1>3. CarriedInto[o] = Twice(Twice(Twice(Twice({o}))))
    BY DEF CarriedInto
  <1>4. Sourced({o})
    OBVIOUS
  <1>5. Sourced(CarriedInto[o])
    <2> HIDE DEF Sourced, o
    <2> QED
      BY <1>1, <1>3, <1>4
  <1>6. p = o
    BY <1>5, CarriedByEach
  <1>7. "record" \in Carriers({o})
    BY <1>6, CarriedByEach DEF Carriers, RecordCarries, Inputs
  <1>8. Carriers({o}) \subseteq CarriedInto[o]
    <2> HIDE DEF o
    <2> QED
      BY <1>2, <1>3
  <1> QED
    BY <1>7, <1>8

LEMMA SnapshotBound ==
    ASSUME request.origin \in Origins, RegistryBinds, Bound("record", {"claim", "dataset", "environment"}),
           NEW p \in {"claim", "dataset", "environment"}
    PROVE  HashAt("snapshot", p) = HashOf(p)
  <1> DEFINE into == CarriedInto[request.origin]
  <1>1. HashAt("record", p) = HashOf(p)
    BY DEF Bound
  <1>2. HashIn("record", TaskOfInput("snapshot")) = HashIn("record", TaskOfInput("record"))
    BY DEF RegistryBinds, HashAt, HashOf
  <1>3. p \in into => TaskOfInput("snapshot") = TaskOfInput("record")
    BY <1>2, RecordCarriesToo DEF HashIn
  <1>4. HashIn(p, TaskOfInput("snapshot")) = HashIn(p, TaskOfInput("record"))
    BY <1>3 DEF HashIn
  <1> QED
    BY <1>1, <1>4 DEF HashAt

LEMMA BoundTasks ==
    ASSUME request.origin \in Origins, RegistryBinds, CalibrationBinds, TaskBinds
    PROVE  OneTask
  <1>1. ASSUME NEW i \in Inputs PROVE Bound(i, Carries[i] \ Named)
    <2>1. CASE i = "envelope"
      BY <2>1, CarriedByEach DEF TaskBinds, Bound, EnvelopeCarries, Named
    <2>2. CASE i = "policy"
      BY <2>2, CarriedByEach DEF TaskBinds, Bound, PolicyCarries, Named
    <2>3. CASE i = "record"
      BY <2>3, CarriedByEach DEF TaskBinds, RegistryBinds, Bound, RecordCarries, Named
    <2>4. CASE i = "snapshot"
      <3>1. Carries[i] \ Named = {"claim", "dataset", "environment"}
        BY <2>4, CarriedByEach DEF SnapshotCarries, RecordCarries, Named
      <3>2. Bound("record", {"claim", "dataset", "environment"})
        BY DEF TaskBinds, Bound
      <3> QED
        BY <2>4, <3>1, <3>2, SnapshotBound DEF Bound
    <2>5. CASE i = "crypto"
      BY <2>5, CarriedByEach DEF RegistryBinds, Bound, CryptoCarries, Named
    <2>6. CASE i = "trace"
      BY <2>6, CarriedByEach DEF TaskBinds, Bound, TraceCarries, Named
    <2>7. CASE i = "freeze"
      <3>1. \A p \in {"claim", "prompt", "model", "environment"} : HashAt("policy", p) = HashOf(p)
        BY DEF TaskBinds, Bound
      <3>2. \A p \in {"claim", "prompt", "model", "environment"} : HashAt("freeze", p) = HashOf(p)
        BY <3>1 DEF CalibrationBinds
      <3>3. HashAt("freeze", "devReport") = HashOf("devReport") /\ HashAt("freeze", "ledger") = HashOf("ledger")
        BY DEF CalibrationBinds, Bound
      <3> QED
        BY <2>7, <3>2, <3>3, CarriedByEach DEF Bound, FreezeCarries, Named
    <2>8. CASE i = "task"
      BY <2>8, CarriedByEach DEF TaskBinds, Bound
    <2>9. CASE i = "protocolModel"
      BY <2>9, CarriedByEach DEF TaskBinds, Bound
    <2>10. CASE i = "commitment"
      BY <2>10, CarriedByEach DEF TaskBinds, Bound
    <2>11. CASE i = "confReport"
      BY <2>11, CarriedByEach DEF CalibrationBinds, Bound, Named
    <2>12. CASE i \in {"devReport", "ledger"}
      BY <2>12, CarriedByEach DEF Bound, Named
    <2>13. CASE i \in {"claim", "dataset", "environment", "model", "prompt", "response"}
      BY <2>13, CarriedByEach DEF Bound
    <2> QED
      BY <2>1, <2>2, <2>3, <2>4, <2>5, <2>6, <2>7, <2>8, <2>9, <2>10, <2>11, <2>12, <2>13, InputsSplit
      DEF Carrying
  <1>2. {k \in Inputs : "devDataset" \in Carries[k]} \subseteq {"freeze", "confReport", "devReport", "ledger"}
    BY CarriedByEach, InputsSplit
    DEF Carrying, EnvelopeCarries, PolicyCarries, RecordCarries, SnapshotCarries, CryptoCarries, TraceCarries
  <1>3. {k \in Inputs : "payload" \in Carries[k]} \subseteq {"envelope", "policy"}
    BY CarriedByEach, InputsSplit
    DEF Carrying, RecordCarries, SnapshotCarries, CryptoCarries, TraceCarries, FreezeCarries
  <1>4. \A i \in {"freeze", "confReport", "devReport", "ledger"} :
           HashAt(i, "devDataset") = HashAt("freeze", "devDataset")
    BY DEF CalibrationBinds
  <1>5. HashAt("policy", "payload") = HashAt("envelope", "payload")
    BY DEF TaskBinds
  <1>6. \A n \in Named : \A i, j \in {k \in Inputs : n \in Carries[k]} : HashAt(i, n) = HashAt(j, n)
    <2>1. \A i, j \in {k \in Inputs : "devDataset" \in Carries[k]} :
             HashAt(i, "devDataset") = HashAt(j, "devDataset")
      BY <1>2, <1>4
    <2>2. \A i, j \in {k \in Inputs : "payload" \in Carries[k]} : HashAt(i, "payload") = HashAt(j, "payload")
      BY <1>3, <1>5
    <2> QED
      BY <2>1, <2>2 DEF Named
  <1> QED
    BY <1>1, <1>6 DEF OneTask

-----------------------------------------------------------------------------
(* The verifier *)

RestsOnEvidence ==
    /\ OneTask
    /\ \A i \in DOMAIN request.claims : Grounded(request.claims[i])
    /\ request.policy.accept = {"SUPPORTED"} =>
           \A i \in DOMAIN request.claims :
               /\ \A k \in DOMAIN request.claims[i].views :
                      "SUPPORTS" \in request.claims[i].views[k].kinds
               /\ \A e \in request.claims[i].expected : NumbersAgree(e, request.claims[i].views)
    /\ ActiveOn(request.authority, request.date)
    /\ Satisfies(request.rules.supported, request.metrics)

Fitted(rows) ==
    [stage |-> "frozen", support |-> SelectThresholds(rows).support,
     reject |-> SelectThresholds(rows).reject, confidence |-> SelectThresholds(rows).confidence]

GroundedInv ==
    /\ ValidSample(sample) /\ ValidRequest(request)
    /\ freeze \in {Unfitted, Refused, Fitted(sample.rows)}
    /\ verdict # Undecided => verdict.failure # "ambiguous"
    /\ verdict.decision = "ACCEPT" => RestsOnEvidence
    /\ recorded.decision = "ACCEPT" => RestsOnEvidence

LEMMA FittedThresholds ==
    ASSUME NEW rows \in ValidRows
    PROVE  /\ Fitted(rows).stage = "frozen" /\ Fitted(rows).support \in Nat
           /\ Fitted(rows).reject \in Nat /\ Fitted(rows).confidence \in Nat
           /\ SelectThresholds(rows)
                = [support |-> Fitted(rows).support, reject |-> Fitted(rows).reject,
                   confidence |-> Fitted(rows).confidence]
  <1>1. SelectThresholds(rows) \in Thresholds
    BY SelectionBest DEF Candidates
  <1> QED
    BY <1>1, CalibrationAssumption DEF Fitted, Thresholds, Fractions

\* What an accepted decision says of the outcomes it was made from.
LEMMA AcceptedOutcome ==
    ASSUME NEW policy, ValidPolicy(policy), NEW outcome \in SemanticOutcomes, NEW fraction \in Nat, NEW confidence,
           freeze.reject \in Nat, PolicyDecision(policy, outcome, fraction, confidence) = "ACCEPT"
    PROVE  outcome \in policy.accept /\ fraction > 0
  <1>1. outcome \notin policy.reject /\ outcome \notin policy.abstain /\ ~(fraction <= freeze.reject)
    BY DEF PolicyDecision
  <1>2. outcome \in UNION {policy.accept, policy.reject, policy.abstain}
    BY DEF ValidPolicy
  <1> QED
    BY <1>1, <1>2

LEMMA NeverAmbiguous ==
    ASSUME ValidRequest(request)
    PROVE  Adjudication.failure # "ambiguous"
  <1>1. ~(Satisfies(request.rules.supported, request.metrics) /\ Satisfies(request.rules.refuted, request.metrics))
    BY NoAmbiguity DEF ValidRequest
  <1> QED
    BY <1>1 DEF Adjudication, Adjudicate

LEMMA VerifyInv ==
    ASSUME GroundedInv, Verify
    PROVE  GroundedInv'
  <1> DEFINE outcomes == [i \in DOMAIN request.claims |-> EvaluateClaim(request.claims[i])]
             whole == Aggregate(outcomes)
             computed == PolicyDecision(request.policy, whole.outcome, whole.fraction, request.confidence)
             decision == IF ~Intact \/ request.traceDecision # computed \/ ~request.policy.real
                         THEN "REJECT" ELSE Settled(computed, Adjudication.disposition)
  <1>1. /\ freeze.stage = "frozen" /\ verdict = Undecided
        /\ UNCHANGED <<sample, freeze, request, recorded>>
        /\ verdict' = [decision |-> decision, disposition |-> Adjudication.disposition,
                       failure |-> Adjudication.failure, outcomes |-> outcomes]
    BY DEF Verify
  <1>2. ValidRequest(request) /\ ValidSample(sample)
    BY DEF GroundedInv
  <1>3. sample.rows \in ValidRows
    BY <1>2 DEF ValidSample, ValidRows
  <1>4. freeze.reject \in Nat
    <2>1. freeze = Fitted(sample.rows)
      BY <1>1 DEF GroundedInv, Unfitted, Refused
    <2> QED
      BY <2>1, <1>3, FittedThresholds
  <1>5. verdict'.failure # "ambiguous"
    BY <1>1, <1>2, NeverAmbiguous
  <1>6. ASSUME decision = "ACCEPT" PROVE RestsOnEvidence
    <2>1. Intact /\ Settled(computed, Adjudication.disposition) = "ACCEPT"
      BY <1>6
    <2>2. computed = "ACCEPT" /\ Adjudication.disposition \notin {"NOT_SUPPORTED", "INCONCLUSIVE"}
      BY <2>1 DEF Settled
    <2>3. Satisfies(request.rules.supported, request.metrics)
      BY <2>2 DEF Adjudication, Adjudicate
    <2>4. OneTask
      BY <1>2, <2>1, BoundTasks DEF Intact, ValidRequest
    <2>5. ActiveOn(request.authority, request.date)
      BY <2>1 DEF Intact, EligibleToPublish
    <2>6. request.claims \in Seq(GroundedClaims) /\ request.claims # <<>>
      BY <1>2, <2>1 DEF Intact, ValidRequest
    <2>7. /\ whole.fraction \in Nat /\ whole.outcome \in SemanticOutcomes
          /\ \A i \in DOMAIN request.claims :
                /\ Speaks(outcomes[i], request.claims[i])
                /\ whole.fraction <= outcomes[i].fraction
                /\ whole.outcome = "SUPPORTED" => outcomes[i].decision = "ACCEPT"
      BY <2>6, AggregateSpeaks
    <2> HIDE DEF whole, outcomes
    <2>8. whole.outcome \in request.policy.accept /\ whole.fraction > 0
      BY <1>2, <1>4, <2>2, <2>7, AcceptedOutcome DEF ValidRequest
    <2>9. \A i \in DOMAIN request.claims : Grounded(request.claims[i])
      <3> TAKE i \in DOMAIN request.claims
      <3>1. Speaks(outcomes[i], request.claims[i]) /\ whole.fraction <= outcomes[i].fraction
        BY <2>7
      <3>2. outcomes[i].fraction > 0
        BY <2>7, <2>8, <3>1 DEF Speaks
      <3> QED
        BY <3>1, <3>2 DEF Speaks
    <2>10. request.policy.accept = {"SUPPORTED"} =>
              \A i \in DOMAIN request.claims :
                  /\ \A k \in DOMAIN request.claims[i].views :
                         "SUPPORTS" \in request.claims[i].views[k].kinds
                  /\ \A e \in request.claims[i].expected : NumbersAgree(e, request.claims[i].views)
      BY <2>7, <2>8 DEF Speaks
    <2> QED
      BY <2>3, <2>4, <2>5, <2>9, <2>10 DEF RestsOnEvidence
  <1>7. verdict'.decision = decision
    BY <1>1
  <1> HIDE DEF decision
  <1>8. RestsOnEvidence' <=> RestsOnEvidence
    BY <1>1 DEF RestsOnEvidence, OneTask, Bound, HashAt, HashOf, HashIn, TaskOfInput, Grounded, NumbersAgree,
                ActiveOn, Satisfies, Meets
  <1> QED
    BY <1>1, <1>5, <1>6, <1>7, <1>8 DEF GroundedInv, ValidSample, ValidRequest

\* What depends on the request only does not change.
LEMMA RequestStays ==
    ASSUME UNCHANGED request
    PROVE  /\ RestsOnEvidence' = RestsOnEvidence /\ ValidRequest(request)' = ValidRequest(request)
  BY DEF RestsOnEvidence, OneTask, Bound, HashAt, HashOf, HashIn, TaskOfInput, Grounded, NumbersAgree,
         ActiveOn, Satisfies, Meets, ValidRequest

LEMMA GroundedInitInv == GroundedInit => GroundedInv
  <1> SUFFICES ASSUME GroundedInit PROVE GroundedInv
    OBVIOUS
  <1>1. ValidSample(sample) /\ ValidRequest(request)
    BY CasesAssumption DEF GroundedInit
  <1> QED
    BY <1>1 DEF GroundedInit, GroundedInv, Undecided

LEMMA GroundedNextInv == GroundedInv /\ [GroundedNext]_groundedVars => GroundedInv'
  <1> SUFFICES ASSUME GroundedInv, [GroundedNext]_groundedVars PROVE GroundedInv'
    OBVIOUS
  <1>1. CASE FitCalibration
    <2>1. UNCHANGED <<sample, request, verdict, recorded>> /\ freeze' \in {Refused, Fitted(sample.rows)}
      BY <1>1 DEF FitCalibration, Fitted
    <2> QED
      BY <2>1, RequestStays DEF GroundedInv
  <1>2. CASE Verify
    BY <1>2, VerifyInv
  <1>3. CASE RecordVerdict
    <2>1. UNCHANGED <<sample, freeze, request, verdict>> /\ recorded'.decision = verdict.decision
      BY <1>3 DEF RecordVerdict
    <2> QED
      BY <2>1, RequestStays DEF GroundedInv
  <1>4. CASE UNCHANGED groundedVars
    BY <1>4, RequestStays DEF groundedVars, GroundedInv
  <1> QED
    BY <1>1, <1>2, <1>3, <1>4 DEF GroundedNext

\* An accepted response is grounded, of one task and under an active authority, for
\* any samples, requests, policies and numbers of claims and citations.
THEOREM AcceptanceIsEarned == GroundedSpec => []AcceptEarned
  <1>1. GroundedInv => AcceptEarned
    BY DEF GroundedInv, AcceptEarned, RestsOnEvidence
  <1> QED
    BY GroundedInitInv, GroundedNextInv, <1>1, PTL DEF GroundedSpec

\* No metrics make a claim ambiguous, whatever its rules.
THEOREM ClaimsAreUnambiguous == GroundedSpec => []ClaimUnambiguous
  <1>1. GroundedInv => ClaimUnambiguous
    BY DEF GroundedInv, ClaimUnambiguous
  <1> QED
    BY GroundedInitInv, GroundedNextInv, <1>1, PTL DEF GroundedSpec

\* No thresholds beat the frozen ones on the development rows, and the policy
\* decides each row as the fit predicted it, for any rows and any unit.
THEOREM CalibrationIsBest == GroundedSpec => []CalibrationCarriesOver
  <1>1. GroundedInv => CalibrationCarriesOver
    <2> SUFFICES ASSUME GroundedInv, freeze.stage = "frozen"
                 PROVE  /\ \A t \in Thresholds : Correct(sample.rows, t) <= Correct(sample.rows, freeze)
                        /\ \A i \in DOMAIN sample.rows :
                              PolicyDecision([reject |-> {}, abstain |-> {}], "SUPPORTED",
                                             sample.rows[i].fraction, sample.rows[i].confidence)
                                  = Prediction(sample.rows[i], freeze)
      BY DEF CalibrationCarriesOver
    <2>1. sample.rows \in ValidRows
      BY DEF GroundedInv, ValidSample, ValidRows
    <2>2. freeze = Fitted(sample.rows)
      BY DEF GroundedInv, Unfitted, Refused
    <2> DEFINE best == SelectThresholds(sample.rows)
    <2>3. /\ freeze.support = best.support /\ freeze.reject = best.reject
          /\ freeze.confidence = best.confidence
      BY <2>2 DEF Fitted
    <2>4. Correct(sample.rows, freeze) = Correct(sample.rows, best)
      <3> HIDE DEF best
      <3>1. \A row : Prediction(row, freeze) = Prediction(row, best)
        BY <2>3 DEF Prediction
      <3> QED
        BY <3>1 DEF Correct
    <2>5. \A t \in Thresholds : Correct(sample.rows, t) <= Correct(sample.rows, best)
      BY <2>1, SelectionUnbeaten
    <2>6. ASSUME NEW i \in DOMAIN sample.rows
          PROVE  PolicyDecision([reject |-> {}, abstain |-> {}], "SUPPORTED",
                                sample.rows[i].fraction, sample.rows[i].confidence)
                     = Prediction(sample.rows[i], freeze)
      <3> DEFINE f == sample.rows[i].fraction
                 k == sample.rows[i].confidence
      <3>1. f \in Nat /\ k \in Nat
        BY <2>1, RowFacts, CalibrationAssumption DEF Fractions
      <3>2. freeze.support \in Nat /\ freeze.reject \in Nat /\ freeze.confidence \in Nat
        BY <2>1, <2>2, FittedThresholds
      <3> HIDE DEF f, k
      <3>3. (f < freeze.support \/ k < freeze.confidence)
               <=> ~(f >= freeze.support /\ k >= freeze.confidence)
        BY <3>1, <3>2
      <3> QED
        BY <3>3 DEF PolicyDecision, Prediction, f, k
    <2> QED
      BY <2>4, <2>5, <2>6
  <1> QED
    BY GroundedInitInv, GroundedNextInv, <1>1, PTL DEF GroundedSpec
=============================================================================
