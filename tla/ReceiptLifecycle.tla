-------------------------- MODULE ReceiptLifecycle --------------------------
(***************************************************************************)
(* What the receipt contract promises, without blocks, epochs, audits or   *)
(* roles: a receipt moves once through its life cycle, a nullifier serves  *)
(* one receipt for ever, the choice between activation and challenge is    *)
(* final, and a receipt never becomes active once its task is disputed.    *)
(***************************************************************************)
CONSTANTS Receipts, Tasks, Nullifiers, NoTaskId, NoNullifier

VARIABLES
    stage,      \* stage of each receipt
    taskOf,     \* the task it was minted for
    nullifier,  \* the nullifier it spends
    disputed    \* tasks with an opened challenge

vars == <<stage, taskOf, nullifier, disputed>>

Init ==
    /\ stage = [r \in Receipts |-> "NONE"]
    /\ taskOf = [r \in Receipts |-> NoTaskId]
    /\ nullifier = [r \in Receipts |-> NoNullifier]
    /\ disputed = {}

Mint(r, t, n) ==
    /\ stage[r] = "NONE"
    /\ \A s \in Receipts : nullifier[s] # n
    /\ stage' = [stage EXCEPT ![r] = "PENDING"]
    /\ taskOf' = [taskOf EXCEPT ![r] = t]
    /\ nullifier' = [nullifier EXCEPT ![r] = n]
    /\ UNCHANGED disputed

Dispute(t) ==
    /\ disputed' = disputed \cup {t}
    /\ UNCHANGED <<stage, taskOf, nullifier>>

Move(r, from, to) ==
    /\ stage[r] = from
    /\ stage' = [stage EXCEPT ![r] = to]
    /\ UNCHANGED <<taskOf, nullifier, disputed>>

Activate(r) == taskOf[r] \notin disputed /\ Move(r, "PENDING", "ACTIVE")

Challenge(r) == taskOf[r] \in disputed /\ Move(r, "PENDING", "CHALLENGED")

Slash(r) == taskOf[r] \in disputed /\ Move(r, "CHALLENGED", "SLASHED")

Next ==
    \/ \E r \in Receipts, t \in Tasks, n \in Nullifiers : Mint(r, t, n)
    \/ \E t \in Tasks : Dispute(t)
    \/ \E r \in Receipts : Activate(r) \/ Challenge(r) \/ Slash(r)

Spec == Init /\ [][Next]_vars
=============================================================================
