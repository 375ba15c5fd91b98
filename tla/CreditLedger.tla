---------------------------- MODULE CreditLedger ----------------------------
(***************************************************************************)
(* What the credit contract promises: a task that offers credit pays all   *)
(* of it to its worker, once, as authority of the epoch after the task's   *)
(* own and never before that epoch has begun; nothing else makes credit.   *)
(***************************************************************************)
EXTENDS Integers

CONSTANTS Tasks, Workers, EpochSet, Payments, NoWorker

VARIABLES
    epoch,    \* the epoch of the chain
    offer,    \* terms of a task: its worker, its epoch, the credit it pays
    settled,  \* tasks that have paid
    credit    \* credit[epoch][worker]

vars == <<epoch, offer, settled, credit>>

NoOffer == [worker |-> NoWorker, epoch |-> 0, pays |-> 0]

Init ==
    /\ epoch \in Nat
    /\ offer = [t \in Tasks |-> NoOffer]
    /\ settled = {}
    /\ credit = [e \in EpochSet |-> [w \in Workers |-> 0]]

NextEpoch ==
    /\ epoch' = epoch + 1
    /\ UNCHANGED <<offer, settled, credit>>

Offer(t, w, pays) ==
    /\ offer[t] = NoOffer
    /\ offer' = [offer EXCEPT ![t] = [worker |-> w, epoch |-> epoch, pays |-> pays]]
    /\ UNCHANGED <<epoch, settled, credit>>

Settle(t) ==
    LET due == offer[t].epoch + 1
    IN  /\ t \notin settled
        /\ offer[t].pays > 0
        /\ due <= epoch
        /\ settled' = settled \cup {t}
        /\ credit' = [credit EXCEPT ![due][offer[t].worker] = @ + offer[t].pays]
        /\ UNCHANGED <<epoch, offer>>

Next ==
    \/ NextEpoch
    \/ \E t \in Tasks, w \in Workers, pays \in Payments : Offer(t, w, pays)
    \/ \E t \in Tasks : Settle(t)

Spec == Init /\ [][Next]_vars
=============================================================================
