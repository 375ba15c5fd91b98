-------------------------- MODULE OperatorWeights --------------------------
(***************************************************************************)
(* src/poi_mpp/experiments/e8_consensus.py derives the authority of        *)
(* operators for one epoch: it reads the task batches of a scenario in     *)
(* ascending task id and their receipts in ascending receipt id, lets      *)
(* protocol/credit.py allocate each task's budget over its eligible        *)
(* receipts, bounds the credit of an operator by its collateral and by a   *)
(* cap, and lets protocol/committee.py draw a committee.                   *)
(*                                                                         *)
(* The scenario is not fixed in advance: each step takes the next batch or *)
(* receipt, any that the sort order and the scenario's validators allow.   *)
(***************************************************************************)
EXTENDS Integers, FiniteSets, Functions

CONSTANTS
    Operators,      \* operator ids, numbered in their sort order
    Workers,        \* worker ids
    OperatorOf,     \* worker_bindings
    NoOperator,     \* what a worker without a binding maps to
    Collateral,     \* collateral_micros of an operator
    Beta,           \* beta_micros
    Cap,            \* concentration_cap_micros
    CommitteeSize,
    TaskIds, ReceiptIds, Nullifiers,
    Budgets,        \* bound: credit budgets of the tasks
    MaxBatches      \* bound: batches of the scenario

ASSUME WeightAssumption ==
    /\ Operators \subseteq Nat /\ IsFiniteSet(Operators) /\ NoOperator \notin Operators
    /\ OperatorOf \in [Workers -> Operators \cup {NoOperator}]
    /\ Collateral \in [Operators -> Nat]
    /\ Beta \in Nat \ {0} /\ Cap \in Nat /\ CommitteeSize \in Nat \ {0}
    /\ TaskIds \subseteq Nat \ {0} /\ ReceiptIds \subseteq Nat \ {0}
    /\ Budgets \subseteq Nat /\ MaxBatches \in Nat

\* A batch's task: credits is "consensus class, active and registered", due is
\* "the target epoch is the one after the task's".
Batch == [task : TaskIds, worker : Workers, budget : Budgets, credits : BOOLEAN,
          due : BOOLEAN]

NoBatch == [task |-> 0]

\* A receipt of the current batch: matured is what _eligible_receipt_for_weight
\* asks of the receipt itself.
Item == [id : ReceiptIds, nullifier : Nullifiers, worker : Workers, matured : BOOLEAN]

VARIABLES
    phase,      \* what the derivation does next
    count,      \* batches taken
    batch,      \* the batch being read
    last,       \* id of the last receipt read from it
    eligible,   \* its eligible receipts
    seen,       \* seen_receipt_ids and seen_nullifiers
    credit,     \* credit_by_operator
    paid,       \* the shares of the CreditAllocations, each with its receipt and batch
    selected    \* the operators drawn for the committee so far

vars == <<phase, count, batch, last, eligible, seen, credit, paid, selected>>

TypeOK ==
    /\ phase \in {"batches", "receipts", "draw", "done", "raised"}
    /\ count \in 0..MaxBatches
    /\ batch \in Batch \cup {NoBatch}
    /\ last \in ReceiptIds \cup {0}
    /\ eligible \subseteq Item
    /\ seen \in [ids : SUBSET ReceiptIds, nullifiers : SUBSET Nullifiers]
    /\ credit \in [Operators -> Nat]
    /\ paid \subseteq [item : Item, batch : Batch, position : 1..MaxBatches, share : Nat]
    /\ selected \subseteq Operators

Init ==
    /\ phase = "batches"
    /\ count = 0
    /\ batch = NoBatch
    /\ last = 0
    /\ eligible = {}
    /\ seen = [ids |-> {}, nullifiers |-> {}]
    /\ credit = [o \in Operators |-> 0]
    /\ paid = {}
    /\ selected = {}

-----------------------------------------------------------------------------
(* derive_operator_weights: the loop over batches and receipts *)

TakeBatch(b) ==
    /\ phase = "batches"
    /\ count < MaxBatches
    /\ b.task >= batch.task
    /\ phase' = "receipts"
    /\ count' = count + 1
    /\ batch' = b
    /\ last' = 0
    /\ eligible' = {}
    /\ UNCHANGED <<seen, credit, paid, selected>>

\* Faulty variant: only receipt ids are remembered from one batch to the next.
SeenById(item) == item.id \in seen.ids

Seen(item) == item.id \in seen.ids \/ item.nullifier \in seen.nullifiers

Eligible(item) == batch.credits /\ batch.budget # 0 /\ item.matured

\* A receipt is remembered before it is found eligible or not.
ReadReceipt(item) ==
    /\ phase = "receipts"
    /\ item.id >= last
    /\ ~Seen(item)
    /\ last' = item.id
    /\ seen' = [ids |-> seen.ids \cup {item.id},
                nullifiers |-> seen.nullifiers \cup {item.nullifier}]
    /\ eligible' = IF Eligible(item) THEN eligible \cup {item} ELSE eligible
    /\ UNCHANGED <<phase, count, batch, credit, paid, selected>>

SkipReceipt(item) ==
    /\ phase = "receipts"
    /\ item.id >= last
    /\ Seen(item)
    /\ last' = item.id
    /\ UNCHANGED <<phase, count, batch, eligible, seen, credit, paid, selected>>

SkipBatch ==
    /\ phase = "receipts"
    /\ eligible = {}
    /\ phase' = "batches"
    /\ UNCHANGED <<count, batch, last, eligible, seen, credit, paid, selected>>

-----------------------------------------------------------------------------
(* allocate_credit *)

\* index of a receipt in the ascending order of ids
Rank(item) == Cardinality({other \in eligible : other.id < item.id})

\* Faulty variant: one receipt too many gets a unit of the remainder.
ShareWithOneMore(item) ==
    (batch.budget \div Cardinality(eligible))
        + (IF Rank(item) <= batch.budget % Cardinality(eligible) THEN 1 ELSE 0)

Share(item) ==
    (batch.budget \div Cardinality(eligible))
        + (IF Rank(item) < batch.budget % Cardinality(eligible) THEN 1 ELSE 0)

Allocatable ==
    /\ batch.due
    /\ \A item \in eligible : item.worker = batch.worker
    /\ OperatorOf[batch.worker] # NoOperator

Allocate ==
    /\ phase = "receipts"
    /\ eligible # {}
    /\ Allocatable
    /\ paid' = paid \cup {[item |-> item, batch |-> batch, position |-> count,
                           share |-> Share(item)] : item \in eligible}
    /\ credit' = [credit EXCEPT ![OperatorOf[batch.worker]] =
                      @ + SumFunction([item \in eligible |-> Share(item)])]
    /\ phase' = "batches"
    /\ UNCHANGED <<count, batch, last, eligible, seen, selected>>

\* allocate_credit raises, or the credited worker has no operator: the whole
\* derivation is abandoned.
AllocationRaises ==
    /\ phase = "receipts"
    /\ eligible # {}
    /\ ~Allocatable
    /\ phase' = "raised"
    /\ UNCHANGED <<count, batch, last, eligible, seen, credit, paid, selected>>

-----------------------------------------------------------------------------
(* derive_active_weight, the sampling disposition, sample_committee *)

Lesser(x, y) == IF x < y THEN x ELSE y

\* Faulty variant: collateral and cap authorise an operator without credit.
UnearnedWeight(o) == Lesser(Collateral[o] \div Beta, Cap)

Weight(o) ==
    IF credit[o] = 0 THEN 0
    ELSE Lesser(Lesser(credit[o], Collateral[o] \div Beta), Cap)

Positive == {o \in Operators : Weight(o) > 0}

Remaining == Positive \ selected

TotalOf(group) == SumFunctionOnSet([o \in Operators |-> Weight(o)], group)

\* positive_operator_count against committee_size
Enough(group) == Cardinality(group) >= CommitteeSize

MaySample == Enough(Positive)

Weigh ==
    /\ phase = "batches"
    /\ count > 0
    /\ phase' = IF MaySample THEN "draw" ELSE "done"
    /\ UNCHANGED <<count, batch, last, eligible, seen, credit, paid, selected>>

UpTo(o) == TotalOf({other \in Remaining : other <= o})

\* Faulty variant: roll <= cumulative.
ChosenLate(o, roll) ==
    roll <= UpTo(o) /\ \A other \in Remaining : other < o => roll > UpTo(other)

\* The first operator, in sort order, whose cumulative weight exceeds the roll.
Chosen(o, roll) ==
    roll < UpTo(o) /\ \A other \in Remaining : other < o => roll >= UpTo(other)

\* The roll is a hash modulo the remaining weight: any value below it.
Rolls == 0..(TotalOf(Remaining) - 1)

Draw(o, roll) ==
    /\ phase = "draw"
    /\ roll \in Rolls
    /\ o \in Remaining
    /\ Chosen(o, roll)
    /\ selected' = selected \cup {o}
    /\ phase' = IF Cardinality(selected') = CommitteeSize THEN "done" ELSE "draw"
    /\ UNCHANGED <<count, batch, last, eligible, seen, credit, paid>>

Next ==
    \/ \E b \in Batch : TakeBatch(b)
    \/ \E item \in Item : ReadReceipt(item) \/ SkipReceipt(item)
    \/ SkipBatch
    \/ Allocate
    \/ AllocationRaises
    \/ Weigh
    \/ \E o \in Operators : \E roll \in Rolls : Draw(o, roll)

Spec == Init /\ [][Next]_vars

-----------------------------------------------------------------------------
\* A receipt, and a nullifier, earns credit once in a scenario, whichever batches
\* repeat it.
PaidOnce ==
    \A p, q \in paid : p # q =>
        p.item.id # q.item.id /\ p.item.nullifier # q.item.nullifier

SumOfShares(entries) == SumFunctionOnSet([p \in entries |-> p.share], entries)

\* Credit is conserved: each allocation pays exactly its budget, in shares one unit
\* apart at most, and an operator's credit is what receipts of its workers were paid.
CreditConserved ==
    /\ \A p \in paid :
          /\ SumOfShares({q \in paid : q.position = p.position}) = p.batch.budget
          /\ \A q \in paid : q.position = p.position => q.share <= p.share + 1
    /\ \A o \in Operators :
          credit[o] = SumOfShares({p \in paid : OperatorOf[p.item.worker] = o})

\* Only matured receipts of tasks of the previous epoch make authority: collateral
\* and cap bound it, and an operator without such receipts has none.
AuthorityEarned ==
    \A o \in Operators :
        Weight(o) <= SumOfShares({p \in paid :
            /\ OperatorOf[p.item.worker] = o
            /\ p.item.matured /\ p.batch.due /\ p.batch.credits})

\* The disposition never promises a committee that sample_committee would refuse
\* to draw, or could not complete; members are distinct and carry weight.
CommitteeSound ==
    /\ selected \subseteq Positive
    /\ phase = "draw" => Cardinality(selected) < CommitteeSize
                         /\ Cardinality(selected) + Cardinality(Remaining) >= CommitteeSize
    /\ phase = "done" /\ selected # {} => Cardinality(selected) = CommitteeSize

\* A4_PoI_Credit.md: p_i = W_i / sum_k W_k.  Of the equally likely rolls, as many
\* choose an operator as it has weight.
DrawProportional ==
    phase = "draw" =>
        \A o \in Remaining : Cardinality({roll \in Rolls : Chosen(o, roll)}) = Weight(o)
=============================================================================
