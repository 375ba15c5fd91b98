----------------------- MODULE OperatorWeights_proofs -----------------------
(***************************************************************************)
(* Proofs about OperatorWeights for any scenario, weights and committee    *)
(* size: what the derivation remembers keeps a receipt and a nullifier     *)
(* from being paid twice, a committee that is begun is completed, the      *)
(* shares of every budget add up to it, authority is earned, and each draw *)
(* chooses in proportion to the weights.                                   *)
(***************************************************************************)
EXTENDS OperatorWeights, FiniteSetTheorems, SumTheorems, TLAPS

\* No two receipts of a set share an id or a nullifier with each other.
Apart(x, y) == x.id # y.id /\ x.nullifier # y.nullifier

Remembered(x) == x.id \in seen.ids /\ x.nullifier \in seen.nullifiers

\* What was paid or is eligible has been seen, and nothing eligible was paid
\* before: a receipt that repeats either is skipped.
ScanInv ==
    /\ \A x \in eligible : Remembered(x)
    /\ \A p \in paid : Remembered(p.item)
    /\ \A x, y \in eligible : x # y => Apart(x, y)
    /\ \A p, q \in paid : p # q => Apart(p.item, q.item)
    /\ phase = "receipts" => \A p \in paid, x \in eligible : Apart(p.item, x)

\* The committee starts empty, from enough operators, and grows by members that
\* carry weight until it is complete.
CommitteeInv ==
    /\ phase \in {"batches", "receipts", "draw", "done", "raised"}
    /\ phase \in {"batches", "receipts", "raised"} => selected = {}
    /\ selected \subseteq Positive
    /\ phase = "draw" => Cardinality(Positive) >= CommitteeSize
                         /\ Cardinality(selected) < CommitteeSize
    /\ phase = "done" /\ selected # {} => Cardinality(selected) = CommitteeSize

IInv == ScanInv /\ CommitteeInv

LEMMA InitInv == Init => IInv
  BY DEF Init, IInv, ScanInv, CommitteeInv

-----------------------------------------------------------------------------
\* A receipt that was not seen stands apart from everything remembered.
LEMMA ReadReceiptScan ==
    ASSUME ScanInv, NEW item \in Item, ReadReceipt(item)
    PROVE  ScanInv'
  <1>1. item.id \notin seen.ids /\ item.nullifier \notin seen.nullifiers
    BY DEF ReadReceipt, Seen
  <1>2. seen'.ids = seen.ids \cup {item.id}
        /\ seen'.nullifiers = seen.nullifiers \cup {item.nullifier}
    BY DEF ReadReceipt
  <1>3. eligible' \subseteq eligible \cup {item}
    BY DEF ReadReceipt
  <1>4. paid' = paid /\ phase = "receipts" /\ phase' = phase
    BY DEF ReadReceipt
  <1>5. \A x \in eligible : Apart(x, item) /\ Apart(item, x)
    BY <1>1 DEF ScanInv, Remembered, Apart
  <1>6. \A p \in paid : Apart(p.item, item)
    BY <1>1 DEF ScanInv, Remembered, Apart
  <1>7. (\A x \in eligible : Remembered(x))'
    BY <1>2, <1>3 DEF ScanInv, Remembered
  <1>8. (\A p \in paid : Remembered(p.item))'
    BY <1>2, <1>4 DEF ScanInv, Remembered
  <1>9. (\A x, y \in eligible : x # y => Apart(x, y))'
    BY <1>3, <1>5 DEF ScanInv, Apart
  <1>10. (\A p, q \in paid : p # q => Apart(p.item, q.item))'
    BY <1>4 DEF ScanInv, Apart
  <1>11. (\A p \in paid, x \in eligible : Apart(p.item, x))'
    BY <1>3, <1>4, <1>6 DEF ScanInv, Apart
  <1> QED
    BY <1>7, <1>8, <1>9, <1>10, <1>11 DEF ScanInv

\* Each eligible receipt gets one entry, apart from all that was paid before.
LEMMA AllocateScan ==
    ASSUME ScanInv, Allocate
    PROVE  ScanInv'
  <1> DEFINE Entry(x) == [item |-> x, batch |-> batch, position |-> count,
                          share |-> Share(x)]
  <1>1. paid' = paid \cup {Entry(x) : x \in eligible}
    BY DEF Allocate
  <1>2. phase = "receipts" /\ phase' = "batches" /\ eligible' = eligible /\ seen' = seen
    BY DEF Allocate
  <1>3. \A x \in eligible : Entry(x).item = x
    OBVIOUS
  <1> HIDE DEF Entry
  <1>4. \A p \in paid' : p \in paid \/ \E x \in eligible : p = Entry(x) /\ p.item = x
    BY <1>1, <1>3
  <1>5. (\A p \in paid : Remembered(p.item))'
    BY <1>2, <1>4 DEF ScanInv, Remembered
  <1>6. \A p, q \in paid' : p # q => Apart(p.item, q.item)
    <2> SUFFICES ASSUME NEW p \in paid', NEW q \in paid', p # q
                 PROVE  Apart(p.item, q.item)
      OBVIOUS
    <2>1. CASE p \in paid /\ q \in paid
      BY <2>1 DEF ScanInv
    <2>2. CASE p \in paid /\ q \notin paid
      BY <2>2, <1>2, <1>4 DEF ScanInv
    <2>3. CASE p \notin paid /\ q \in paid
      BY <2>3, <1>2, <1>4 DEF ScanInv, Apart
    <2>4. CASE p \notin paid /\ q \notin paid
      <3>1. PICK x \in eligible : p = Entry(x) /\ p.item = x
        BY <2>4, <1>4
      <3>2. PICK y \in eligible : q = Entry(y) /\ q.item = y
        BY <2>4, <1>4
      <3>3. x # y
        BY <3>1, <3>2
      <3> QED
        BY <3>1, <3>2, <3>3 DEF ScanInv
    <2> QED
      BY <2>1, <2>2, <2>3, <2>4
  <1>7. (\A p, q \in paid : p # q => Apart(p.item, q.item))'
    BY <1>6 DEF Apart
  <1>8. (\A x \in eligible : Remembered(x))' /\ (\A x, y \in eligible : x # y => Apart(x, y))'
    BY <1>2 DEF ScanInv, Remembered, Apart
  <1> QED
    BY <1>2, <1>5, <1>7, <1>8 DEF ScanInv

\* Steps that touch neither what is paid nor what is seen, and drop receipts at most.
LEMMA OtherStepsScan ==
    ASSUME ScanInv, UNCHANGED <<seen, paid>>,
           \/ eligible' = {}
           \/ eligible' = eligible /\ (phase' = "receipts" => phase = "receipts")
    PROVE  ScanInv'
  BY DEF ScanInv, Remembered, Apart

-----------------------------------------------------------------------------
LEMMA PositiveFinite ==
    /\ IsFiniteSet(Positive)
    /\ \A group \in SUBSET Positive : IsFiniteSet(group) /\ Cardinality(group) \in Nat
  <1>1. Positive \in SUBSET Operators
    BY DEF Positive
  <1>2. IsFiniteSet(Positive)
    BY <1>1, WeightAssumption, FS_Subset
  <1>3. \A group \in SUBSET Positive : IsFiniteSet(group) /\ Cardinality(group) \in Nat
    BY <1>2, FS_Subset, FS_CardinalityType
  <1> QED
    BY <1>2, <1>3

LEMMA DrawCommittee ==
    ASSUME CommitteeInv, NEW o \in Operators, NEW roll \in Rolls, Draw(o, roll)
    PROVE  CommitteeInv'
  <1>1. phase = "draw" /\ o \in Remaining /\ selected' = selected \cup {o}
        /\ phase' \in {"draw", "done"}
        /\ (phase' = "done" <=> Cardinality(selected') = CommitteeSize)
    BY DEF Draw
  <1>2. Positive' = Positive
    BY DEF Draw, Positive, Weight
  <1>3. selected \in SUBSET Positive /\ o \in Positive /\ o \notin selected
    BY <1>1 DEF CommitteeInv, Remaining
  <1>4. IsFiniteSet(selected) /\ Cardinality(selected) \in Nat
    BY <1>3, PositiveFinite
  <1>5. Cardinality(selected') = Cardinality(selected) + 1
    BY <1>1, <1>3, <1>4, FS_AddElement
  <1>6. Cardinality(Positive) >= CommitteeSize /\ Cardinality(selected) < CommitteeSize
    BY <1>1 DEF CommitteeInv
  <1>7. phase' = "draw" => Cardinality(selected') < CommitteeSize
    BY <1>1, <1>4, <1>5, <1>6, WeightAssumption
  <1>8. selected' \subseteq Positive'
    BY <1>1, <1>2, <1>3
  <1>9. (phase = "draw" => Cardinality(Positive) >= CommitteeSize
                          /\ Cardinality(selected) < CommitteeSize)'
    BY <1>2, <1>6, <1>7
  <1> QED
    BY <1>1, <1>8, <1>9 DEF CommitteeInv

LEMMA WeighCommittee ==
    ASSUME CommitteeInv, Weigh
    PROVE  CommitteeInv'
  <1>1. selected = {} /\ selected' = selected /\ Positive' = Positive
    BY DEF CommitteeInv, Weigh, Positive, Weight
  <1>2. Cardinality(selected') < CommitteeSize
    BY <1>1, FS_EmptySet, WeightAssumption
  <1>3. CASE MaySample
    <2>1. phase' = "draw" /\ Cardinality(Positive) >= CommitteeSize
      BY <1>3 DEF Weigh, MaySample, Enough
    <2> QED
      BY <1>1, <1>2, <2>1 DEF CommitteeInv
  <1>4. CASE ~MaySample
    <2>1. phase' = "done"
      BY <1>4 DEF Weigh
    <2> QED
      BY <1>1, <2>1 DEF CommitteeInv
  <1> QED
    BY <1>3, <1>4

\* While batches are read no committee exists, so credit may change.
LEMMA ReadingCommittee ==
    ASSUME CommitteeInv, phase \in {"batches", "receipts"}, selected' = selected,
           phase' \in {"batches", "receipts", "raised"}
    PROVE  CommitteeInv'
  BY DEF CommitteeInv

-----------------------------------------------------------------------------
LEMMA NextInv == IInv /\ [Next]_vars => IInv'
  <1> SUFFICES ASSUME IInv, [Next]_vars
               PROVE  IInv'
    OBVIOUS
  <1> USE DEF IInv
  <1>1. CASE \E b \in Batch : TakeBatch(b)
    BY <1>1, OtherStepsScan, ReadingCommittee DEF TakeBatch
  <1>2. CASE \E item \in Item : ReadReceipt(item)
    <2>1. PICK item \in Item : ReadReceipt(item)
      BY <1>2
    <2>2. CommitteeInv'
      BY <2>1, ReadingCommittee DEF ReadReceipt
    <2> QED
      BY <2>1, <2>2, ReadReceiptScan
  <1>3. CASE \E item \in Item : SkipReceipt(item)
    BY <1>3, OtherStepsScan, ReadingCommittee DEF SkipReceipt
  <1>4. CASE SkipBatch
    BY <1>4, OtherStepsScan, ReadingCommittee DEF SkipBatch
  <1>5. CASE Allocate
    <2>1. CommitteeInv'
      BY <1>5, ReadingCommittee DEF Allocate
    <2> QED
      BY <1>5, <2>1, AllocateScan
  <1>6. CASE AllocationRaises
    BY <1>6, OtherStepsScan, ReadingCommittee DEF AllocationRaises
  <1>7. CASE Weigh
    <2>1. ScanInv'
      BY <1>7, OtherStepsScan DEF Weigh
    <2> QED
      BY <1>7, <2>1, WeighCommittee
  <1>8. CASE \E o \in Operators : \E roll \in Rolls : Draw(o, roll)
    <2>1. PICK o \in Operators, roll \in Rolls : Draw(o, roll)
      BY <1>8
    <2>2. ScanInv'
      BY <2>1, OtherStepsScan DEF Draw
    <2> QED
      BY <2>1, <2>2, DrawCommittee
  <1>9. CASE UNCHANGED vars
    <2>1. Positive' = Positive
      BY <1>9 DEF vars, Positive, Weight
    <2>2. CommitteeInv'
      BY <1>9, <2>1 DEF vars, CommitteeInv
    <2> QED
      BY <1>9, <2>2, OtherStepsScan DEF vars
  <1> QED
    BY <1>1, <1>2, <1>3, <1>4, <1>5, <1>6, <1>7, <1>8, <1>9 DEF Next

\* The inductive invariant holds in every state of the derivation.
THEOREM Invariance == Spec => []IInv
  BY InitInv, NextInv, PTL DEF Spec

\* No receipt and no nullifier is paid twice (derive_operator_weights' seen sets),
\* however often batches repeat them.
THEOREM ReceiptsPaidOnce == Spec => []PaidOnce
  <1>1. IInv => PaidOnce
    BY DEF IInv, ScanInv, Apart, PaidOnce
  <1> QED
    BY <1>1, Invariance, PTL

\* A sampling disposition is kept: enough operators with weight remain until the
\* committee is complete, and nobody else is drawn (run_committee_scenario).
THEOREM CommitteesAreSound == Spec => []CommitteeSound
  <1>1. IInv => CommitteeSound
    <2> SUFFICES ASSUME IInv
                 PROVE  CommitteeSound
      OBVIOUS
    <2>1. selected \in SUBSET Positive
      BY DEF IInv, CommitteeInv
    <2>2. Positive \cap selected = selected
      BY <2>1
    <2>3. Cardinality(Remaining) = Cardinality(Positive) - Cardinality(selected)
      BY <2>2, PositiveFinite, FS_Difference DEF Remaining
    <2>4. Cardinality(selected) \in Nat /\ Cardinality(Positive) \in Nat
      BY <2>1, PositiveFinite
    <2>5. phase = "draw" => Cardinality(selected) < CommitteeSize
                            /\ Cardinality(selected) + Cardinality(Remaining) >= CommitteeSize
      BY <2>3, <2>4 DEF IInv, CommitteeInv
    <2> QED
      BY <2>1, <2>5 DEF IInv, CommitteeInv, CommitteeSound
  <1> QED
    BY <1>1, Invariance, PTL

-----------------------------------------------------------------------------
(***************************************************************************)
(* Types.  A scenario is finite, so are the receipts it pays.              *)
(***************************************************************************)
Finite == IsFiniteSet(eligible) /\ IsFiniteSet(paid)

InBatch == phase = "receipts" => batch \in Batch /\ count >= 1

TypeInv == TypeOK /\ Finite /\ InBatch

\* What was paid rests on matured receipts of tasks that credit, due in this epoch.
Earned ==
    /\ \A x \in eligible : x.matured /\ batch.credits
    /\ \A p \in paid : p.item.matured /\ p.batch.due /\ p.batch.credits

\* The batch being read has been paid nothing yet.
Positions ==
    \A p \in paid : p.position <= count /\ (phase = "receipts" => p.position < count)

OfPosition(k) == {p \in paid : p.position = k}

OfOperator(o) == {p \in paid : OperatorOf[p.item.worker] = o}

PositionSums ==
    \A p \in paid : SumOfShares(OfPosition(p.position)) = p.batch.budget

EvenShares ==
    \A p, q \in paid : q.position = p.position => q.share <= p.share + 1

OperatorSums == \A o \in Operators : credit[o] = SumOfShares(OfOperator(o))

PayInv == Earned /\ Positions /\ PositionSums /\ EvenShares /\ OperatorSums

CreditInv == TypeInv /\ PayInv

-----------------------------------------------------------------------------
\* Sums of shares add up like sums.
LEMMA SharesOfUnion ==
    ASSUME NEW P, NEW Q, IsFiniteSet(P), IsFiniteSet(Q), P \cap Q = {},
           \A p \in P \cup Q : p.share \in Nat
    PROVE  SumOfShares(P \cup Q) = SumOfShares(P) + SumOfShares(Q)
  <1> DEFINE f == [p \in P \cup Q |-> p.share]
  <1>1. /\ \A p \in P : f[p] = [q \in P |-> q.share][p]
        /\ \A p \in Q : f[p] = [q \in Q |-> q.share][p]
        /\ \A p \in P \cup Q : f[p] \in Int
    OBVIOUS
  <1>2. SumOfShares(P \cup Q) = SumFunctionOnSet(f, P \cup Q)
    BY DEF SumOfShares
  <1> HIDE DEF f
  <1>3. SumFunctionOnSet(f, P) = SumOfShares(P) /\ SumFunctionOnSet(f, Q) = SumOfShares(Q)
    BY <1>1, SumAgrees DEF SumOfShares
  <1> QED
    BY <1>1, <1>2, <1>3, SumOfUnion

\* The shares of the eligible receipts are even and add up to the budget.
LEMMA EligibleShares ==
    ASSUME TypeInv, ScanInv, phase = "receipts", eligible # {}
    PROVE  /\ \A x \in eligible : Share(x) \in Nat
           /\ \A x, y \in eligible : Share(y) <= Share(x) + 1
           /\ SumFunctionOnSet([item \in eligible |-> Share(item)], eligible) = batch.budget
           /\ batch.budget \in Nat
  <1> DEFINE n == Cardinality(eligible)
             base == batch.budget \div n
             left == batch.budget % n
             key == [x \in eligible |-> x.id]
             more == {x \in eligible : Rank(x) < left}
             shares == [item \in eligible |-> Share(item)]
  <1>1. IsFiniteSet(eligible) /\ n \in Nat /\ n # 0
    BY FS_CardinalityType, FS_EmptySet DEF TypeInv, Finite
  <1>2. batch.budget \in Nat
    BY WeightAssumption DEF TypeInv, InBatch, Batch
  <1>3. base \in Nat /\ left \in Nat /\ left < n /\ base * n + left = batch.budget
    BY <1>1, <1>2, DivisionParts
  <1>4. Cardinality(more) = left
    <2>1. key \in [eligible -> Nat]
      BY WeightAssumption DEF TypeInv, TypeOK, Item
    <2>2. \A x, y \in eligible : key[x] = key[y] => x = y
      BY DEF ScanInv, Apart
    <2>3. more = {x \in eligible : Cardinality({y \in eligible : key[y] < key[x]}) < left}
      BY DEF Rank
    <2> HIDE DEF key, more, left, n
    <2>4. left <= Cardinality(eligible)
      BY <1>1, <1>3 DEF n
    <2>5. Cardinality({x \in eligible : Cardinality({y \in eligible : key[y] < key[x]}) < left}) = left
      BY <1>1, <1>3, <2>1, <2>2, <2>4, FirstOfRank
    <2> QED
      BY <2>3, <2>5, Zenon
  <1>5. \A x \in eligible : /\ Share(x) = base + (IF x \in more THEN 1 ELSE 0)
                            /\ shares[x] = base + (IF x \in more THEN 1 ELSE 0)
    BY DEF Share
  <1>6. SumFunctionOnSet(shares, eligible) = base * n + Cardinality(eligible \cap more)
    <2>1. base \in Nat /\ IsFiniteSet(eligible)
      BY <1>1, <1>3
    <2>2. \A x \in eligible : shares[x] = base + (IF x \in more THEN 1 ELSE 0)
      BY <1>5
    <2> HIDE DEF base, more, shares, n
    <2>3. SumFunctionOnSet(shares, eligible) = base * Cardinality(eligible) + Cardinality(eligible \cap more)
      BY <2>1, <2>2, SumOfEvenShares
    <2> QED
      BY <2>3 DEF n
  <1>7. eligible \cap more = more
    OBVIOUS
  <1>8. SumFunctionOnSet(shares, eligible) = base * n + Cardinality(more)
    BY <1>6, <1>7, Zenon
  <1> HIDE DEF base, left, more, n
  <1>9. \A x \in eligible : Share(x) \in Nat
    BY <1>3, <1>5
  <1>10. \A x, y \in eligible : Share(y) <= Share(x) + 1
    BY <1>3, <1>5
  <1>11. SumFunctionOnSet(shares, eligible) = batch.budget
    BY <1>3, <1>4, <1>8
  <1> QED
    BY <1>2, <1>9, <1>10, <1>11

\* One entry of the allocation, for an eligible receipt.
Entry(x) == [item |-> x, batch |-> batch, position |-> count, share |-> Share(x)]

Entries == {Entry(x) : x \in eligible}

\* The entries of an allocation are new and add up to the budget.
LEMMA NewEntries ==
    ASSUME TypeInv, ScanInv, Positions, phase = "receipts", eligible # {}
    PROVE  /\ IsFiniteSet(Entries) /\ Entries \cap paid = {}
           /\ SumOfShares(Entries) = batch.budget
           /\ \A p \in Entries : p.share \in Nat /\ p.position = count /\ p.batch = batch
                                 /\ p.item \in eligible
           /\ \A p, q \in Entries : q.share <= p.share + 1
  <1>1. \A x \in eligible : /\ Entry(x).item = x /\ Entry(x).batch = batch
                            /\ Entry(x).position = count /\ Entry(x).share = Share(x)
    BY DEF Entry
  <1>2. \A p \in Entries : \E x \in eligible : p = Entry(x)
    BY DEF Entries
  <1>3. /\ \A x \in eligible : Share(x) \in Nat
        /\ \A x, y \in eligible : Share(y) <= Share(x) + 1
        /\ SumFunctionOnSet([item \in eligible |-> Share(item)], eligible) = batch.budget
    BY EligibleShares
  <1>4. Entries \cap paid = {}
    <2> SUFFICES ASSUME NEW p \in Entries, p \in paid PROVE FALSE
      OBVIOUS
    <2>1. p.position = count /\ p.position < count
      BY <1>1, <1>2 DEF Positions
    <2>2. count \in Nat
      BY WeightAssumption DEF TypeInv, TypeOK
    <2> QED
      BY <2>1, <2>2
  <1>5. IsFiniteSet(Entries) /\ SumOfShares(Entries) = batch.budget
    <2> DEFINE g == [x \in eligible |-> Entry(x)]
               f == [p \in Entries |-> p.share]
               h == [item \in eligible |-> Share(item)]
    <2>1. \A x, y \in eligible : g[x] = g[y] => x = y
      BY <1>1
    <2>2. \A x \in eligible : h[x] = f[g[x]] /\ h[x] \in Int
      BY <1>1, <1>3 DEF Entries
    <2>3. Entries = {g[x] : x \in eligible}
      BY DEF Entries
    <2>4. SumOfShares(Entries) = SumFunctionOnSet(f, Entries)
      BY DEF SumOfShares
    <2>5. IsFiniteSet(eligible)
      BY DEF TypeInv, Finite
    <2>6. SumFunctionOnSet(h, eligible) = batch.budget
      BY <1>3
    <2> HIDE DEF g, f, h
    <2>7. IsFiniteSet({g[x] : x \in eligible})
          /\ SumFunctionOnSet(f, {g[x] : x \in eligible}) = SumFunctionOnSet(h, eligible)
      BY <2>1, <2>2, <2>5, SumOfImage
    <2> QED
      BY <2>3, <2>4, <2>6, <2>7, Zenon
  <1>6. \A p \in Entries : p.share \in Nat /\ p.position = count /\ p.batch = batch
                           /\ p.item \in eligible
    BY <1>1, <1>2, <1>3
  <1>7. \A p, q \in Entries : q.share <= p.share + 1
    BY <1>1, <1>2, <1>3
  <1> QED
    BY <1>4, <1>5, <1>6, <1>7

-----------------------------------------------------------------------------
\* An allocation pays the budget to the operator of the batch's worker.
LEMMA Allocated ==
    ASSUME TypeInv, ScanInv, Positions, Allocate
    PROVE  /\ phase = "receipts" /\ eligible # {} /\ Allocatable
           /\ paid' = paid \cup Entries
           /\ credit' = [credit EXCEPT ![OperatorOf[batch.worker]] = @ + batch.budget]
           /\ OperatorOf[batch.worker] \in Operators /\ batch.budget \in Nat
           /\ batch \in Batch /\ count \in 1..MaxBatches
           /\ phase' = "batches" /\ count' = count /\ batch' = batch /\ eligible' = eligible
  <1>1. /\ phase = "receipts" /\ eligible # {} /\ Allocatable
        /\ phase' = "batches" /\ count' = count /\ batch' = batch /\ eligible' = eligible
    BY DEF Allocate
  <1>2. paid' = paid \cup Entries
    BY DEF Allocate, Entries, Entry
  <1>3. batch \in Batch /\ count \in 1..MaxBatches
    BY <1>1, WeightAssumption DEF TypeInv, TypeOK, InBatch
  <1>4. OperatorOf[batch.worker] \in Operators
    BY <1>1, <1>3, WeightAssumption DEF Allocatable, Batch
  <1>5. SumFunction([item \in eligible |-> Share(item)]) = batch.budget /\ batch.budget \in Nat
    BY <1>1, EligibleShares DEF SumFunction
  <1>6. credit' = [credit EXCEPT ![OperatorOf[batch.worker]] =
                      @ + SumFunction([item \in eligible |-> Share(item)])]
    BY DEF Allocate
  <1>7. credit' = [credit EXCEPT ![OperatorOf[batch.worker]] = @ + batch.budget]
    BY <1>5, <1>6, Zenon
  <1> QED
    BY <1>1, <1>2, <1>3, <1>4, <1>5, <1>7

LEMMA TypeInitial == Init => TypeInv
  <1> SUFFICES ASSUME Init PROVE TypeInv
    OBVIOUS
  <1> USE DEF Init
  <1>1. TypeOK
    BY WeightAssumption DEF TypeOK
  <1>2. Finite /\ InBatch
    BY FS_EmptySet DEF Finite, InBatch
  <1> QED
    BY <1>1, <1>2 DEF TypeInv

LEMMA TypeStep == TypeInv /\ ScanInv /\ Positions /\ [Next]_vars => TypeInv'
  <1> SUFFICES ASSUME TypeInv, ScanInv, Positions, [Next]_vars PROVE TypeInv'
    OBVIOUS
  <1> USE DEF TypeInv, TypeOK, Finite, InBatch
  <1>1. ASSUME NEW b \in Batch, TakeBatch(b) PROVE TypeInv'
    BY <1>1, WeightAssumption, FS_EmptySet DEF TakeBatch
  <1>2. ASSUME NEW item \in Item, ReadReceipt(item) PROVE TypeInv'
    <2>1. eligible' = eligible \/ eligible' = eligible \cup {item}
      BY <1>2 DEF ReadReceipt
    <2>2. eligible' \subseteq Item /\ IsFiniteSet(eligible')
      BY <2>1, FS_AddElement
    <2>3. item.id \in ReceiptIds /\ item.nullifier \in Nullifiers
      BY DEF Item
    <2>4. seen' \in [ids : SUBSET ReceiptIds, nullifiers : SUBSET Nullifiers]
      <3>1. seen.ids \subseteq ReceiptIds /\ seen.nullifiers \subseteq Nullifiers
        OBVIOUS
      <3>2. seen' = [ids |-> seen.ids \cup {item.id},
                     nullifiers |-> seen.nullifiers \cup {item.nullifier}]
        BY <1>2 DEF ReadReceipt
      <3> QED
        BY <2>3, <3>1, <3>2
    <2> QED
      BY <1>2, <2>2, <2>3, <2>4 DEF ReadReceipt
  <1>3. ASSUME NEW item \in Item, SkipReceipt(item) PROVE TypeInv'
    BY <1>3 DEF SkipReceipt, Item
  <1>4. CASE SkipBatch
    BY <1>4 DEF SkipBatch
  <1>5. CASE Allocate
    <2>1. /\ phase' = "batches" /\ count' = count /\ batch' = batch /\ eligible' = eligible
          /\ last' = last /\ seen' = seen /\ selected' = selected
      BY <1>5 DEF Allocate
    <2>2. credit' \in [Operators -> Nat]
      BY <1>5, Allocated
    <2>3. IsFiniteSet(paid')
      <3>1. paid' = paid \cup Entries /\ IsFiniteSet(Entries)
        BY <1>5, Allocated, NewEntries
      <3> QED
        BY <3>1, FS_Union
    <2>4. paid' \subseteq [item : Item, batch : Batch, position : 1..MaxBatches, share : Nat]
      <3>1. Entries \subseteq [item : Item, batch : Batch, position : 1..MaxBatches, share : Nat]
        BY <1>5, Allocated, EligibleShares DEF Entries, Entry
      <3> QED
        BY <1>5, <3>1, Allocated
    <2> QED
      BY <2>1, <2>2, <2>3, <2>4
  <1>6. CASE AllocationRaises
    BY <1>6 DEF AllocationRaises
  <1>7. CASE Weigh
    BY <1>7 DEF Weigh
  <1>8. ASSUME NEW o \in Operators, NEW roll \in Rolls, Draw(o, roll) PROVE TypeInv'
    BY <1>8 DEF Draw
  <1>9. CASE UNCHANGED vars
    BY <1>9 DEF vars
  <1> QED
    BY <1>1, <1>2, <1>3, <1>4, <1>5, <1>6, <1>7, <1>8, <1>9 DEF Next

-----------------------------------------------------------------------------
\* Steps that pay nothing.
LEMMA PayUntouched ==
    ASSUME PayInv, UNCHANGED <<paid, credit>>, Earned', Positions'
    PROVE  PayInv'
  <1>1. \A k : OfPosition(k)' = OfPosition(k)
    BY DEF OfPosition
  <1>2. \A o : OfOperator(o)' = OfOperator(o)
    BY DEF OfOperator
  <1>3. PositionSums'
    BY <1>1 DEF PayInv, PositionSums, OfPosition, SumOfShares
  <1>4. OperatorSums'
    BY <1>2 DEF PayInv, OperatorSums, OfOperator, SumOfShares
  <1>5. EvenShares'
    BY DEF PayInv, EvenShares
  <1> QED
    BY <1>3, <1>4, <1>5 DEF PayInv

LEMMA PayAllocate ==
    ASSUME TypeInv, ScanInv, PayInv, Allocate
    PROVE  PayInv'
  <1> DEFINE op == OperatorOf[batch.worker]
             budget == batch.budget
  <1>1. /\ phase = "receipts" /\ eligible # {} /\ Allocatable
        /\ paid' = paid \cup Entries
        /\ credit' = [credit EXCEPT ![op] = @ + budget]
        /\ op \in Operators /\ budget \in Nat
        /\ count \in 1..MaxBatches
        /\ phase' = "batches" /\ count' = count /\ batch' = batch /\ eligible' = eligible
    BY Allocated DEF PayInv
  <1>2. /\ IsFiniteSet(Entries) /\ Entries \cap paid = {}
        /\ SumOfShares(Entries) = budget
        /\ \A p \in Entries : p.share \in Nat /\ p.position = count /\ p.batch = batch
                              /\ p.item \in eligible
        /\ \A p, q \in Entries : q.share <= p.share + 1
    BY <1>1, NewEntries DEF PayInv
  <1>3. /\ IsFiniteSet(paid) /\ \A p \in paid : p.share \in Nat /\ p.position \in Nat
        /\ credit \in [Operators -> Nat] /\ count \in Nat
    BY <1>1, WeightAssumption DEF TypeInv, TypeOK, Finite
  <1>4. \A p \in paid : p.position # count
    <2> SUFFICES ASSUME NEW p \in paid PROVE p.position # count
      OBVIOUS
    <2>1. p.position < count /\ p.position \in Nat
      BY <1>1, <1>3 DEF PayInv, Positions
    <2> QED
      BY <1>3, <2>1
  <1>5. Earned'
    BY <1>1, <1>2 DEF PayInv, Earned, Allocatable
  <1>6. Positions'
    BY <1>1, <1>2, <1>3 DEF PayInv, Positions
  <1>7. PositionSums'
    <2> SUFFICES ASSUME NEW p \in paid'
                 PROVE  SumOfShares({q \in paid' : q.position = p.position}) = p.batch.budget
      BY DEF PositionSums, OfPosition, SumOfShares
    <2>1. CASE p \in paid
      <3>1. {q \in paid' : q.position = p.position} = OfPosition(p.position)
        BY <1>1, <1>2, <1>4, <2>1 DEF OfPosition
      <3>2. SumOfShares(OfPosition(p.position)) = p.batch.budget
        BY <2>1 DEF PayInv, PositionSums
      <3> QED
        BY <3>1, <3>2, Zenon
    <2>2. CASE p \in Entries
      <3>1. {q \in paid' : q.position = p.position} = Entries
        BY <1>1, <1>2, <1>4, <2>2
      <3>2. p.batch.budget = budget
        BY <1>2, <2>2
      <3> QED
        BY <1>2, <3>1, <3>2, Zenon
    <2> QED
      BY <1>1, <2>1, <2>2
  <1>8. EvenShares'
    <2> SUFFICES ASSUME NEW p \in paid', NEW q \in paid', q.position = p.position
                 PROVE  q.share <= p.share + 1
      BY DEF EvenShares
    <2>1. CASE p \in paid /\ q \in paid
      BY <2>1 DEF PayInv, EvenShares
    <2>2. CASE p \in Entries /\ q \in Entries
      BY <1>2, <2>2
    <2> QED
      BY <1>1, <1>2, <1>4, <2>1, <2>2
  <1>9. OperatorSums'
    <2> SUFFICES ASSUME NEW o \in Operators
                 PROVE  credit'[o] = SumOfShares({p \in paid' : OperatorOf[p.item.worker] = o})
      BY DEF OperatorSums, OfOperator, SumOfShares
    <2>1. \A p \in Entries : OperatorOf[p.item.worker] = op
      BY <1>1, <1>2 DEF Allocatable
    <2>2. credit[o] = SumOfShares(OfOperator(o)) /\ credit[o] \in Nat
      BY <1>3 DEF PayInv, OperatorSums
    <2>3. CASE o = op
      <3>1. {p \in paid' : OperatorOf[p.item.worker] = o} = OfOperator(o) \cup Entries
        BY <1>1, <2>1, <2>3 DEF OfOperator
      <3>2. /\ IsFiniteSet(OfOperator(o)) /\ OfOperator(o) \cap Entries = {}
            /\ \A p \in OfOperator(o) \cup Entries : p.share \in Nat
        <4>1. OfOperator(o) \in SUBSET paid
          BY DEF OfOperator
        <4> QED
          BY <1>2, <1>3, <4>1, FS_Subset
      <3>3. SumOfShares(OfOperator(o) \cup Entries)
              = SumOfShares(OfOperator(o)) + SumOfShares(Entries)
        BY <1>2, <3>2, SharesOfUnion
      <3>4. SumOfShares({p \in paid' : OperatorOf[p.item.worker] = o}) = credit[o] + budget
        BY <1>2, <2>2, <3>1, <3>3, Zenon
      <3>5. credit'[o] = credit[o] + budget
        BY <1>1, <1>3, <2>3
      <3> QED
        BY <3>4, <3>5
    <2>4. CASE o # op
      <3>1. {p \in paid' : OperatorOf[p.item.worker] = o} = OfOperator(o)
        BY <1>1, <2>1, <2>4 DEF OfOperator
      <3>2. credit'[o] = credit[o]
        BY <1>1, <1>3, <2>4
      <3> QED
        BY <2>2, <3>1, <3>2, Zenon
    <2> QED
      BY <2>3, <2>4
  <1> QED
    BY <1>5, <1>6, <1>7, <1>8, <1>9 DEF PayInv

LEMMA PayInitial == Init => PayInv
  <1> SUFFICES ASSUME Init PROVE PayInv
    OBVIOUS
  <1> USE DEF Init
  <1>1. Earned /\ Positions /\ PositionSums /\ EvenShares
    BY DEF Earned, Positions, PositionSums, EvenShares
  <1>2. \A o \in Operators : OfOperator(o) = {}
    BY DEF OfOperator
  <1>3. OperatorSums
    BY <1>2, SumOfNone DEF OperatorSums, SumOfShares
  <1> QED
    BY <1>1, <1>3 DEF PayInv

LEMMA PayStep == TypeInv /\ ScanInv /\ PayInv /\ [Next]_vars => PayInv'
  <1> SUFFICES ASSUME TypeInv, ScanInv, PayInv, [Next]_vars PROVE PayInv'
    OBVIOUS
  <1>1. CASE Allocate
    BY <1>1, PayAllocate
  <1>2. ASSUME NEW b \in Batch, TakeBatch(b) PROVE PayInv'
    <2>1. paid' = paid /\ credit' = credit /\ eligible' = {} /\ count' = count + 1
      BY <1>2 DEF TakeBatch
    <2>2. Earned'
      BY <2>1 DEF Earned, PayInv
    <2>3. \A p \in paid : p.position \in Nat /\ p.position <= count /\ count \in Nat
      BY WeightAssumption DEF PayInv, Positions, TypeInv, TypeOK
    <2>4. Positions'
      BY <2>1, <2>3 DEF Positions
    <2> QED
      BY <2>1, <2>2, <2>4, PayUntouched
  <1>3. ASSUME NEW item \in Item, ReadReceipt(item) PROVE PayInv'
    <2>1. /\ paid' = paid /\ credit' = credit /\ count' = count /\ phase' = phase /\ batch' = batch
          /\ eligible' = IF Eligible(item) THEN eligible \cup {item} ELSE eligible
      BY <1>3 DEF ReadReceipt
    <2>2. Earned' /\ Positions'
      BY <2>1 DEF Earned, Positions, PayInv, Eligible
    <2> QED
      BY <2>1, <2>2, PayUntouched
  <1>4. ASSUME UNCHANGED <<paid, credit, count, batch, eligible>>,
               phase' = "receipts" => phase = "receipts"
        PROVE  PayInv'
    <2>1. Earned' /\ Positions'
      BY <1>4 DEF Earned, Positions, PayInv
    <2> QED
      BY <1>4, <2>1, PayUntouched
  <1>5. ASSUME NEW item \in Item, SkipReceipt(item) PROVE PayInv'
    BY <1>4, <1>5 DEF SkipReceipt
  <1>6. CASE SkipBatch \/ AllocationRaises \/ Weigh
    BY <1>4, <1>6 DEF SkipBatch, AllocationRaises, Weigh
  <1>7. ASSUME NEW o \in Operators, NEW roll \in Rolls, Draw(o, roll) PROVE PayInv'
    BY <1>4, <1>7 DEF Draw
  <1>8. CASE UNCHANGED vars
    BY <1>4, <1>8 DEF vars
  <1> QED
    BY <1>1, <1>2, <1>3, <1>5, <1>6, <1>7, <1>8 DEF Next

LEMMA CreditInvariant == Spec => []CreditInv
  <1>1. Init => CreditInv
    BY TypeInitial, PayInitial DEF CreditInv
  <1>2. IInv /\ CreditInv /\ [Next]_vars => CreditInv'
    BY TypeStep, PayStep DEF CreditInv, IInv, PayInv
  <1> QED
    BY <1>1, <1>2, Invariance, PTL DEF Spec

\* The state of the derivation stays within its types: no share, credit or position
\* outside the numbers the code computes with.
THEOREM TypesHold == Spec => []TypeOK
  <1>1. CreditInv => TypeOK
    BY DEF CreditInv, TypeInv
  <1> QED
    BY <1>1, CreditInvariant, PTL

\* allocate_credit conserves credit for every budget and number of receipts: the shares
\* of a batch add up to its budget, evenly, and an operator's credit is the sum of the
\* shares of its workers' receipts.
THEOREM CreditIsConserved == Spec => []CreditConserved
  <1>1. CreditInv => CreditConserved
    BY DEF CreditInv, PayInv, PositionSums, EvenShares, OperatorSums, OfPosition, OfOperator,
       CreditConserved
  <1> QED
    BY <1>1, CreditInvariant, PTL

\* derive_active_weight gives no authority that matured receipts of due consensus tasks
\* did not earn, whatever the collateral and the cap.
THEOREM AuthorityIsEarned == Spec => []AuthorityEarned
  <1>1. CreditInv => AuthorityEarned
    <2> SUFFICES ASSUME CreditInv, NEW o \in Operators
                 PROVE  Weight(o) <= SumOfShares({p \in paid :
                            /\ OperatorOf[p.item.worker] = o
                            /\ p.item.matured /\ p.batch.due /\ p.batch.credits})
      BY DEF AuthorityEarned
    <2>1. {p \in paid : /\ OperatorOf[p.item.worker] = o
                        /\ p.item.matured /\ p.batch.due /\ p.batch.credits} = OfOperator(o)
      BY DEF CreditInv, PayInv, Earned, OfOperator
    <2>2. credit[o] = SumOfShares(OfOperator(o)) /\ credit[o] \in Nat
      BY DEF CreditInv, PayInv, OperatorSums, TypeInv, TypeOK
    <2>3. Weight(o) <= credit[o]
      <3> DEFINE bound == Collateral[o] \div Beta
      <3>1. bound \in Nat /\ Cap \in Nat
        BY WeightAssumption
      <3> HIDE DEF bound
      <3> QED
        BY <2>2, <3>1 DEF Weight, Lesser, bound
    <2> QED
      BY <2>1, <2>2, <2>3, Zenon
  <1> QED
    BY <1>1, CreditInvariant, PTL

-----------------------------------------------------------------------------
(***************************************************************************)
(* The draw.  The rolls that choose an operator are an interval as long as *)
(* its weight: those from the weight before it to the weight up to it.     *)
(***************************************************************************)
WeightOf == [o \in Operators |-> Weight(o)]

\* The remaining operators before o in the sort order.
Earlier(o) == {other \in Remaining : other < o}

LEMMA RemainingNumbered ==
    /\ \A o \in Remaining : o \in Nat /\ o \in Operators
    /\ \A o : Earlier(o) \in SUBSET Remaining /\ IsFiniteSet(Earlier(o))
  <1>1. Remaining \in SUBSET Operators
    BY DEF Remaining, Positive
  <1>2. \A o : Earlier(o) \in SUBSET Remaining
    BY DEF Earlier
  <1>3. \A T \in SUBSET Operators : IsFiniteSet(T)
    BY WeightAssumption, FS_Subset
  <1> QED
    BY <1>1, <1>2, <1>3, WeightAssumption

LEMMA WeightsAreNat == TypeOK => WeightOf \in [Operators -> Nat]
  <1> SUFFICES ASSUME TypeOK, NEW o \in Operators PROVE Weight(o) \in Nat
    BY DEF WeightOf
  <1> DEFINE bound == Collateral[o] \div Beta
  <1>1. bound \in Nat /\ Cap \in Nat /\ credit[o] \in Nat
    BY WeightAssumption DEF TypeOK
  <1> HIDE DEF bound
  <1> QED
    BY <1>1 DEF Weight, Lesser, bound

LEMMA GroupWeight ==
    ASSUME TypeOK, NEW T \in SUBSET Remaining, NEW U \in SUBSET T
    PROVE  TotalOf(T) \in Nat /\ TotalOf(U) \in Nat /\ TotalOf(U) <= TotalOf(T)
  <1>1. IsFiniteSet(T) /\ IsFiniteSet(U) /\ T \subseteq Operators
    BY WeightAssumption, FS_Subset DEF Remaining, Positive
  <1>2. /\ \A o \in T : WeightOf[o] \in Nat
        /\ \A o \in U : WeightOf[o] \in Nat
    BY <1>1, WeightsAreNat
  <1> QED
    BY <1>1, <1>2, SumIsNat, SumOfPart DEF TotalOf, WeightOf

\* The cumulative weight at an operator is the weight before it and its own.
LEMMA UpToSplits ==
    ASSUME TypeOK, NEW o \in Remaining
    PROVE  /\ UpTo(o) = TotalOf(Earlier(o)) + Weight(o)
           /\ TotalOf(Earlier(o)) \in Nat /\ Weight(o) \in Nat
           /\ UpTo(o) <= TotalOf(Remaining) /\ TotalOf(Remaining) \in Nat
  <1>1. o \in Operators /\ o \in Nat /\ Remaining \subseteq Operators /\ Operators \subseteq Nat
    BY WeightAssumption DEF Remaining, Positive
  <1>2. {other \in Remaining : other <= o} = Earlier(o) \cup {o} /\ o \notin Earlier(o)
    <2>1. \A other \in Remaining : other <= o <=> other < o \/ other = o
      BY <1>1, RemainingNumbered
    <2>2. o \notin Earlier(o)
      BY <1>1 DEF Earlier
    <2>3. \A other : other \in Earlier(o) <=> other \in Remaining /\ other < o
      BY DEF Earlier
    <2> HIDE DEF Earlier
    <2> QED
      BY <2>1, <2>2, <2>3
  <1>3. IsFiniteSet(Earlier(o)) /\ \A other \in Earlier(o) \cup {o} : WeightOf[other] \in Int
    <2>1. \A other \in Operators : WeightOf[other] \in Int
      BY WeightsAreNat
    <2> QED
      BY <1>1, <2>1, RemainingNumbered
  <1>4. SumFunctionOnSet(WeightOf, Earlier(o) \cup {o})
          = SumFunctionOnSet(WeightOf, Earlier(o)) + WeightOf[o]
    BY <1>2, <1>3, SumOfOneMore
  <1>5. UpTo(o) = SumFunctionOnSet(WeightOf, Earlier(o) \cup {o})
    BY <1>2, Zenon DEF UpTo, TotalOf, WeightOf
  <1>6. WeightOf[o] = Weight(o) /\ WeightOf[o] \in Nat
    BY <1>1, WeightsAreNat DEF WeightOf
  <1>7. UpTo(o) = TotalOf(Earlier(o)) + Weight(o)
    BY <1>4, <1>5, <1>6 DEF TotalOf, WeightOf
  <1>8. /\ TotalOf(Earlier(o)) \in Nat
        /\ TotalOf({other \in Remaining : other <= o}) <= TotalOf(Remaining)
        /\ TotalOf(Remaining) \in Nat
    BY GroupWeight DEF Earlier
  <1> QED
    BY <1>6, <1>7, <1>8 DEF UpTo

\* A roll passes every earlier operator when it is no less than their weight together.
LEMMA PassesEarlier ==
    ASSUME TypeOK, NEW o \in Remaining, NEW roll \in Nat
    PROVE  (\A other \in Remaining : other < o => roll >= UpTo(other))
             <=> roll >= TotalOf(Earlier(o))
  <1>1. Remaining \subseteq Nat /\ TotalOf(Earlier(o)) \in Nat
    BY WeightAssumption, UpToSplits DEF Remaining, Positive
  <1>2. ASSUME roll >= TotalOf(Earlier(o)), NEW other \in Remaining, other < o
        PROVE  roll >= UpTo(other)
    <2>1. {x \in Remaining : x <= other} \in SUBSET Earlier(o)
      <3>1. ASSUME NEW x \in Remaining, x <= other PROVE x < o
        <4>1. x \in Nat /\ other \in Nat /\ o \in Nat
          BY RemainingNumbered
        <4> QED
          BY <1>2, <3>1, <4>1
      <3> QED
        BY <3>1 DEF Earlier
    <2>2. UpTo(other) \in Nat /\ UpTo(other) <= TotalOf(Earlier(o))
      <3>1. Earlier(o) \in SUBSET Remaining
        BY DEF Earlier
      <3> QED
        BY <2>1, <3>1, GroupWeight DEF UpTo
    <2> QED
      BY <1>1, <1>2, <2>2
  <1>3. ASSUME \A other \in Remaining : other < o => roll >= UpTo(other)
        PROVE  roll >= TotalOf(Earlier(o))
    <2>1. CASE Earlier(o) = {}
      <3>1. TotalOf(Earlier(o)) = 0
        BY <2>1, SumOfNone DEF TotalOf
      <3> QED
        BY <3>1
    <2>2. CASE Earlier(o) # {}
      <3>1. Earlier(o) \in SUBSET Nat /\ IsFiniteSet(Earlier(o))
        BY RemainingNumbered
      <3>2. PICK m \in Earlier(o) : \A x \in Earlier(o) : x <= m
        BY <2>2, <3>1, GreatestMember
      <3>3. {x \in Remaining : x <= m} = Earlier(o)
        <4>1. m \in Remaining /\ m < o
          BY <3>2 DEF Earlier
        <4>2. ASSUME NEW x \in Remaining, x <= m PROVE x < o
          <5>1. x \in Nat /\ m \in Nat /\ o \in Nat
            BY <4>1, RemainingNumbered
          <5> QED
            BY <4>1, <4>2, <5>1
        <4>3. \A x \in Remaining : x < o => x <= m
          BY <3>2 DEF Earlier
        <4> QED
          BY <4>2, <4>3 DEF Earlier
      <3>4. UpTo(m) = TotalOf(Earlier(o))
        BY <3>3, Zenon DEF UpTo
      <3>5. roll >= UpTo(m)
        BY <1>3, <3>2 DEF Earlier
      <3> QED
        BY <3>4, <3>5
    <2> QED
      BY <2>1, <2>2
  <1> QED
    BY <1>2, <1>3

\* The draw of sample_committee is fair to the unit: of the equally likely rolls, as
\* many choose an operator as it has weight, whatever the weights and the draws before.
THEOREM DrawIsProportional == Spec => []DrawProportional
  <1>1. TypeOK => DrawProportional
    <2> SUFFICES ASSUME TypeOK, NEW o \in Remaining
                 PROVE  Cardinality({roll \in Rolls : Chosen(o, roll)}) = Weight(o)
      BY DEF DrawProportional
    <2> DEFINE before == TotalOf(Earlier(o))
               w == Weight(o)
    <2>1. /\ UpTo(o) = before + w /\ before \in Nat /\ w \in Nat
          /\ UpTo(o) <= TotalOf(Remaining) /\ TotalOf(Remaining) \in Nat
      BY UpToSplits
    <2>2. \A roll \in Rolls : Chosen(o, roll) <=> roll < UpTo(o) /\ roll >= before
      BY <2>1, PassesEarlier DEF Chosen, Rolls
    <2> HIDE DEF before, w
    <2>3. {roll \in Rolls : Chosen(o, roll)} = before..(before + w - 1)
      BY <2>1, <2>2 DEF Rolls
    <2>4. Cardinality(before..(before + w - 1)) = w
      BY <2>1, FS_Interval
    <2> QED
      BY <2>3, <2>4 DEF w
  <1> QED
    BY <1>1, TypesHold, PTL

=============================================================================
