---------------------------- MODULE CostMeasurement ----------------------------
(***************************************************************************)
(* Experiment E1, src/poi_mpp/experiments/e1_cost.py and reporting/e1.py:  *)
(* is one audited pass cheaper than running the model twice?  Warm-up and  *)
(* measured pairs time three variants one after the other on a machine     *)
(* that gets faster as it warms and never slower, which is an assumption   *)
(* about the machine; the rows are summarised, and a record of the verdict *)
(* may be frozen.  Times are small integers.                               *)
(***************************************************************************)
EXTENDS Integers, Sequences, FiniteSets, Functions

CONSTANTS
    Speeds,         \* times one run of the model may take, the machine only gets faster
    LoadTime,       \* of the model, in its first run
    Overheads,      \* bound: time of the protocol's part of a single pass
    Pairs,          \* run_config.data_availability.samples
    Resamples,      \* of that many pairs, what the bootstrap's generator draws from its seed
    FixtureTimes    \* what an injected clock may show between two calls

MinimumPairs == 2   \* MIN_E1_SUPPORTED_PAIRS
Iterations == 256   \* resamples
LowerRank == 7      \* of the bound among their means: index int(0.025 * 255), the first being 0

\* Every other pair of a counterbalanced design is measured in reverse.
Reversed(pair) == pair % 2 = 0

\* The draws of a resample cancel out: a pair in the plain order, which a warming machine
\* favours, goes with a later reversed one, a reversed pair with a reversed one.
CancelsOut(draws, warmups) ==
    \E mate \in Injection(1 .. Pairs, 1 .. Pairs) :
        \A k \in 1 .. Pairs :
            LET p == warmups + draws[k]
                q == warmups + draws[mate[k]]
            IN  (Reversed(p) \/ Reversed(q)) /\ (~Reversed(p) => p < q) /\ (~Reversed(q) => q < p)

ASSUME CostAssumption ==
    /\ Speeds \subseteq Nat \ {0} /\ Speeds # {} /\ Overheads \subseteq Nat
    /\ LoadTime \in Nat /\ Pairs \in Nat \ {0} /\ FixtureTimes \subseteq Int

\* The draws depend on the number of pairs alone; those of random.Random(1) are so for 2
\* to 40 pairs (of 41, six resamples only cancel out).
ASSUME BootstrapAssumption ==
    /\ Resamples \in [1 .. Iterations -> [1 .. Pairs -> 1 .. Pairs]]
    /\ Pairs >= MinimumPairs =>
          \A warmups \in {0, 1} :
              Cardinality({i \in 1 .. Iterations : CancelsOut(Resamples[i], warmups)}) >= LowerRank

Designs == {"FIXED_ORDER_PILOT", "COUNTERBALANCED_PAIRED"}

VARIABLES
    setup,      \* what the caller chose
    machine,    \* time of a run now, and whether the model is loaded
    rows,       \* E1MeasurementRow, warm-up rows first
    verdict     \* Unsettled, Raised, or the summary and what became of its record

costVars == <<setup, machine, rows, verdict>>

Unsettled == [is |-> "unsettled"]
Raised == [is |-> "raised"]

CostInit ==
    /\ setup \in [design : Designs, origin : {"REAL_MODEL_EXECUTION", "SYNTHETIC_NON_EVIDENCE"}, injected : BOOLEAN,
                  bundle : {"none", "clean", "blocked"}, authorized : BOOLEAN, registry : BOOLEAN,
                  warmups : {0, 1}, overhead : Overheads]
    /\ machine \in [time : Speeds, loaded : {FALSE}]
    /\ rows = <<>> /\ verdict = Unsettled

-----------------------------------------------------------------------------
(* Measuring *)

\* run_e1_cost_experiment always measures in one order; rows of a counterbalanced
\* design come from elsewhere and reverse it in every other pair.
Order(pair) ==
    IF setup.design = "COUNTERBALANCED_PAIRED" /\ Reversed(pair)
    THEN <<"NATIVE_SINGLE", "MPP_SINGLE_PASS", "TWO_RUN_BASELINE">>
    ELSE <<"NATIVE_SINGLE", "TWO_RUN_BASELINE", "MPP_SINGLE_PASS">>

AllPairs == setup.warmups + Pairs
NextPair == (Len(rows) \div 3) + 1
NextVariant == Order(NextPair)[(Len(rows) % 3) + 1]

\* A run of the model, the machine being as fast as it was or faster.
RunTimes == {t \in Speeds : t <= machine.time}
Loading == IF machine.loaded THEN 0 ELSE LoadTime

\* Runs within one pair of clock readings: two of the baseline, one of the others;
\* the single pass activates its receipt before the clock is read again.
Timed(variant, first, second) ==
    Loading + (IF variant = "TWO_RUN_BASELINE" THEN first + second ELSE first)
        + (IF variant = "MPP_SINGLE_PASS" THEN setup.overhead ELSE 0)

\* A row of a fixture clock is synthetic; time never runs backwards.
Acceptable(time) ==
    /\ time >= 0
    /\ setup.injected => setup.origin = "SYNTHETIC_NON_EVIDENCE"
    /\ setup.origin = "REAL_MODEL_EXECUTION" => ~setup.injected /\ time > 0

Measure ==
    /\ verdict = Unsettled /\ Len(rows) < 3 * AllPairs
    /\ \E first \in RunTimes : \E second \in {t \in RunTimes : t <= first} :
          /\ NextVariant # "TWO_RUN_BASELINE" => second = first
          /\ machine' = [time |-> second, loaded |-> TRUE]
          /\ \E time \in (IF setup.injected THEN FixtureTimes ELSE {Timed(NextVariant, first, second)}) :
                IF Acceptable(time)
                THEN /\ rows' = Append(rows, [pair |-> NextPair, variant |-> NextVariant, time |-> time,
                                              warmup |-> NextPair <= setup.warmups])
                     /\ UNCHANGED verdict
                ELSE verdict' = Raised /\ UNCHANGED rows
    /\ UNCHANGED setup

-----------------------------------------------------------------------------
(* Summary and record *)

Measured == {r \in {rows[i] : i \in DOMAIN rows} : ~r.warmup}
TimeOf(pair, variant) == (CHOOSE r \in Measured : r.pair = pair /\ r.variant = variant).time
PairsMeasured == {r.pair : r \in Measured}
Delta == [k \in 1 .. Pairs |-> TimeOf(setup.warmups + k, "TWO_RUN_BASELINE")
                                - TimeOf(setup.warmups + k, "MPP_SINGLE_PASS")]

\* _bootstrap_interval: a resample's mean is as positive as its sum, and the bound is
\* positive when fewer means than its rank are not.
Resampled(draws, delta) == SumFunctionOnSet([k \in 1 .. Pairs |-> delta[draws[k]]], 1 .. Pairs)
LowerBoundPositive ==
    LET delta == Delta
        down == {draws \in Range(Resamples) : Resampled(draws, delta) <= 0}
    IN  Cardinality({i \in 1 .. Iterations : Resamples[i] \in down}) < LowerRank

StatisticallyPositive == Cardinality(PairsMeasured) >= MinimumPairs /\ LowerBoundPositive

\* Faulty variant: a pilot is judged as a counterbalanced design is.
ClaimUncapped == IF StatisticallyPositive THEN "SUPPORTED" ELSE "INCONCLUSIVE"

\* summarize_e1_rows
Claim ==
    IF setup.design # "FIXED_ORDER_PILOT" /\ StatisticallyPositive THEN "SUPPORTED" ELSE "INCONCLUSIVE"

\* _publication_precheck_reasons, _publication_record and the gate; the driver of
\* the real pilot refuses to begin without warm-up, bundle and authority.
Frozen ==
    /\ setup.bundle = "clean" /\ setup.authorized
    /\ setup.origin # "SYNTHETIC_NON_EVIDENCE"
    /\ setup.registry

Publish ==
    /\ verdict = Unsettled /\ Len(rows) = 3 * AllPairs
    /\ verdict' = [is |-> "summary", claim |-> Claim, frozen |-> Frozen]
    /\ UNCHANGED <<setup, machine, rows>>

CostNext == Measure \/ Publish

CostSpec == CostInit /\ [][CostNext]_costVars

-----------------------------------------------------------------------------
(* Property *)

\* On a machine that gets no slower, a single pass is called cheaper only when what the
\* protocol adds takes less than a run of the model did: warming between the baseline
\* and the pass after it, or the loading of the model, does not earn the claim; and only
\* what the external clock has measured of the real model is frozen.
CostClaimEarned ==
    verdict.is = "summary" =>
        /\ verdict.claim = "SUPPORTED" /\ ~setup.injected =>
              \E p \in PairsMeasured : 2 * setup.overhead < TimeOf(p, "TWO_RUN_BASELINE")
        /\ verdict.frozen => ~setup.injected /\ \A r \in Measured : r.time > 0
=============================================================================
