--------------------------- MODULE ClaimAdjudication ---------------------------
(***************************************************************************)
(* ClaimSpecV2 of src/poi_mpp/evidence/claim_spec.py: what the metrics of  *)
(* a publication say about a frozen claim.  A rule is a set of conditions  *)
(* on one metric each; operators and values are abstracted to integers.    *)
(***************************************************************************)
EXTENDS Integers

CONSTANTS
    MetricIds,
    MetricValues,       \* bound: estimates, interval ends and thresholds
    Denominators        \* bound: denominators and their minima

ASSUME ClaimAssumption == MetricValues \subseteq Int /\ Denominators \subseteq Nat \ {0}

ValueSources == {"POINT_ESTIMATE", "LOWER_CONFIDENCE_BOUND", "UPPER_CONFIDENCE_BOUND"}
Below == {"LT", "LE"}
Above == {"GT", "GE"}

ClaimConditions ==
    [metric : MetricIds, source : ValueSources, operator : Below \cup Above,
     threshold : MetricValues, minimum : Denominators]

Unobserved == [denominator |-> 0]
NoInterval == <<>>

\* ClaimMetricObservation: the interval is optional and ordered.
Observations ==
    {Unobserved} \cup
    [estimate : MetricValues, denominator : Denominators,
     interval : {NoInterval} \cup {i \in MetricValues \X MetricValues : i[1] <= i[2]}]

Compares(operator, x, y) ==
    CASE operator = "LT" -> x < y
      [] operator = "LE" -> x <= y
      [] operator = "GT" -> x > y
      [] operator = "GE" -> x >= y

Meets(condition, metrics) ==
    LET o == metrics[condition.metric] IN
    /\ o # Unobserved /\ o.denominator >= condition.minimum
    /\ IF condition.source = "POINT_ESTIMATE"
       THEN Compares(condition.operator, o.estimate, condition.threshold)
       ELSE /\ o.interval # NoInterval
            /\ LET end == IF condition.source = "LOWER_CONFIDENCE_BOUND" THEN 1 ELSE 2
               IN Compares(condition.operator, o.interval[end], condition.threshold)

Satisfies(rule, metrics) == \A c \in rule : Meets(c, metrics)

\* Faulty variant: bounds that meet in one value are taken for disjoint.
FeasibleStrictly(conditions) ==
    \A low, high \in conditions :
        /\ low.metric = high.metric /\ low.source = high.source
        /\ low.operator \in Above /\ high.operator \in Below
        => low.threshold < high.threshold

\* The bounds of each metric and source, gathered one condition at a time and
\* refused as soon as they cross: no lower condition lies beyond an upper one.
Feasible(conditions) ==
    \A low, high \in conditions :
        /\ low.metric = high.metric /\ low.source = high.source
        /\ low.operator \in Above /\ high.operator \in Below
        => \/ low.threshold < high.threshold
           \/ low.threshold = high.threshold /\ low.operator = "GE" /\ high.operator = "LE"

\* validate_rule_bindings.  The third rule may be any feasible one: adjudicate
\* answers INCONCLUSIVE whether it holds or not.
ValidClaim(claim) ==
    /\ claim.supported # {} /\ claim.refuted # {}
    /\ Feasible(claim.supported) /\ Feasible(claim.refuted)
    /\ ~Feasible(claim.supported \cup claim.refuted)

\* The statement must be the admissible wording and the origin an allowed one;
\* whatever raises leaves the claim inconclusive and names a failure.
Adjudicate(claim, metrics, wording, origin) ==
    LET supported == Satisfies(claim.supported, metrics)
        refuted == Satisfies(claim.refuted, metrics)
    IN [failure |->
            CASE wording # "ADMISSIBLE" -> "statement"
              [] origin # "REAL_MODEL_EXECUTION" -> "origin"
              [] supported /\ refuted -> "ambiguous"
              [] OTHER -> "none",
        disposition |->
            CASE wording # "ADMISSIBLE" \/ origin # "REAL_MODEL_EXECUTION" -> "INCONCLUSIVE"
              [] supported /\ ~refuted -> "SUPPORTED"
              [] refuted /\ ~supported -> "NOT_SUPPORTED"
              [] OTHER -> "INCONCLUSIVE"]
=============================================================================
