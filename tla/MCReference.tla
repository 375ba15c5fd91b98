----------------------------- MODULE MCReference -----------------------------
(* The receipt machine and the semantic verifier whose verdicts it records.  *)
(* They share no state: moving names the one that takes steps.               *)
EXTENDS ReferenceMachine, GroundedVerification, TLC
CONSTANTS r1, n1, b1, b2

VARIABLE moving

MCSymmetry == Permutations({b1, b2})

(* Samples. *)

Row(decision, f, c) == [expected |-> decision, fraction |-> f, confidence |-> c]
Rows(decision) == {Row(decision, f, c) : f \in {0, 2, Unit}, c \in {0, Unit}}
Sample(rows) == [rows |-> rows, real |-> TRUE, listed |-> TRUE, report |-> "NOT_YET_ASSESSABLE"]

\* Thresholds 4 and 0, and thresholds 2 and 0.
Strict == Sample(<<Row("ACCEPT", 4, 4), Row("REJECT", 0, 0), Row("ABSTAIN", 2, 4)>>)
Lenient == Sample(<<Row("ACCEPT", 2, 2), Row("REJECT", 0, 0), Row("ABSTAIN", 1, 4)>>)

MCSamples ==
    {Sample(<<a, r, b>>) : a \in Rows("ACCEPT"), r \in Rows("REJECT"), b \in Rows("ABSTAIN")}
    \cup {[Strict EXCEPT !.real = FALSE], [Strict EXCEPT !.listed = FALSE],
          [Strict EXCEPT !.report = "CLEAR"], Sample(<<Row("ACCEPT", 4, 4)>>)}

(* Requests. *)

Fact(v) == [value |-> v, unit |-> "none"]
Cites(kinds, facts) == [records |-> 1, kinds |-> kinds, facts |-> facts]
Support == Cites({"SUPPORTS"}, {})
CitedViews == {Support, Cites({"SUPPORTS"}, {Fact(1)}), Cites({"SUPPORTS"}, {Fact(2)}), Cites({}, {}),
          Cites({"SUPPORTS", "CONTRADICTS"}, {}), [Support EXCEPT !.records = 0],
          [Support EXCEPT !.records = 2]}
Expectation == [comparator |-> "EQUALS", value |-> 1, unit |-> "none"]
Claim(views, expected) == [views |-> views, expected |-> expected]
Claims == {Claim(v, e) : v \in {<<a>> : a \in CitedViews} \cup (CitedViews \X CitedViews), e \in {{}, {Expectation}}}
Sound == Claim(<<Support>>, {})

\* Only support is accepted; or all that is not said otherwise.
Partition(accept, reject, abstain) ==
    [accept |-> accept, reject |-> reject, abstain |-> abstain, real |-> TRUE]
OnlySupport == Partition({"SUPPORTED"}, {"UNSUPPORTED", "CONTRADICTORY", "NUMERICAL_ERROR",
                                         "CITATION_ERROR"}, {"PARTIAL", "AMBIGUOUS"})
AllButDoubt == Partition(SemanticOutcomes \ {"UNSUPPORTED", "AMBIGUOUS"}, {"UNSUPPORTED"}, {"AMBIGUOUS"})
AllButPartial == Partition(SemanticOutcomes \ {"AMBIGUOUS", "PARTIAL"}, {"AMBIGUOUS"}, {"PARTIAL"})

Condition(source, operator, threshold) ==
    [metric |-> "m1", source |-> source, operator |-> operator, threshold |-> threshold, minimum |-> 1]
Estimate(operator, threshold) == Condition("POINT_ESTIMATE", operator, threshold)
Seen(estimate, lower, upper) ==
    [m \in MetricIds |-> [estimate |-> estimate, denominator |-> 1, interval |-> <<lower, upper>>]]

MCRules ==
    LET conditions == {c \in ClaimConditions : c.source # "UPPER_CONFIDENCE_BOUND"
                                            /\ c.threshold # 0 /\ c.minimum = 2}
    IN {c \in [supported : {{a, b} : a, b \in conditions}, refuted : {{a} : a \in conditions}] :
            ValidClaim(c)}
MCObserved ==
    {[m \in MetricIds |-> o] : o \in {p \in Observations :
         p.denominator # 1 /\ (p = Unobserved \/ p.interval = NoInterval \/ p.interval[2] = 2)}}

Authority == [origin |-> "REAL_MODEL_EXECUTION", signed |-> TRUE, revoked |-> FALSE, from |-> 2, until |-> 3,
              reviewed |-> TRUE, limited |-> TRUE, metrics |-> {"m1"}]

Base ==
    [origin |-> "dataset", swapped |-> {}, authority |-> Authority, date |-> 2, scope |-> {"m1"},
     policyScope |-> {"m1"}, inScope |-> TRUE, drifted |-> FALSE,
     reports |-> [development |-> "NOT_YET_ASSESSABLE", confirmatory |-> "CLEAR"],
     evidence |-> "FROZEN", claims |-> <<Sound>>, policy |-> OnlySupport, confidence |-> Unit,
     traceDecision |-> "ACCEPT", wording |-> "ADMISSIBLE", metrics |-> Seen(2, 2, 2),
     rules |-> [supported |-> {Estimate("GE", 1)}, refuted |-> {Estimate("LT", 1)}]]

\* One or two inputs of the other task.
Mixed == {[Base EXCEPT !.origin = o, !.swapped = s] :
             o \in Origins, s \in {{i, j} : i, j \in Inputs}}
Cited == {[Base EXCEPT !.claims = c, !.policy = p] :
             c \in {<<a>> : a \in Claims} \cup {<<a, b>> : a \in Claims, b \in {Sound}
                 \cup {Claim(<<v>>, {}) : v \in CitedViews} \cup {Claim(<<Support, Cites({}, {})>>, {})}},
             p \in {OnlySupport, AllButDoubt, AllButPartial}}
Authorized ==
    {[Base EXCEPT !.authority.revoked = r, !.authority.reviewed = v, !.authority.signed = s,
                  !.authority.limited = l, !.authority.metrics = m, !.date = d] :
        r, v, s, l \in BOOLEAN, m \in {{"m1"}, {"m1", "m2"}, {"m2"}}, d \in 1..4}
Judged == {[Base EXCEPT !.rules = c, !.metrics = o] : c \in MCRules, o \in MCObserved}
Defective ==
    {[Base EXCEPT !.evidence = "EDITED"], [Base EXCEPT !.drifted = TRUE], [Base EXCEPT !.inScope = FALSE],
     [Base EXCEPT !.claims = <<>>], [Base EXCEPT !.metrics["m1"] = Unobserved],
     [Base EXCEPT !.confidence = 1], [Base EXCEPT !.confidence = 1, !.traceDecision = "ABSTAIN"], [Base EXCEPT !.wording = "PROHIBITED"],
     [Base EXCEPT !.policy.real = FALSE], [Base EXCEPT !.authority.origin = "OTHER"],
     [Base EXCEPT !.policyScope = {"m2"}], [Base EXCEPT !.reports.confirmatory = "BLOCKED"]}

MCCases ==
    (MCSamples \X {Base})
    \cup ({Strict} \X (Mixed \cup Authorized \cup Judged \cup Defective))
    \cup ({Strict, Lenient} \X Cited)

(* The run. *)

MCInit ==
    /\ moving \in {"machine", "verifier"}
    /\ Init
    /\ GroundedInit /\ (moving = "machine" => sample = Strict /\ request = Base)

MCNext ==
    /\ UNCHANGED moving
    /\ \/ moving = "machine" /\ Next /\ UNCHANGED groundedVars
       \/ moving = "verifier" /\ GroundedNext /\ UNCHANGED vars

MCSpec == MCInit /\ [][MCNext]_<<vars, groundedVars, moving>>
=============================================================================
