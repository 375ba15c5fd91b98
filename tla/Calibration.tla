----------------------------- MODULE Calibration -----------------------------
(***************************************************************************)
(* src/poi_mpp/auditor/semantic/calibration.py: the thresholds a frozen    *)
(* policy decides by, fitted to development observations.  A fraction and  *)
(* a confidence are integers over Unit.                                    *)
(***************************************************************************)
EXTENDS Integers, FiniteSets, SequencesExt

CONSTANTS
    Unit,
    AcceptQuota, RejectQuota,          \* the code's 50 and 50
    LeastAbstain, MostAbstain          \* the code's 20 and 50

ASSUME CalibrationAssumption ==
    /\ Unit \in Nat \ {0}
    /\ {AcceptQuota, RejectQuota, LeastAbstain, MostAbstain} \subseteq Nat
    /\ AcceptQuota + RejectQuota + LeastAbstain > 0

Fractions == 0..Unit

Thresholds == {t \in [support : Fractions, reject : Fractions, confidence : Fractions] :
                  t.reject <= t.support}

HowMany(rows, decision) == Cardinality({i \in DOMAIN rows : rows[i].expected = decision})

\* _freeze_observations, _validate_dataset_membership and the leakage report's
\* gate: whatever fails raises and nothing is frozen.
Calibratable(sample) ==
    /\ HowMany(sample.rows, "ACCEPT") = AcceptQuota
    /\ HowMany(sample.rows, "REJECT") = RejectQuota
    /\ HowMany(sample.rows, "ABSTAIN") \in LeastAbstain..MostAbstain
    /\ sample.real /\ sample.listed /\ sample.report = "NOT_YET_ASSESSABLE"

Prediction(row, t) ==
    IF row.fraction <= t.reject THEN "REJECT"
    ELSE IF row.fraction >= t.support /\ row.confidence >= t.confidence THEN "ACCEPT"
    ELSE "ABSTAIN"

Correct(rows, t) == Cardinality({i \in DOMAIN rows : Prediction(rows[i], t) = rows[i].expected})
FalseAccepts(rows, t) ==
    Cardinality({i \in DOMAIN rows : Prediction(rows[i], t) = "ACCEPT" /\ rows[i].expected # "ACCEPT"})
FalseRejects(rows, t) ==
    Cardinality({i \in DOMAIN rows : Prediction(rows[i], t) = "REJECT" /\ rows[i].expected = "ACCEPT"})
Covered(rows, t) == Cardinality({i \in DOMAIN rows : Prediction(rows[i], t) # "ABSTAIN"})

\* Faulty variant: the ends of the scale are not tried.
CandidatesObserved(rows) ==
    LET observed(f) == {rows[i][f] : i \in DOMAIN rows}
    IN {t \in Thresholds : /\ {t.support, t.reject} \subseteq observed("fraction")
                           /\ t.confidence \in observed("confidence")}

\* Only observed values, zero and one are tried.
Candidates(rows) ==
    LET observed(f) == {0, Unit} \cup {rows[i][f] : i \in DOMAIN rows}
    IN {t \in Thresholds : /\ {t.support, t.reject} \subseteq observed("fraction")
                           /\ t.confidence \in observed("confidence")}

\* The score's tuple: the rates of a sample share their denominators.
CalibrationScore(rows, t) ==
    <<Correct(rows, t), -FalseAccepts(rows, t), -FalseRejects(rows, t), Covered(rows, t),
      t.support, -t.reject, t.confidence>>

Outscores(a, b) == \E i \in DOMAIN a : a[i] > b[i] /\ \A j \in 1..(i - 1) : a[j] = b[j]

SelectThresholds(rows) ==
    CHOOSE t \in Candidates(rows) : \A u \in Candidates(rows) \ {t} :
        Outscores(CalibrationScore(rows, t), CalibrationScore(rows, u))
=============================================================================
