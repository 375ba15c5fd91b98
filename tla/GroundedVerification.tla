------------------------- MODULE GroundedVerification -------------------------
(***************************************************************************)
(* The semantic verifier of src/poi_mpp/auditor/semantic: a calibration is *)
(* frozen on development rows, a policy is frozen on the calibration and a *)
(* task on the policy, a response is verified against cited evidence, and  *)
(* the verdict becomes the receipt's RecordAudit.                          *)
(*                                                                         *)
(* Two tasks differ in one input, request.origin, and so in the hash of    *)
(* everything that carries it; a caller may hand over some of the inputs   *)
(* from one task and the rest from the other.                              *)
(***************************************************************************)
EXTENDS ClaimAdjudication, Calibration

CONSTANTS Cases      \* pairs of a sample and a request; the bound of a run

SemanticOutcomes ==
    {"SUPPORTED", "UNSUPPORTED", "CONTRADICTORY", "PARTIAL", "AMBIGUOUS",
     "NUMERICAL_ERROR", "CITATION_ERROR"}

\* What the verifier is handed, and what is only named by a hash.
Inputs ==
    {"claim", "dataset", "environment", "model", "prompt", "response", "freeze", "devReport",
     "confReport", "ledger", "snapshot", "policy", "record", "crypto", "envelope", "trace",
     "task", "protocolModel", "commitment"}
Named == {"devDataset", "payload"}

(* The hashes each input carries. *)

EnvelopeCarries == {"claim", "payload", "policy", "dataset", "snapshot", "model", "environment"}
PolicyCarries ==
    {"claim", "dataset", "snapshot", "model", "environment", "payload", "prompt", "freeze", "ledger",
     "confReport"}
RecordCarries == {"claim", "dataset", "policy", "environment", "snapshot"}
\* A registry entry leaves out the policy and the snapshot of its record, so that
\* a policy may name the snapshot and the record both.
SnapshotCarries == RecordCarries \ {"policy", "snapshot"}
CryptoCarries == {"record", "snapshot"}
TraceCarries == {"envelope", "response", "policy", "dataset", "record"}
FreezeCarries == {"devDataset", "claim", "prompt", "model", "environment", "ledger", "devReport"}

Carries ==
    [i \in Inputs |->
        CASE i = "envelope" -> EnvelopeCarries
          [] i = "policy" -> PolicyCarries
          [] i = "record" -> RecordCarries
          [] i = "snapshot" -> SnapshotCarries
          [] i = "crypto" -> CryptoCarries
          [] i = "trace" -> TraceCarries
          [] i = "freeze" -> FreezeCarries
          [] i = "task" -> {"envelope"}
          [] i = "protocolModel" -> {"model"}
          [] i = "commitment" -> {"task", "protocolModel", "response", "trace"}
          [] i = "confReport" -> {"devDataset", "dataset"}
          [] i \in {"devReport", "ledger"} -> {"devDataset"}
          [] OTHER -> {}]

\* Whatever the record alone says of the authority is in its registry entry.
Origins == (Inputs \ {"record"}) \cup Named

Carriers(set) == set \cup {i \in Inputs : Carries[i] \cap set # {}}

\* What carries an input, directly or not: a commitment carries the development
\* dataset through seven others, and no chain is longer.
CarriedInto ==
    LET Twice(set) == Carriers(Carriers(set))
    IN  [o \in Origins |-> Twice(Twice(Twice(Twice({o}))))]

(* What the constructors let through. *)

ValidPolicy(policy) ==
    LET parts == {policy.accept, policy.reject, policy.abstain}
    IN {} \notin parts /\ UNION parts = SemanticOutcomes
       /\ \A p, q \in {"accept", "reject", "abstain"} : p # q => policy[p] \cap policy[q] = {}

ValidAuthority(authority) == authority.from <= authority.until /\ authority.metrics # {}

ValidSample(s) ==
    s.rows \in Seq([expected : {"ACCEPT", "REJECT", "ABSTAIN"}, fraction : Fractions, confidence : Fractions])

\* A claim, with what each of its citations leads to.
Views ==
    [records : Nat, kinds : SUBSET {"SUPPORTS", "CONTRADICTS"}, facts : SUBSET [value : Int, unit : STRING]]
Expectations ==
    [comparator : {"EQUALS", "AT_LEAST", "AT_MOST"}, value : Int, unit : STRING]
GroundedClaims == [views : Seq(Views) \ {<<>>}, expected : SUBSET Expectations]

ValidRequest(q) ==
    /\ q.origin \in Origins /\ q.swapped \subseteq Inputs
    /\ ValidClaim(q.rules) /\ ValidPolicy(q.policy) /\ ValidAuthority(q.authority)
    /\ q.claims \in Seq(GroundedClaims)
    /\ q.rules.supported \cup q.rules.refuted \subseteq ClaimConditions
    /\ q.metrics \in [MetricIds -> Observations]

ASSUME CasesAssumption == \A c \in Cases : ValidSample(c[1]) /\ ValidRequest(c[2])

VARIABLES
    sample,      \* the development rows
    freeze,      \* the calibration's thresholds, or why there is none
    request,     \* everything verify_grounded_v2 is called with
    verdict,     \* its result
    recorded     \* the RecordAudit handed to the receipt machine

groundedVars == <<sample, freeze, request, verdict, recorded>>

Unfitted == [stage |-> "unfitted"]
Refused == [stage |-> "refused"]
Undecided == [decision |-> "NONE"]

GroundedInit ==
    /\ \E v \in Cases : sample = v[1] /\ request = v[2]
    /\ freeze = Unfitted /\ verdict = Undecided /\ recorded = Undecided

\* fit_development_calibration_v2.
FitCalibration ==
    /\ freeze = Unfitted
    /\ freeze' = IF Calibratable(sample)
                 THEN LET best == SelectThresholds(sample.rows)
                      IN  [stage |-> "frozen", support |-> best.support, reject |-> best.reject,
                           confidence |-> best.confidence]
                 ELSE Refused
    /\ UNCHANGED <<sample, request, verdict, recorded>>

(* The bindings. *)

\* The two tasks differ in the origin and in all that carries it.
HashIn(i, task) == IF i \in CarriedInto[request.origin] THEN <<i, task>> ELSE <<i, 0>>
TaskOfInput(i) == IF i \in request.swapped THEN 2 ELSE 1
HashOf(i) == HashIn(i, TaskOfInput(i))
HashAt(i, part) == HashIn(part, TaskOfInput(i))
Bound(i, parts) == \A p \in parts : HashAt(i, p) = HashOf(p)

\* registry_snapshot.cryptographic_binding_reasons: the snapshot holds this very
\* record, and the signature was verified for it in this snapshot.
RegistryBinds ==
    /\ HashAt("snapshot", "record") = HashOf("record")
    /\ Bound("record", {"snapshot"})
    /\ Bound("crypto", {"record", "snapshot"})
    /\ request.authority.signed /\ request.authority.origin = "REAL_MODEL_EXECUTION"

\* _calibration_integrity_reasons and assert_calibration_freeze: the policy's
\* thresholds are the frozen ones.
CalibrationBinds ==
    /\ ~request.drifted
    /\ request.reports = [development |-> "NOT_YET_ASSESSABLE", confirmatory |-> "CLEAR"]
    /\ \A i \in {"devReport", "confReport", "ledger"} :
          HashAt(i, "devDataset") = HashAt("freeze", "devDataset")
    /\ Bound("confReport", {"dataset"})
    /\ Bound("freeze", {"devReport", "ledger"})
    /\ \A p \in {"claim", "prompt", "model", "environment"} : HashAt("policy", p) = HashAt("freeze", p)

\* The envelope, the trace, the protocol's task and commitment, the signed scope
\* and assert_frozen_inputs.
TaskBinds ==
    /\ Bound("envelope", {"claim", "dataset", "environment", "policy", "snapshot", "model"})
    /\ Bound("trace", {"envelope", "response", "policy", "dataset", "record"})
    /\ Bound("task", {"envelope"})
    /\ Bound("commitment", {"response", "trace", "task", "protocolModel"})
    /\ Bound("protocolModel", {"model"})
    /\ Bound("record", {"claim", "dataset", "environment", "policy"})
    /\ Bound("policy", {"claim", "dataset", "snapshot", "model", "environment", "prompt",
                        "freeze", "ledger", "confReport"})
    /\ HashAt("policy", "payload") = HashAt("envelope", "payload")

(* The authority. *)

\* scope_gate_reasons on the date of the call.
ActiveOn(authority, date) ==
    ~authority.revoked /\ date \in authority.from..authority.until

\* publication_eligibility_gate_reasons: a limited scope must be met exactly.
EligibleToPublish(authority, metrics, date) ==
    /\ ActiveOn(authority, date)
    /\ authority.reviewed
    /\ metrics # {} /\ metrics \subseteq authority.metrics
    /\ authority.limited => metrics = authority.metrics

(* The evidence of a claim. *)

\* _compare_numeric_expectation, over the facts of all that a claim cites.
NumbersAgree(expectation, views) ==
    LET facts == UNION {views[i].facts : i \in DOMAIN views}
        units == {f.unit : f \in facts} \ {"none"}
    IN /\ facts # {}
       /\ Cardinality(units) <= 1
       /\ units # {} => expectation.unit \in units \cup {"none"}
       /\ \A f \in facts :
            CASE expectation.comparator = "EQUALS" -> f.value = expectation.value
              [] expectation.comparator = "AT_LEAST" -> f.value >= expectation.value
              [] expectation.comparator = "AT_MOST" -> f.value <= expectation.value

\* _evaluate_claim: a view is what one citation leads to.
EvaluateClaim(c) ==
    LET cited == DOMAIN c.views
        supporting == {i \in cited : "SUPPORTS" \in c.views[i].kinds}
        fraction == (Cardinality(supporting) * Unit) \div Len(c.views)
        Result(outcome, decision, support) ==
            [outcome |-> outcome, decision |-> decision, fraction |-> support]
    IN CASE \E i \in cited : c.views[i].records # 1 -> Result("CITATION_ERROR", "REJECT", 0)
         [] /\ \A i \in cited : c.views[i].records = 1
            /\ \E i \in cited : "CONTRADICTS" \in c.views[i].kinds -> Result("CONTRADICTORY", "REJECT", 0)
         [] OTHER ->
            IF supporting = {} THEN Result("UNSUPPORTED", "REJECT", fraction)
            ELSE IF \E e \in c.expected : ~NumbersAgree(e, c.views)
                 THEN Result("NUMERICAL_ERROR", "REJECT", fraction)
            ELSE IF supporting # cited THEN Result("PARTIAL", "ABSTAIN", fraction)
            ELSE Result("SUPPORTED", "ACCEPT", fraction)

\* The first refused claim speaks for all, else the first one in doubt.
Spokesman(outcomes) ==
    LET having(d) == {i \in DOMAIN outcomes : outcomes[i].decision = d}
    IN IF having("REJECT") # {} THEN Min(having("REJECT"))
       ELSE IF having("ABSTAIN") # {} THEN Min(having("ABSTAIN")) ELSE 1

\* Faulty variant: the support is that of the claim that speaks for all.
AggregateOwn(outcomes) ==
    [outcome |-> outcomes[Spokesman(outcomes)].outcome,
     fraction |-> outcomes[Spokesman(outcomes)].fraction]

\* _aggregate_policy_inputs: one outcome, and the least support of any claim.
Aggregate(outcomes) ==
    [outcome |-> outcomes[Spokesman(outcomes)].outcome,
     fraction |-> Min({outcomes[i].fraction : i \in DOMAIN outcomes})]

\* _decision_from_outcome, by the thresholds the policy took from the freeze.
PolicyDecision(policy, outcome, fraction, confidence) ==
    IF outcome \in policy.reject THEN "REJECT"
    ELSE IF outcome \in policy.abstain THEN "ABSTAIN"
    ELSE IF fraction <= freeze.reject THEN "REJECT"
    ELSE IF fraction < freeze.support \/ confidence < freeze.confidence THEN "ABSTAIN"
    ELSE "ACCEPT"

(* verify_grounded_v2. *)

Adjudication == Adjudicate(request.rules, request.metrics, request.wording, request.authority.origin)

\* _integrity_reasons and what verify_grounded_v2 adds to them.  The evidence is
\* in the frozen dataset with the same content, origin and annotations and of a
\* real execution; model, environment and experiment are in the claim's scope.
Intact ==
    /\ RegistryBinds /\ CalibrationBinds /\ TaskBinds
    /\ EligibleToPublish(request.authority, request.scope, request.date)
    /\ request.policyScope = request.scope /\ request.inScope
    /\ request.claims # <<>> /\ request.evidence = "FROZEN"
    /\ Adjudication.failure = "none"

Settled(computed, disposition) ==
    IF disposition = "NOT_SUPPORTED" THEN "REJECT"
    ELSE IF disposition = "INCONCLUSIVE" /\ computed = "ACCEPT" THEN "ABSTAIN"
    ELSE computed

Verify ==
    /\ freeze.stage = "frozen" /\ verdict = Undecided
    /\ LET outcomes == [i \in DOMAIN request.claims |-> EvaluateClaim(request.claims[i])]
           whole == Aggregate(outcomes)
           computed == PolicyDecision(request.policy, whole.outcome, whole.fraction, request.confidence)
       IN verdict' =
            [decision |-> IF \/ ~Intact
                             \/ request.traceDecision # computed \/ ~request.policy.real
                          THEN "REJECT"
                          ELSE Settled(computed, Adjudication.disposition),
             disposition |-> Adjudication.disposition,
             failure |-> Adjudication.failure,
             outcomes |-> outcomes]
    /\ UNCHANGED <<sample, freeze, request, recorded>>

\* record_audit_from_verification.
RecordVerdict ==
    /\ verdict # Undecided /\ recorded = Undecided
    /\ recorded' = [decision |-> verdict.decision, result |-> verdict,
                    envelope |-> HashOf("envelope"), response |-> HashOf("response"),
                    commitment |-> HashOf("commitment")]
    /\ UNCHANGED <<sample, freeze, request, verdict>>

GroundedNext == FitCalibration \/ Verify \/ RecordVerdict
GroundedSpec == GroundedInit /\ [][GroundedNext]_groundedVars

(* What an accepted response rests on. *)

\* No input carries the hash of another than the one that was handed over, and
\* no two disagree about one that was not.
OneTask ==
    /\ \A i \in Inputs : Bound(i, Carries[i] \ Named)
    /\ \A n \in Named : \A i, j \in {k \in Inputs : n \in Carries[k]} : HashAt(i, n) = HashAt(j, n)

Grounded(c) ==
    /\ \A i \in DOMAIN c.views : c.views[i].records = 1 /\ "CONTRADICTS" \notin c.views[i].kinds
    /\ \E i \in DOMAIN c.views : "SUPPORTS" \in c.views[i].kinds

\* An accepted response has all its inputs from one task; each of its claims, and
\* not only the one that speaks for them, cites records that exist once, none of
\* which contradicts it and one of which supports it, whatever outcomes the
\* policy calls acceptable; where it calls only support so, each citation
\* supports and the numbers agree; the metrics bear the claim out; and the
\* authority was active on the day.
AcceptEarned ==
    recorded.decision = "ACCEPT" =>
        /\ OneTask
        /\ \A i \in DOMAIN request.claims : Grounded(request.claims[i])
        /\ request.policy.accept = {"SUPPORTED"} =>
               \A i \in DOMAIN request.claims :
                   /\ \A k \in DOMAIN request.claims[i].views :
                          "SUPPORTS" \in request.claims[i].views[k].kinds
                   /\ \A e \in request.claims[i].expected : NumbersAgree(e, request.claims[i].views)
        /\ ActiveOn(request.authority, request.date)
        /\ Satisfies(request.rules.supported, request.metrics)

\* No metrics satisfy both the rule that bears a claim out and the rule that
\* refutes it: the refusal of overlapping rules leaves no ambiguous claim, in
\* particular where two bounds meet in one value.
ClaimUnambiguous == verdict # Undecided => verdict.failure # "ambiguous"

\* Trying only the observed values loses nothing: no thresholds at all predict
\* more of the development rows; and a policy frozen on the selected ones
\* decides every row as the fit predicted, although it is other code.
CalibrationCarriesOver ==
    freeze.stage = "frozen" =>
        /\ \A t \in Thresholds : Correct(sample.rows, t) <= Correct(sample.rows, freeze)
        /\ \A i \in DOMAIN sample.rows :
               LET row == sample.rows[i] IN
               PolicyDecision([reject |-> {}, abstain |-> {}], "SUPPORTED", row.fraction, row.confidence)
                   = Prediction(row, freeze)
=============================================================================
