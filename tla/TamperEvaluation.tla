--------------------------- MODULE TamperEvaluation ---------------------------
(***************************************************************************)
(* Experiment E2: src/poi_mpp/attacks/execution.py alters one surface of   *)
(* the evidence of an execution, experiments/e2_tamper.py audits it into a *)
(* row, reporting/e2.py turns the rows into a disposition of claim C2.     *)
(* Callers choose bundles, manifests and the nullifiers they know in any   *)
(* combination; a validator that raises takes no step.                     *)
(*                                                                         *)
(* A surface holds the value it was committed with or that value mutated.  *)
(* A mutation hits a place of the value, a byte and its bits or a cell of  *)
(* a matrix, drawn by a generator seeded with family, seed and value: a    *)
(* seed always draws the same place, two seeds may draw one.  Hashes of    *)
(* different values differ.                                                *)
(***************************************************************************)
EXTENDS Integers, Sequences, FiniteSets

CONSTANTS
    Requests,       \* requests executed, each with evidence of its own
    Seeds,
    Places,         \* where a mutation may hit
    Families,       \* bound: attack families applied
    MaxAttacks,     \* bound: attacked bundles
    MaxRows         \* bound: rows of the run

\* The surfaces a family's target hash covers; a tensor family per numeric mode.
Target ==
    [MODEL_ROOT_SUBSTITUTION |-> {"model"}, WEIGHT_CORRUPTION |-> {"weights"},
     TRACE_NODE_MUTATION |-> {"trace"}, TENSOR_FIELD |-> {"field"}, TENSOR_FLOAT |-> {"float"},
     RESPONSE_BINDING_MISMATCH |-> {"response", "trace"},
     IEC_EVIDENCE_INDEX_MUTATION |-> {"iec"}, DECODE_POLICY_MUTATION |-> {"decode"},
     CROSS_REQUEST_SPLICE |-> {"response", "trace"}, REPLAY_NULLIFIER |-> {"nullifier"},
     UNSUPPORTED_KERNEL |-> {"kernel"}]

AttackFamily == DOMAIN Target

ASSUME TamperAssumption ==
    /\ IsFiniteSet(Requests) /\ IsFiniteSet(Seeds)
    /\ Families \subseteq AttackFamily /\ MaxAttacks \in Nat /\ MaxRows \in Nat

Paired == {"CROSS_REQUEST_SPLICE", "REPLAY_NULLIFIER"}
SeedSensitive(family) == family \notin Paired \cup {"UNSUPPORTED_KERNEL"}

\* canonical_attack_surface
AnalysisSurface(family) ==
    CASE family = "TENSOR_FIELD" -> "EXACT_FIELD"
      [] family = "TENSOR_FLOAT" -> "EMPIRICAL_FLOAT"
      [] family = "UNSUPPORTED_KERNEL" -> "UNSUPPORTED"
      [] OTHER -> "EXACT_MATCH"

Surfaces == UNION {Target[f] : f \in AttackFamily}

\* What a request's commitment and manifests say; requests share the model.
Committed(request) ==
    [s \in Surfaces |-> IF s \in {"model", "weights", "decode", "kernel"} THEN <<"shared">>
                        ELSE <<request>>]

Unset == "none"
NoPeer == <<>>

\* What a caller knows to be used: nothing passed, or one set of nullifiers.
Contexts == {{}} \cup {{known} : known \in SUBSET {<<r>> : r \in Requests}}

VARIABLES
    bundles,     \* evidence made: request, receipt, what its surfaces show
    manifests,   \* attack manifests made
    rows,        \* receipt rows evaluated
    summary      \* disposition of C2, the rows it counts and the context it was given

tamperVars == <<bundles, manifests, rows, summary>>

TamperInit ==
    /\ bundles = {[request |-> r, receipt |-> <<r>>, shown |-> Committed(r)] : r \in Requests}
    /\ manifests = {} /\ rows = {}
    /\ summary = [disposition |-> Unset]

Shown(b, family) == [s \in Target[family] |-> b.shown[s]]
CommittedTarget(b, family) == [s \in Target[family] |-> Committed(b.request)[s]]

-----------------------------------------------------------------------------
(* apply_attack *)

\* The surface a family rewrites, and with what; a mismatch of response and trace
\* mutates the response only.
Altered(b, family, place, peer) ==
    CASE family \in Paired -> [s \in Target[family] |-> peer.shown[s]]
      [] family = "UNSUPPORTED_KERNEL" -> [s \in {"kernel"} |-> <<"unsupported">>]
      [] family = "RESPONSE_BINDING_MISMATCH" -> [s \in {"response"} |-> Append(b.shown[s], place)]
      [] OTHER -> [s \in Target[family] |-> Append(b.shown[s], place)]

Overlay(new, old) == [s \in DOMAIN old |-> IF s \in DOMAIN new THEN new[s] ELSE old[s]]

\* What a seed was once seen to make of a value, it makes of it again.
Reproduces(m) ==
    SeedSensitive(m.family) =>
        \A n \in manifests :
            n.family = m.family /\ n.seed = m.seed /\ n.original = m.original => n.attacked = m.attacked

\* AttackManifest: its validator replays the attack from the original material, and
\* that material must hash to what was committed.  Evaluation changes no
\* bundle, so all attacks come first.
ApplyAttack(b, family, seed, place, peer) ==
    /\ Cardinality(manifests) < MaxAttacks /\ rows = {}
    /\ Shown(b, family) = CommittedTarget(b, family)
    /\ LET attacked == [b EXCEPT !.shown = Overlay(Altered(b, family, place, peer), b.shown)]
           manifest == [family |-> family, seed |-> seed, of |-> b.request,
                        peer |-> IF family \in Paired THEN peer.receipt ELSE NoPeer,
                        original |-> Shown(b, family), attacked |-> Shown(attacked, family)]
       IN  /\ Reproduces(manifest)
           /\ manifests' = manifests \cup {manifest}
           /\ bundles' = bundles \cup {attacked}
    /\ UNCHANGED <<rows, summary>>

-----------------------------------------------------------------------------
(* evaluate_receipt *)

\* The auditors: exact surfaces are compared, products are checked by Freivalds,
\* which may miss a wrong product and never rejects a right one.
AuditOutcomes(b, family) ==
    LET intact == Shown(b, family) = CommittedTarget(b, family)
    IN  IF AnalysisSurface(family) = "EXACT_MATCH" THEN {intact} ELSE {intact, TRUE}

Validation(nullifier, known) ==
    IF known = {} THEN "UNVALIDATED"
    ELSE IF nullifier \in UNION known THEN "CONFIRMED_REPLAY" ELSE "VERIFIED_NOT_REPLAY"

\* Faulty variant: a nullifier that is not the committed one counts as a replay.
DetectedByAudit(family, accepted, validation) == ~accepted

\* _expected_row_fields: a replay is detected by the caller's nullifiers, not by
\* the audit.
Detected(family, accepted, validation) ==
    IF family = "REPLAY_NULLIFIER" THEN validation = "CONFIRMED_REPLAY" ELSE ~accepted

\* E2ReceiptRow of a control: the audit compares the response.
Control(b) ==
    [family |-> Unset, receipt |-> b.receipt, bundle |-> b,
     falsePositive |-> b.shown["response"] # Committed(b.request)["response"]]

\* E2ReceiptRow of an attack: its validator binds row, bundle and manifest.
AttackRow(b, m, accepted, validation) ==
    [family |-> m.family, receipt |-> b.receipt, bundle |-> b, manifest |-> m,
     abstained |-> AnalysisSurface(m.family) = "UNSUPPORTED", falsePositive |-> FALSE,
     validation |-> IF m.family = "REPLAY_NULLIFIER" THEN validation ELSE Unset,
     accepted |-> accepted,
     detected |-> /\ AnalysisSurface(m.family) # "UNSUPPORTED"
                  /\ Detected(m.family, accepted, validation)]

Binds(b, m) ==
    /\ m.of = b.request
    /\ m.original = CommittedTarget(b, m.family)
    /\ m.attacked = Shown(b, m.family)
    /\ m.attacked # m.original

\* The evidence may be given a receipt of its own first (_observation_bundle).
EvaluateReceipt ==
    /\ Cardinality(rows) < MaxRows
    /\ \E b \in bundles :
          \/ rows' = rows \cup {Control(b)}
          \/ \E m \in manifests, receipt \in {b.receipt, Append(b.receipt, "attack")}, known \in Contexts :
                /\ Binds(b, m)
                /\ m.family # "REPLAY_NULLIFIER" => known = {}
                /\ \E accepted \in AuditOutcomes(b, m.family) :
                      rows' = rows \cup {AttackRow([b EXCEPT !.receipt = receipt], m, accepted,
                                            Validation(b.shown["nullifier"], known))}
    /\ UNCHANGED <<bundles, manifests, summary>>

-----------------------------------------------------------------------------
(* normalize_e2_rows, summarize_e2_rows *)

Attacks(counted) == {row \in counted : row.family # Unset}

\* A replay row is judged again with the context given now, which may not revise
\* an earlier judgement.
Normalized(row, known) ==
    IF row.family # "REPLAY_NULLIFIER" THEN row
    ELSE AttackRow(row.bundle, row.manifest, row.accepted,
                   Validation(row.bundle.shown["nullifier"], known))

Normalizable(row, known) ==
    row.family = "REPLAY_NULLIFIER" =>
        known # {} /\ row.validation \in {"UNVALIDATED", Normalized(row, known).validation}

\* _observation_key and attack_instance_id: nothing is counted twice.
CountedOnce(counted) ==
    /\ \A p, q \in counted : p # q => p.receipt # q.receipt
    /\ \A p, q \in Attacks(counted) : p # q =>
          <<p.family, p.manifest.seed, p.manifest.original, p.manifest.peer>>
              # <<q.family, q.manifest.seed, q.manifest.original, q.manifest.peer>>
    /\ \A p \in Attacks(counted) : p.manifest.peer # p.receipt

Denominator(counted) == {row \in Attacks(counted) : ~row.abstained}
SeedInstances(counted) == {row.manifest : row \in {a \in Attacks(counted) : SeedSensitive(a.family)}}

Disposition(counted) ==
    IF Cardinality(Denominator(counted)) < 2 \/ Cardinality(SeedInstances(counted)) < 2
    THEN "INCONCLUSIVE"
    ELSE IF \E row \in Denominator(counted) : ~row.detected THEN "NOT_SUPPORTED"
    ELSE IF \E row \in counted : row.falsePositive THEN "INCONCLUSIVE"
    ELSE "SUPPORTED"

SummarizeRows(known) ==
    /\ Cardinality(rows) = MaxRows /\ summary.disposition = Unset
    /\ \A row \in rows : Normalizable(row, known)
    /\ LET counted == {Normalized(row, known) : row \in rows}
       IN  /\ CountedOnce(counted)
           /\ summary' = [disposition |-> Disposition(counted), rows |-> counted, known |-> known]
    /\ UNCHANGED <<bundles, manifests, rows>>

TamperNext ==
    \/ \E b, peer \in bundles, family \in Families, seed \in Seeds, place \in Places :
          ApplyAttack(b, family, seed, place, peer)
    \/ EvaluateReceipt
    \/ \E known \in Contexts : SummarizeRows(known)

TamperSpec == TamperInit /\ [][TamperNext]_tamperVars

-----------------------------------------------------------------------------
(* Properties *)

\* C2 is called supported only of attacks that really altered what was committed and
\* were caught, a replay by a nullifier the caller knew to be used and any other by
\* the audit; of two mutations at least that were applied with different seeds, by
\* different families or to different material, and evaluated under receipts of their
\* own (what they made may still be the same); and of controls, if any, whose
\* response is the committed one.
TamperClaimEarned ==
    summary.disposition = "SUPPORTED" =>
        /\ \A row \in Denominator(summary.rows) :
              /\ row.bundle.shown # Committed(row.bundle.request)
              /\ IF row.family = "REPLAY_NULLIFIER"
                 THEN row.bundle.shown["nullifier"] \in UNION summary.known
                 ELSE ~row.accepted
        /\ \E p, q \in Attacks(summary.rows) :
              /\ SeedSensitive(p.family) /\ SeedSensitive(q.family) /\ p.receipt # q.receipt
              /\ <<p.family, p.manifest.seed, p.manifest.original>>
                    # <<q.family, q.manifest.seed, q.manifest.original>>
        /\ \A row \in summary.rows \ Attacks(summary.rows) :
              row.bundle.shown["response"] = Committed(row.bundle.request)["response"]
=============================================================================
