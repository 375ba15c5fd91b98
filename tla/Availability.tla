----------------------------- MODULE Availability -----------------------------
(***************************************************************************)
(* src/poi_mpp/protocol/availability.py and auditor/availability/          *)
(* sampling.py: a local store of erasure-coded shards, sampled once when   *)
(* its commitment is final and verified later.  The scenarios that damage  *)
(* the store in between are those of experiments/e4_execution.py.          *)
(*                                                                         *)
(* A shard's hash covers its index, so shard i is intact when it holds     *)
(* payload i.  The verifier reads the files one after the other, and       *)
(* another process may change them between two reads.                      *)
(***************************************************************************)
EXTENDS Integers, FiniteSets, Sequences

CONSTANTS
    Models,       \* bound: E4ExecutionModel values of a run
    Meddling      \* bound: changes another process makes while the verifier reads

Kinds == {"HONEST_NEGATIVE_CONTROL", "RANDOM_WITHHOLDING", "TARGETED_WITHHOLDING",
          "CORRUPT_SHARD", "DUPLICATE_SHARD", "REORDERED_SHARD", "SELECTIVE_SERVICE"}

\* model: [total, threshold, samples, replacement]
ValidModel(model) ==
    /\ model.total > 1 /\ model.threshold > 0 /\ model.samples > 0
    /\ model.threshold <= model.total
    /\ model.replacement \/ model.samples <= model.total

ASSUME AvailabilityAssumption ==
    /\ \A model \in Models :
          model \in [total : Nat, threshold : Nat, samples : Nat, replacement : BOOLEAN]
    /\ Meddling \in Nat

\* E4ExecutionScenario and the cross-check of E4ExecutionConfig: a withholding
\* scenario removes enough shards to cross the threshold.
ValidScenario(kind, mutations, model) ==
    CASE kind = "HONEST_NEGATIVE_CONTROL" -> mutations = 0
      [] kind \in {"CORRUPT_SHARD", "DUPLICATE_SHARD", "SELECTIVE_SERVICE"} -> mutations = 1
      [] kind = "REORDERED_SHARD" -> mutations = 2
      [] OTHER -> mutations > 0 /\ mutations >= model.total - model.threshold + 1

ExpectedStatus(kind) ==
    CASE kind = "HONEST_NEGATIVE_CONTROL" -> "VERIFIED"
      [] kind \in {"RANDOM_WITHHOLDING", "TARGETED_WITHHOLDING"} -> "WITHHELD"
      [] kind = "SELECTIVE_SERVICE" -> "SELECTIVE_SERVICE"
      [] OTHER -> "CORRUPT"

Mode(kind) ==
    CASE kind \in {"HONEST_NEGATIVE_CONTROL", "RANDOM_WITHHOLDING"} -> "STATIC_WITHOUT_REPLACEMENT"
      [] kind = "TARGETED_WITHHOLDING" -> "TARGETED_WITHHOLDING"
      [] kind = "SELECTIVE_SERVICE" -> "SELECTIVE_SERVING"
      [] OTHER -> "CORRELATED_LOSS"

VARIABLES
    model, scenario,   \* the frozen configuration
    phase,             \* init, stored, issued, counting, checking, concluded, raised
    store,             \* shard index -> payload it holds, Absent or Junk
    sample,            \* sample_indices of the certificate
    served,            \* indices the prover serves
    cursor,            \* next record or sample the verifier reads
    tally,             \* what the verifier has counted
    status,            \* of the ReconstructionResult
    history            \* what was intact when verification began; restored since

storeVars == <<model, scenario, phase, store, sample, served, cursor, tally, status, history>>

Absent == -1
Junk == -2
None == "NONE"

Shards == 0..(model.total - 1)
Intact == {i \in Shards : store[i] = i}
NoTally == [total |-> 0, verified |-> 0, missing |-> {}, corrupt |-> {}]

StoreInit ==
    /\ model \in Models /\ ValidModel(model)
    /\ scenario \in [kind : Kinds, mutations : 0..model.total]
    /\ ValidScenario(scenario.kind, scenario.mutations, model)
    /\ phase = "init"
    /\ store = [i \in Shards |-> Absent]
    /\ sample = <<>> /\ served = {} /\ cursor = 0
    /\ tally = NoTally /\ status = None
    /\ history = [intact |-> {}, restored |-> FALSE, meddled |-> 0]

-----------------------------------------------------------------------------
\* initialize: every payload is written, the layout records their hashes.
Initialize ==
    /\ phase = "init"
    /\ store' = [i \in Shards |-> i]
    /\ phase' = "stored"
    /\ UNCHANGED <<model, scenario, sample, served, cursor, tally, status, history>>

\* derive_sample_indices: a hash of the commitment, beacon and round picks any
\* sequence; without replacement the indices are those of the lowest scores.
Samples ==
    {s \in [1..model.samples -> Shards] :
        model.replacement \/ \A i, j \in 1..model.samples : s[i] = s[j] => i = j}

\* issue_sample_certificate binds the layout's hashes of shards it has just seen
\* intact.
IssueCertificate ==
    /\ phase = "stored"
    /\ \E s \in Samples :
          /\ \A i \in DOMAIN s : s[i] \in Intact
          /\ sample' = s
          /\ served' = {s[i] : i \in DOMAIN s}
    /\ phase' = "issued"
    /\ UNCHANGED <<model, scenario, store, cursor, tally, status, history>>

\* The ranked choice of _deterministic_rank is any set of that size.
Removals ==
    CASE scenario.kind = "RANDOM_WITHHOLDING" ->
             {gone \in SUBSET Shards : Cardinality(gone) = scenario.mutations}
      [] scenario.kind = "TARGETED_WITHHOLDING" ->
             {gone \in SUBSET Shards : sample[1] \in gone
                                         /\ Cardinality(gone) = scenario.mutations}

\* _apply_scenario: the files of the store and the indices served afterwards.
DamagedStore ==
    LET first == sample[1]
        other == IF first = 0 THEN 1 ELSE 0
    IN  CASE scenario.kind \in {"RANDOM_WITHHOLDING", "TARGETED_WITHHOLDING"} ->
                 {[i \in Shards |-> IF i \in gone THEN Absent ELSE store[i]] : gone \in Removals}
          [] scenario.kind = "CORRUPT_SHARD" -> {[store EXCEPT ![first] = Junk]}
          [] scenario.kind = "DUPLICATE_SHARD" -> {[store EXCEPT ![first] = store[other]]}
          [] scenario.kind = "REORDERED_SHARD" ->
                 {[store EXCEPT ![first] = store[sample[2]], ![sample[2]] = store[first]]}
          [] OTHER -> {store}

\* A reordering unpacks two samples.
Undamageable == scenario.kind = "REORDERED_SHARD" /\ model.samples = 1

Damage ==
    /\ phase = "issued"
    /\ IF Undamageable THEN phase' = "raised" /\ UNCHANGED <<store, served, history>>
       ELSE /\ store' \in DamagedStore
            /\ served' = IF scenario.kind = "SELECTIVE_SERVICE" THEN served \ {sample[1]} ELSE served
            /\ history' = [history EXCEPT !.intact = {i \in Shards : store'[i] = i}]
            /\ phase' = "counting"
    /\ UNCHANGED <<model, scenario, sample, cursor, tally, status>>

-----------------------------------------------------------------------------
\* shard_hash: what one read of a shard's file yields.  A file replaced between
\* the stat and the open, whatever it is replaced by, reads as absent.
Reads(i) == {store[i]} \cup (IF history.meddled < Meddling THEN {Absent} ELSE {})

Noticed(i, seen) ==
    history' = IF seen = store[i] THEN history ELSE [history EXCEPT !.meddled = @ + 1]

\* First pass of verify_reconstruction: every record of the layout.
CountShard ==
    /\ phase = "counting"
    /\ \E seen \in Reads(cursor) :
          /\ Noticed(cursor, seen)
          /\ tally' = [tally EXCEPT !.total = @ + (IF seen = cursor THEN 1 ELSE 0)]
    /\ IF cursor + 1 = model.total THEN phase' = "checking" /\ cursor' = 1
       ELSE cursor' = cursor + 1 /\ UNCHANGED phase
    /\ UNCHANGED <<model, scenario, store, sample, served, status>>

\* The tally after a served sample was read.
Checked(i, seen) ==
    CASE seen = Absent -> [tally EXCEPT !.missing = @ \cup {i}]
      [] seen = i      -> [tally EXCEPT !.verified = @ + 1]
      [] OTHER         -> [tally EXCEPT !.corrupt = @ \cup {i}]

\* Second pass: every sample, a repeated one as often as it was drawn.
CheckSample ==
    /\ phase = "checking" /\ cursor <= Len(sample)
    /\ LET i == sample[cursor]
       IN  IF i \notin served THEN UNCHANGED <<tally, history>>
           ELSE \E seen \in Reads(i) : Noticed(i, seen) /\ tally' = Checked(i, seen)
    /\ cursor' = cursor + 1
    /\ UNCHANGED <<model, scenario, phase, store, sample, served, status>>

Omitted == {sample[i] : i \in DOMAIN sample} \ served

\* Faulty variant: a missing sample alone decides.
VerdictBySamples ==
    CASE Omitted # {} /\ Mode(scenario.kind) = "SELECTIVE_SERVING" -> "SELECTIVE_SERVICE"
      [] tally.corrupt # {} -> "CORRUPT"
      [] tally.missing # {} -> "WITHHELD"
      [] OTHER -> "VERIFIED"

Verdict ==
    CASE Omitted # {} /\ Mode(scenario.kind) = "SELECTIVE_SERVING" -> "SELECTIVE_SERVICE"
      [] tally.corrupt # {} -> "CORRUPT"
      [] tally.missing # {} \/ tally.total < model.threshold -> "WITHHELD"
      [] OTHER -> "VERIFIED"

\* The result's validator compares the two counts; _execute_scenario raises when
\* the status is not the scenario's.
Conclude ==
    /\ phase = "checking" /\ cursor > Len(sample)
    /\ IF tally.verified > tally.total THEN phase' = "raised" /\ UNCHANGED status
       ELSE /\ status' = Verdict
            /\ phase' = IF Verdict = ExpectedStatus(scenario.kind) THEN "concluded" ELSE "raised"
    /\ UNCHANGED <<model, scenario, store, sample, served, cursor, tally, history>>

\* Another process deletes, spoils or restores a file between two reads.
Meddle ==
    /\ phase \in {"counting", "checking"} /\ history.meddled < Meddling
    /\ \E i \in Shards : \E file \in {Absent, Junk, i} \ {store[i]} :
          /\ store' = [store EXCEPT ![i] = file]
          /\ history' = [history EXCEPT !.meddled = @ + 1, !.restored = @ \/ file = i]
    /\ UNCHANGED <<model, scenario, phase, sample, served, cursor, tally, status>>

StoreNext ==
    Initialize \/ IssueCertificate \/ Damage \/ CountShard \/ CheckSample \/ Conclude \/ Meddle

StoreSpec == StoreInit /\ [][StoreNext]_storeVars

-----------------------------------------------------------------------------
(* Properties *)

\* What VERIFIED says: enough shards to reconstruct, and every sample served, were
\* intact when the verifier began - unless somebody put a shard back under it.
VerifiedWasAvailable ==
    status = "VERIFIED" /\ ~history.restored =>
        /\ Cardinality(history.intact) >= model.threshold
        /\ \A i \in DOMAIN sample : sample[i] \in served => sample[i] \in history.intact

\* "verified_sample_count cannot exceed verified_total_shards"
\* (auditor/availability/sampling.py:48), of a store nobody touches.
CountsAgree ==
    phase \in {"concluded", "raised"} /\ history.meddled = 0 => tally.verified <= tally.total
=============================================================================
