---------------------------- MODULE SeedSensitivity ----------------------------
(***************************************************************************)
(* The multi-seed sensitivity of E5 and E6, e5_multiseed.py and            *)
(* e6_multiseed.py over e5_e6_multiseed.py: every scenario of the plan is  *)
(* simulated again on seeds of a configuration that binds contract, plan   *)
(* and run configuration by their hashes.  The files are read in fourteen  *)
(* readings: hashed, loaded again and hashed, loaded and checked, and      *)
(* loaded once more to be used.  A hash is the value it is taken of.       *)
(***************************************************************************)
EXTENDS Integers, FiniteSets, Sequences

CONSTANTS
    Agreements,       \* sequences of [id, variant, seed], as contract or plan
    Bindings,         \* run configurations [model, dataset]
    MultiConfigs,     \* [contract, plan, config, expected, seeds]
    Retouches         \* bound: edits of the files

ValidMultiConfig(m) ==
    /\ IsFiniteSet(m.seeds) /\ m.seeds # {}
    /\ \A i, j \in DOMAIN m.expected : m.expected[i] = m.expected[j] => i = j
    /\ {m.contract, m.plan} \subseteq Agreements /\ m.config \in Bindings

ASSUME SensitivityAssumption ==
    /\ \A m \in MultiConfigs : ValidMultiConfig(m)
    /\ Retouches \in Nat

VARIABLES
    text,         \* what the four files say now
    retouched,    \* edits so far
    steady,       \* none of them while the readings went on
    seen,         \* the readings so far
    attempts,     \* [seed, id, complete] of each attempt
    sensitivity   \* the artifact, or Pending, or Refused

seedVars == <<text, retouched, steady, seen, attempts, sensitivity>>

Pending == [is |-> "pending"]
Refused == [is |-> "refused"]

SeedInit ==
    /\ text \in [multi : MultiConfigs, contract : Agreements, plan : Agreements, config : Bindings]
    /\ retouched = 0 /\ steady = TRUE
    /\ seen = <<>> /\ attempts = <<>>
    /\ sensitivity = Pending

-----------------------------------------------------------------------------
(* Readings *)

Readings == <<"multi", "contract", "plan", "config", "multi", "contract", "plan", "config",
              "contract", "plan", "config", "contract", "plan", "config">>

\* A hash is compared with the reading of the multi-seed configuration before it.
HashMatches(said) ==
    LET file == Readings[Len(said)]
        multi == IF Len(said) > 4 THEN said[5] ELSE said[1]
    IN  file # "multi" /\ Len(said) <= 8 => said[Len(said)] = multi[file]

Names(agreement) == [i \in DOMAIN agreement |-> agreement[i].id]
Elements(seq) == {seq[i] : i \in DOMAIN seq}

\* Faulty variant: the confirmatory seeds may be used again.
AgreesAnySeeds(multi, contract, plan, config) ==
    /\ Names(plan) = multi.expected
    /\ Elements(plan) = Elements(contract)
    /\ config.model = contract /\ config.dataset = plan

\* load_e6_multiseed_config
Agrees(multi, contract, plan, config) ==
    /\ Names(plan) = multi.expected
    /\ Elements(plan) = Elements(contract)
    /\ multi.seeds \cap {entry.seed : entry \in Elements(contract)} = {}
    /\ config.model = contract /\ config.dataset = plan

ReadNext ==
    /\ sensitivity = Pending /\ Len(seen) < Len(Readings)
    /\ LET said == Append(seen, text[Readings[Len(seen) + 1]])
       IN  IF HashMatches(said) /\ (Len(said) = 11 => Agrees(said[5], said[9], said[10], said[11]))
             THEN seen' = said /\ UNCHANGED sensitivity
             ELSE sensitivity' = Refused /\ UNCHANGED seen
    /\ UNCHANGED <<text, retouched, steady, attempts>>

-----------------------------------------------------------------------------
(* Attempts: the simulation returns a row or raises *)

Multi == seen[1]
Plan == seen[13]
Ready == sensitivity = Pending /\ Len(seen) = Len(Readings)
Attempted == {<<a.seed, a.id>> : a \in Elements(attempts)}

\* Of a scenario the configuration does not expect even a row ends in a failure.
Attempt(seed, entry) ==
    /\ Ready
    /\ <<seed, entry.id>> \notin Attempted
    /\ \A s \in Multi.seeds : s < seed => \A e \in Elements(Plan) : <<s, e.id>> \in Attempted
    /\ \E returned \in BOOLEAN :
          attempts' = Append(attempts, [seed |-> seed, id |-> entry.id, variant |-> entry.variant,
                                        complete |-> returned /\ entry.id \in Elements(Multi.expected)])
    /\ UNCHANGED <<text, retouched, steady, seen, sensitivity>>

Failures == {a \in Elements(attempts) : ~a.complete}

Completed(id) == Cardinality({a \in Elements(attempts) : a.id = id /\ a.complete})

WriteArtifact ==
    /\ Ready
    /\ \A seed \in Multi.seeds, entry \in Elements(Plan) : <<seed, entry.id>> \in Attempted
    /\ sensitivity' =
          [is |-> "artifact", multi |-> Multi, config |-> seen[14], results |-> attempts,
           disposition |-> IF Failures # {} THEN "INCONCLUSIVE" ELSE "NO_UPGRADE",
           failed |-> [id \in Elements(Multi.expected) |-> Cardinality(Multi.seeds) - Completed(id)]]
    /\ UNCHANGED <<text, retouched, steady, seen, attempts>>

\* bound: Retouches
RetouchFile ==
    /\ retouched < Retouches
    /\ retouched' = retouched + 1
    /\ steady' = (steady /\ (seen = <<>> \/ Len(seen) = Len(Readings)))
    /\ \/ \E m \in MultiConfigs : text' = [text EXCEPT !.multi = m]
       \/ \E a \in Agreements, f \in {"contract", "plan"} : text' = [text EXCEPT ![f] = a]
       \/ \E b \in Bindings : text' = [text EXCEPT !.config = b]
    /\ UNCHANGED <<seen, attempts, sensitivity>>

SeedNext ==
    \/ ReadNext \/ WriteArtifact \/ RetouchFile
    \/ Ready /\ \E seed \in Multi.seeds, entry \in Elements(Plan) : Attempt(seed, entry)

SeedSpec == SeedInit /\ [][SeedNext]_seedVars

-----------------------------------------------------------------------------
(* Properties *)

\* An artifact is about the sources it binds, on seeds none of which is a
\* confirmatory one, and inconclusive when a scenario lacks a row on a seed, unless
\* one of the files was edited while they were being read.
SensitivityBound ==
    sensitivity.is = "artifact" /\ steady =>
        LET bound == sensitivity.multi
            scenarios == {[id |-> r.id, variant |-> r.variant] : r \in Elements(sensitivity.results)}
        IN  /\ scenarios = {[id |-> e.id, variant |-> e.variant] : e \in Elements(bound.plan)}
            /\ sensitivity.config.model = bound.contract /\ sensitivity.config.dataset = bound.plan
            /\ \A e \in Elements(bound.contract) : e.seed \notin bound.seeds
            /\ sensitivity.disposition = "INCONCLUSIVE" \/ \A id \in DOMAIN sensitivity.failed : sensitivity.failed[id] = 0
=============================================================================
