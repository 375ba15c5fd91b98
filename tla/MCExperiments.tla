---------------------------- MODULE MCExperiments ----------------------------
(* The experiments' modules share no state.  One run checks them all: moving  *)
(* names the one that takes steps, the others stay in one initial state.      *)
EXTENDS Availability, E4Bundle, TamperEvaluation, SybilSchedule, WatcherGame, TLC

CONSTANTS q1, q2, s1, s2, c1, c2

VARIABLE moving

Model(n, k, s, again) == [total |-> n, threshold |-> k, samples |-> s, replacement |-> again]

\* Three shards of which two reconstruct, sampled twice without and three times
\* with replacement; three of which all are needed; four sampled once.
MCModels == {Model(3, 2, 2, FALSE), Model(3, 2, 3, TRUE), Model(3, 3, 2, FALSE), Model(4, 2, 1, FALSE)}

\* The second watcher pays more.
MCOwnCosts == [w \in 1..Watchers |-> 1 + w]

StoreRests == model = Model(3, 3, 2, FALSE) /\ scenario = [kind |-> "CORRUPT_SHARD", mutations |-> 1]
BundleRests == target = Empty /\ \A e \in Executors : executor[e].config = "c1"
SybilRests == capacityModel = "CAPACITY_COMMITTED"
WatcherRests == game = CHOOSE g \in Scenarios : TRUE

Symmetry == Permutations({q1, q2}) \cup Permutations({s1, s2}) \cup Permutations({c1, c2})

allVars == <<storeVars, bundleVars, tamperVars, sybilVars, watcherVars, moving>>

Init ==
    /\ moving \in {"store", "bundle", "tamper", "sybil", "watcher"}
    /\ StoreInit /\ (moving # "store" => StoreRests)
    /\ BundleInit /\ (moving # "bundle" => BundleRests)
    /\ TamperInit
    /\ SybilInit /\ (moving # "sybil" => SybilRests)
    /\ (moving # "watcher" => WatcherRests) /\ WatcherInit

Next ==
    /\ UNCHANGED moving
    /\ \/ moving = "store" /\ StoreNext /\ UNCHANGED <<bundleVars, tamperVars, sybilVars, watcherVars>>
       \/ moving = "bundle" /\ BundleNext /\ UNCHANGED <<storeVars, tamperVars, sybilVars, watcherVars>>
       \/ moving = "tamper" /\ TamperNext /\ UNCHANGED <<storeVars, bundleVars, sybilVars, watcherVars>>
       \/ moving = "sybil" /\ SybilNext /\ UNCHANGED <<storeVars, bundleVars, tamperVars, watcherVars>>
       \/ moving = "watcher" /\ WatcherNext /\ UNCHANGED <<storeVars, bundleVars, tamperVars, sybilVars>>

Spec == Init /\ [][Next]_allVars
=============================================================================
