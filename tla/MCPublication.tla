----------------------------- MODULE MCPublication -----------------------------
(* The publication of the simulations and measurements, and of the report.  The *)
(* modules share no state: moving names the one that takes steps.                *)
EXTENDS SimulationRun, SeedSensitivity, CostMeasurement, CommitteePublication, PublicationReport, TLC

CONSTANTS d1, d2, p1, p2, b1, b2

VARIABLE moving

\* E5 and E6: contracts that differ in one row, by its variant or by the seeds; the
\* claim holds of the declared variant with the first seed only.
Named(variant, seed) == [i \in Ids |-> [variant |-> IF i = "many" THEN variant ELSE "declared", seed |-> seed]]
MCContracts == {Named("declared", 1), Named("declared", 2), Named("gaining", 1)}
MCCredit ==
    [<<i, v, s>> \in Ids \X {"declared", "gaining"} \X {1, 2} |->
        IF i = "uniformMany" \/ (i = "many" /\ (v = "gaining" \/ s = 2)) THEN 6 ELSE 4]
Bound(model, dataset, authorized, parents) ==
    [model |-> model, dataset |-> dataset, authorized |-> authorized, parents |-> parents]
MCRunConfigs ==
    {Bound(k, k, TRUE, FALSE) : k \in MCContracts}
        \cup {Bound(Named("gaining", 1), Named("declared", 1), TRUE, FALSE),
              Bound(Named("declared", 1), Named("declared", 1), TRUE, TRUE),
              Bound(Named("declared", 1), Named("declared", 1), FALSE, FALSE)}

\* Two scenarios and their agreements in either order, one that gains, one alone.
Entry(id, variant) == [id |-> id, variant |-> variant, seed |-> 1]
A1 == <<Entry("one", "declared"), Entry("many", "declared")>>
A2 == <<Entry("many", "declared"), Entry("one", "declared")>>
A3 == <<Entry("one", "declared"), Entry("many", "gaining")>>
A4 == <<Entry("one", "declared")>>
MCAgreements == {A1, A2, A3, A4}
MCBindings == {[model |-> a, dataset |-> a] : a \in {A1, A3}} \cup {[model |-> A1, dataset |-> A2], [model |-> A4, dataset |-> A4]}
Sensitivity(contract, plan, seeds) ==
    [contract |-> contract, plan |-> plan, config |-> [model |-> contract, dataset |-> plan],
     expected |-> Names(plan), seeds |-> seeds]
MCMultis ==
    {Sensitivity(A1, A1, {2, 3}), Sensitivity(A1, A2, {2, 3}), Sensitivity(A4, A4, {1, 2}), Sensitivity(A4, A4, {2, 3})}

MCFixtureTimes == {-1, 0}

\* E1: what random.Random(1) draws in 256 resamples of three pairs, each resample in
\* ascending order, which leaves its sum; the second pair is drawn alone six times.
Times(n, draws) == [i \in 1 .. n |-> draws]
MCResamples ==
    Times(7, <<1, 1, 1>>) \o Times(30, <<1, 1, 2>>) \o Times(28, <<1, 1, 3>>) \o Times(23, <<1, 2, 2>>)
        \o Times(67, <<1, 2, 3>>) \o Times(25, <<1, 3, 3>>) \o Times(6, <<2, 2, 2>>)
        \o Times(32, <<2, 2, 3>>) \o Times(27, <<2, 3, 3>>) \o Times(11, <<3, 3, 3>>)

\* E8: a plan the claim holds of and one, with other seeds, it does not; the second
\* version of the simulator gives the attacker more.
Case(world, capped, seed) == [world |-> world, capped |-> capped, epoch |-> 2, seed |-> seed]
Committee(seed) ==
    [id \in Cases |-> CASE id = "baseline" -> Case("busy", TRUE, seed)
                        [] id = "uncapped" -> Case("busy", FALSE, seed)
                        [] OTHER -> Case("still", TRUE, 1)]
MCPlans == {Committee(1), Committee(2)}
MCAgreed ==
    {[cases |-> plan, exogenous |-> Exogenous(plan["baseline"]),
      policy |-> [claim |-> "INCONCLUSIVE", start |-> 2, epochs |-> 3, stride |-> 2]] : plan \in MCPlans}
MCShare ==
    [<<v, w, c, s>> \in {1, 2} \X {"busy", "still"} \X BOOLEAN \X (1 .. 6) |->
        IF w = "still" THEN 0 ELSE IF c THEN v ELSE IF s = 1 THEN 3 ELSE 1]

MCConfigured == {<<"E1", "E2">>, <<"E3", "E7">>, <<"E4", "E8">>, <<"E5", "E6">>}

Symmetry == Permutations(Drivers) \cup Permutations(Processes) \cup Permutations(Builders)

SimulationRests == experiment = "E5" /\ source = CHOOSE s \in [contract : Contracts, plan : Contracts, config : RunConfigs] : TRUE
SeedsRest == text = CHOOSE t \in [multi : MultiConfigs, contract : Agreements, plan : Agreements, config : Bindings] : TRUE
CostRests ==
    /\ setup = [design |-> "FIXED_ORDER_PILOT", origin |-> "REAL_MODEL_EXECUTION", injected |-> FALSE,
                bundle |-> "none", authorized |-> FALSE, registry |-> FALSE, warmups |-> 0,
                overhead |-> CHOOSE o \in Overheads : TRUE]
    /\ machine = [time |-> CHOOSE t \in Speeds : TRUE, loaded |-> FALSE]
\* At most one of origin, bundle, authority and registry keeps a record from being frozen;
\* where one does, or the clock is a fixture, the machine is warm from the beginning.
CostMoves ==
    LET clear == <<setup.origin = "REAL_MODEL_EXECUTION", setup.bundle = "clean", setup.authorized, setup.registry>>
        obstacles == {i \in 1 .. 4 : ~clear[i]}
    IN  /\ Cardinality(obstacles) <= 1
        /\ setup.injected \/ obstacles # {} => \A t \in Speeds : machine.time <= t
CommitteeRests == disk.plan = Committee(1) /\ disk.contract.cases = Committee(1) /\ disk.sources = 1

allVars == <<runVars, seedVars, costVars, committeeVars, reportVars, moving>>

Init ==
    /\ moving \in {"simulation", "seeds", "cost", "committee", "report"}
    /\ RunInit /\ (moving # "simulation" => SimulationRests)
    /\ SeedInit /\ (moving # "seeds" => SeedsRest)
    /\ (moving # "cost" => CostRests) /\ CostInit /\ (moving = "cost" => CostMoves)
    /\ CommitteeInit /\ (moving # "committee" => CommitteeRests)
    /\ ReportInit

Next ==
    /\ UNCHANGED moving
    /\ \/ moving = "simulation" /\ RunNext /\ UNCHANGED <<seedVars, costVars, committeeVars, reportVars>>
       \/ moving = "seeds" /\ SeedNext /\ UNCHANGED <<runVars, costVars, committeeVars, reportVars>>
       \/ moving = "cost" /\ CostNext /\ UNCHANGED <<runVars, seedVars, committeeVars, reportVars>>
       \/ moving = "committee" /\ CommitteeNext /\ UNCHANGED <<runVars, seedVars, costVars, reportVars>>
       \/ moving = "report" /\ ReportNext /\ UNCHANGED <<runVars, seedVars, costVars, committeeVars>>

Spec == Init /\ [][Next]_allVars
=============================================================================
