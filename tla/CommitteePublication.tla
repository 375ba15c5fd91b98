-------------------------- MODULE CommitteePublication --------------------------
(***************************************************************************)
(* The publication of E8, src/poi_mpp/experiments/e8_consensus.py and      *)
(* e8_multiepoch.py: a plan and a contract are read and closed against     *)
(* each other and against the hash of the simulator's sources, the         *)
(* simulation writes an artifact or, repeated over epochs, a multi-epoch   *)
(* artifact, and a later process loads it by running the plan again.  Plan,*)
(* contract, sources and artifacts may be edited meanwhile; a process goes *)
(* on with the sources it imported.  A hash is the value it is taken of.   *)
(***************************************************************************)
EXTENDS Integers, FiniteSets

CONSTANTS
    Processes,
    Plans,          \* [Cases -> [world, capped, epoch, seed]]
    Agreed,         \* contracts: [cases, exogenous, policy]
    Versions,       \* of the sources
    Share,          \* Share[version, world, capped, seed]: the attacker's share of the weight
    ShareLimit, ShareDelta,    \* what the support and the negative row are held to
    Rewrites        \* bound: edits of the files

Cases == {"baseline", "uncapped", "idle"}    \* support, negative control, boundary

ValidPolicy(policy) ==
    policy.start \in Int /\ policy.epochs \in Nat /\ policy.epochs >= 3 /\ policy.stride \in Nat \ {0}
ValidContract(k) == DOMAIN k.cases = Cases /\ ValidPolicy(k.policy)
ValidPlan(plan) ==
    /\ plan = [id \in Cases |-> plan[id]]
    /\ \A id \in Cases : /\ plan[id] = [world |-> plan[id].world, capped |-> plan[id].capped,
                                         epoch |-> plan[id].epoch, seed |-> plan[id].seed]
                         /\ plan[id].epoch \in Int /\ plan[id].seed \in Int

ASSUME PublicationAssumption ==
    /\ \A p \in Plans : ValidPlan(p)
    /\ \A k \in Agreed : ValidContract(k)
    /\ Rewrites \in Nat

VARIABLES
    disk,           \* what plan, contract and sources say now
    stored,         \* the two artifacts on disk, or Absent
    rewritten,      \* edits so far
    process         \* per process: its step, the sources it imported, what it has read

committeeVars == <<disk, stored, rewritten, process>>

Absent == [is |-> "absent"]
Spoiled == [is |-> "spoiled"]    \* a text that does not parse
Kinds == {"base", "epochs"}
Errands == [does : {"publish"}, kind : Kinds, withPlan : {TRUE}]
               \cup [does : {"load"}, kind : {"base"}, withPlan : BOOLEAN]
               \cup [does : {"load"}, kind : {"epochs"}, withPlan : {TRUE}]
Away == [step |-> "away"]

CommitteeInit ==
    /\ disk \in [plan : Plans, contract : Agreed, sources : Versions]
    /\ stored = [kind \in Kinds |-> Absent]
    /\ rewritten = 0
    /\ process = [p \in Processes |-> Away]

-----------------------------------------------------------------------------
(* The simulation *)

Exogenous(case) == [world |-> case.world, epoch |-> case.epoch]

\* load_e8_publication_plan without its hashes: scenario hashes, seeds, and the
\* support and negative rows' common world, against the contract.
Resolves(plan, contract) ==
    /\ plan = contract.cases
    /\ Exogenous(plan["baseline"]) = contract.exogenous
    /\ Exogenous(plan["uncapped"]) = contract.exogenous

\* E8ScenarioRow: what a case made, beside all that it was made from.
ScenarioRow(case, share) == [case |-> case, share |-> share]

RunCase(version, case) == ScenarioRow(case, Share[version, case.world, case.capped, case.seed])
RunPlan(version, plan) == [id \in Cases |-> RunCase(version, plan[id])]

\* publication_precheck_reasons gives none: the rows close against the contract.
Prechecked(rows, contract) == \A id \in Cases : rows[id].case = contract.cases[id]

\* The three kinds of assertion, by the role of the row.
SupportHolds(rows) == rows["baseline"].share <= ShareLimit
BoundaryHolds(rows) == rows["idle"].share = 0
NegativeHolds(rows, contract) ==
    /\ \A id \in {"baseline", "uncapped"} : Exogenous(rows[id].case) = contract.exogenous
    /\ rows["uncapped"].case.seed = rows["baseline"].case.seed
    /\ rows["uncapped"].share - rows["baseline"].share >= ShareDelta

\* summarize_e8_rows
Supported(rows, contract) ==
    Prechecked(rows, contract) /\ SupportHolds(rows) /\ BoundaryHolds(rows) /\ NegativeHolds(rows, contract)

Finding(rows, contract) == IF Supported(rows, contract) THEN "SUPPORTED" ELSE "INCONCLUSIVE"

\* _shift_scenario and the seed of the epoch
Shift(plan, offset, policy) ==
    [id \in Cases |-> [plan[id] EXCEPT !.epoch = @ + offset, !.seed = @ + offset * policy.stride]]

EpochRows(version, plan, policy) ==
    [epoch \in policy.start .. policy.start + policy.epochs - 1 |->
        RunPlan(version, Shift(plan, epoch - policy.start, policy))]

Earliest(plan) == CHOOSE e \in {plan[id].epoch : id \in Cases} : \A id \in Cases : e <= plan[id].epoch

\* run_e8_multiepoch and E8MultiEpochArtifact: what makes it raise.
Reissuable(finding, plan, policy) ==
    /\ finding = policy.claim
    /\ Earliest(plan) = policy.start
    /\ \A id \in Cases : plan[id].epoch = policy.start
    /\ policy.claim = "INCONCLUSIVE"

\* The artifact of a kind, the sources hashed when the plan was loaded and, for the
\* multi-epoch one, again after the simulation.
Made(kind, version, plan, contract, closure, closureNow) ==
    LET rows == RunPlan(version, plan)
        base == [plan |-> plan, contract |-> contract, closure |-> closure]
    IN  CASE kind = "base" ->
               [is |-> "base", of |-> base, rows |-> rows, finding |-> Finding(rows, contract)]
          [] kind = "epochs" /\ Reissuable(Finding(rows, contract), plan, contract.policy) ->
               [is |-> "epochs", of |-> base, rows |-> EpochRows(version, plan, contract.policy),
                finding |-> "INCONCLUSIVE", closure |-> closureNow]
          [] OTHER -> Absent

-----------------------------------------------------------------------------
(* A process *)

Does(p, step) == process[p].step = step
Set(p, state) == process' = [process EXCEPT ![p] = state]
Quit(p) == Set(p, Away)

\* It imports the sources as they are now.
Start(p, errand) ==
    /\ Does(p, "away")
    /\ Set(p, [step |-> IF errand.does = "publish" THEN "plan" ELSE "artifact", errand |-> errand,
               version |-> disk.sources, steady |-> TRUE])
    /\ UNCHANGED <<disk, stored, rewritten>>

Took(p, fields, step) ==
    Set(p, [f \in DOMAIN process[p] \cup DOMAIN fields |->
               IF f = "step" THEN step
               ELSE IF f \in DOMAIN fields THEN fields[f] ELSE process[p][f]])

Finish(p, artifact) == Set(p, [step |-> "done", steady |-> process[p].steady, accepted |-> artifact])

\* Without a plan path the snapshots in the artifact take the files' place.
TakeArtifact(p) ==
    /\ Does(p, "artifact")
    /\ LET read == stored[process[p].errand.kind]
       IN  IF read = Absent THEN Quit(p)
           ELSE IF process[p].errand.withPlan THEN Took(p, [artifact |-> read], "plan")
           ELSE Took(p, [artifact |-> read, plan |-> read.of.plan, contract |-> read.of.contract,
                         closure |-> read.of.closure], "resolve")
    /\ UNCHANGED <<disk, stored, rewritten>>

\* A file that is not strict YAML of the model's fields raises.
TakePlan(p) ==
    /\ Does(p, "plan")
    /\ IF disk.plan \in Plans THEN Took(p, [plan |-> disk.plan], "contract") ELSE Quit(p)
    /\ UNCHANGED <<disk, stored, rewritten>>

TakeContract(p) ==
    /\ Does(p, "contract")
    /\ IF disk.contract \in Agreed THEN Took(p, [contract |-> disk.contract], "closure") ELSE Quit(p)
    /\ UNCHANGED <<disk, stored, rewritten>>

HashClosure(p) ==
    /\ Does(p, "closure")
    /\ Took(p, [closure |-> disk.sources], "resolve")
    /\ UNCHANGED <<disk, stored, rewritten>>

\* _resolve_e8_publication_plan hashes the sources once more.
Resolve(p) ==
    /\ Does(p, "resolve")
    /\ IF process[p].closure = disk.sources /\ Resolves(process[p].plan, process[p].contract)
         THEN Took(p, [closure |-> disk.sources], "run") ELSE Quit(p)
    /\ UNCHANGED <<disk, stored, rewritten>>

Result(p) ==
    Made(process[p].errand.kind, process[p].version, process[p].plan, process[p].contract,
         process[p].closure, disk.sources)

Publishes(p) ==
    /\ Does(p, "run") /\ process[p].errand.does = "publish"
    /\ IF Result(p) = Absent THEN Quit(p)
         ELSE Set(p, [step |-> "write", errand |-> process[p].errand, steady |-> process[p].steady, result |-> Result(p)])
    /\ UNCHANGED <<disk, stored, rewritten>>

\* _atomic_write_json: a temporary file of its own, moved onto the target, which is
\* then read again; a process that dies before the move leaves the target alone.
Replace(p) ==
    /\ Does(p, "write")
    /\ stored' = [stored EXCEPT ![process[p].errand.kind] = process[p].result]
    /\ Took(p, <<>>, "verify")
    /\ UNCHANGED <<disk, rewritten>>

Verify(p) ==
    /\ Does(p, "verify")
    /\ IF stored[process[p].errand.kind] = process[p].result
         THEN Finish(p, process[p].result) ELSE Quit(p)
    /\ UNCHANGED <<disk, stored, rewritten>>

\* Faulty variant: the hashes and the snapshots agree, and that is enough.
SameHashes(p) ==
    LET read == process[p].artifact
        again == Result(p)
    IN  again # Absent /\ read.of = again.of

\* The plan's run again gives the artifact, whole.
Same(p) == process[p].artifact = Result(p)

Accept(p) ==
    /\ Does(p, "run") /\ process[p].errand.does = "load"
    /\ IF Same(p) THEN Finish(p, process[p].artifact) ELSE Quit(p)
    /\ UNCHANGED <<disk, stored, rewritten>>

\* One that dies earlier is one that takes no further step.
Leave(p) ==
    /\ Does(p, "done")
    /\ Quit(p)
    /\ UNCHANGED <<disk, stored, rewritten>>

\* An edited artifact: a row's share, or the hash of today's sources for the old one.
Doctored(artifact) ==
    {[artifact EXCEPT !.of.closure = disk.sources]}
        \cup (IF artifact.is = "epochs" THEN {[artifact EXCEPT !.closure = disk.sources, !.of.closure = disk.sources]}
              ELSE {[artifact EXCEPT !.rows["baseline"].share = 0], [artifact EXCEPT !.finding = "SUPPORTED"]})

\* bound: Rewrites
Rewrite ==
    /\ rewritten < Rewrites
    /\ rewritten' = rewritten + 1
    /\ \/ /\ \/ \E plan \in Plans \cup {Spoiled} : disk' = [disk EXCEPT !.plan = plan]
             \/ \E contract \in Agreed \cup {Spoiled} : disk' = [disk EXCEPT !.contract = contract]
          /\ UNCHANGED <<stored, process>>
       \/ /\ \E version \in Versions \ {disk.sources} : disk' = [disk EXCEPT !.sources = version]
          /\ process' = [p \in Processes |-> IF Does(p, "away") THEN Away ELSE [process[p] EXCEPT !.steady = FALSE]]
          /\ UNCHANGED stored
       \/ /\ \E kind \in {k \in Kinds : stored[k] # Absent} :
                \E other \in Doctored(stored[kind]) : stored' = [stored EXCEPT ![kind] = other]
          /\ UNCHANGED <<disk, process>>

CommitteeNext ==
    \/ \E p \in Processes :
          \/ TakeArtifact(p) \/ TakePlan(p) \/ TakeContract(p) \/ HashClosure(p) \/ Resolve(p)
          \/ Publishes(p) \/ Replace(p) \/ Verify(p) \/ Accept(p) \/ Leave(p)
          \/ \E errand \in Errands : Start(p, errand)
    \/ Rewrite

CommitteeSpec == CommitteeInit /\ [][CommitteeNext]_committeeVars

-----------------------------------------------------------------------------
(* Property *)

\* An artifact a process has published or loaded is about a plan and a contract that
\* close against each other, and is what the sources it names make of them, although
\* they and the artifact were edited and other processes wrote to it: its first epoch
\* is the base plan's own, no two epochs share a scenario's seed, and its finding is
\* earned by its own rows.  Only a process that outlived an edit of the sources can
\* take one of other sources for its own.
ReplayAuthoritative ==
    \A p \in Processes : Does(p, "done") =>
        LET artifact == process[p].accepted
            rows == RunPlan(artifact.of.closure, artifact.of.plan)
            policy == artifact.of.contract.policy
            epochs == policy.start .. policy.start + policy.epochs - 1
        IN  /\ artifact.of.plan = artifact.of.contract.cases
            /\ artifact.finding = "SUPPORTED" =>
                  artifact.is = "base" /\ Supported(artifact.rows, artifact.of.contract)
            /\ process[p].steady => CASE artifact.is = "base" -> artifact.rows = rows
                                      [] artifact.is = "epochs" ->
                                            /\ artifact.rows[policy.start] = rows
                                            /\ artifact.closure = artifact.of.closure
            /\ artifact.is = "epochs" =>
                  \A d \in epochs, e \in epochs, id \in Cases :
                      /\ artifact.rows[e][id].case.epoch = e
                      /\ d # e => artifact.rows[d][id].case.seed # artifact.rows[e][id].case.seed
=============================================================================
