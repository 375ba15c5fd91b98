----------------------------- MODULE SimulationRun -----------------------------
(***************************************************************************)
(* The publication run of E5 and E6 (src/experiments/e5_watcher_economics, *)
(* e6_sybil_economics): a contract names the scenarios and seeds, a plan   *)
(* spells them out, a run configuration binds both by their hashes; the    *)
(* driver simulates, judges, freezes one record and writes three files.    *)
(* The three inputs are read one after the other, the contract twice, and  *)
(* may be edited in between; a second driver may share the output root.    *)
(* A hash is the value it is taken of.                                     *)
(***************************************************************************)
EXTENDS Integers, FiniteSets

CONSTANTS
    Drivers,
    Contracts,      \* sets of scenarios [Ids -> [variant, seed]], as contract or plan
    RunConfigs,     \* [model, dataset, authorized, parents]
    Credit,         \* Credit[<<id, variant, seed>>]: expected credit, or width in E5, of a simulation
    Spread,         \* half the width of a credit interval
    WidthLimit, Epsilon,
    MaxEdits

Ids == {"one", "many", "uniformOne", "uniformMany"}
Baseline(id) == IF id \in {"one", "many"} THEN "one" ELSE "uniformOne"
Support == {"many"}                  \* roles, of the rows that split
NegativeControl == {"uniformMany"}

ValidRunConfig(c) == {c.model, c.dataset} \subseteq Contracts /\ {c.authorized, c.parents} \subseteq BOOLEAN

ASSUME RunAssumption ==
    /\ \A k \in Contracts : DOMAIN k = Ids
    /\ \A c \in RunConfigs : ValidRunConfig(c)
    /\ {Spread, WidthLimit, Epsilon, MaxEdits} \subseteq Nat

VARIABLES
    experiment,     \* "E5" or "E6"
    source,         \* what the three files say now
    edited,         \* edits so far
    run,            \* per driver: its step and what it has read and computed
    registered,     \* the record frozen in the registry, or Nothing
    output, temp    \* the files of the output root and their temporary files

runVars == <<experiment, source, edited, run, registered, output, temp>>

Nothing == [nothing |-> TRUE]
Files == {"rows", "summary", "metadata"}

Idle == [step |-> "config"]

RunInit ==
    /\ experiment \in {"E5", "E6"}
    /\ source \in [contract : Contracts, plan : Contracts, config : RunConfigs]
    /\ edited = 0
    /\ run = [d \in Drivers |-> Idle]
    /\ registered = Nothing
    /\ output = [f \in Files |-> Nothing] /\ temp = [f \in Files |-> Nothing]

-----------------------------------------------------------------------------
(* Rows and what is made of them *)

\* A row carries all that its result was made from.
RowOf(id, entry) ==
    [id |-> id, variant |-> entry.variant, seed |-> entry.seed, result |-> Credit[<<id, entry.variant, entry.seed>>]]

RowsOf(entries) == {RowOf(i, entries[i]) : i \in Ids}

Row(rows, id) == CHOOSE r \in rows : r.id = id

\* replay_row: a row's results are those of the simulator, or the review raises.
Replays(rows) == \A r \in rows : r.result = Credit[<<r.id, r.variant, r.seed>>]

\* Faulty variant: the seeds are not compared.
ClosesUnseeded(rows, contract) ==
    {<<r.id, r.variant>> : r \in rows} = {<<i, contract[i].variant>> : i \in Ids}

\* The rows' contracts and seeds are the confirmatory contract's, one by one.
Closes(rows, contract) ==
    {<<r.id, r.variant, r.seed>> : r \in rows} = {<<i, contract[i].variant, contract[i].seed>> : i \in Ids}

\* A split row against its group's row of one identity: common seeds share their
\* randomness and leave no interval.
Advantage(rows, id) ==
    LET row == Row(rows, id)
        base == Row(rows, Baseline(id))
        slack == IF row.seed = base.seed THEN 0 ELSE 2 * Spread
    IN  [lower |-> row.result - base.result - slack, upper |-> row.result - base.result + slack]

\* summarize_e5_rows: every interval is narrow enough.
WatchersEarn(rows) == Cardinality(rows) >= 2 /\ \A r \in rows : r.result <= WidthLimit

\* summarize_e6_rows: splitting gains nothing, except where it is expected to.
SplittersEarn(rows) ==
    /\ \A id \in Support : Advantage(rows, id).upper <= Epsilon
    /\ \A id \in NegativeControl : Advantage(rows, id).lower > Epsilon

Disposition(rows) ==
    IF (experiment = "E5" /\ WatchersEarn(rows)) \/ (experiment = "E6" /\ SplittersEarn(rows))
    THEN "SUPPORTED" ELSE "INCONCLUSIVE"

\* The rows a caller's rows_builder may return instead of the plan's.
Built(plan) ==
    {RowsOf(k) : k \in Contracts \cup {plan}}
        \cup {RowsOf(plan) \ {Row(RowsOf(plan), "many")}}
        \cup {{IF r.id = "many" THEN [r EXCEPT !.result = @ + 1] ELSE r : r \in RowsOf(plan)}}

-----------------------------------------------------------------------------
(* A driver *)

At(d, step) == run[d].step = step
Becomes(d, state) == run' = [run EXCEPT ![d] = state]
Goes(d, step) == Becomes(d, [run[d] EXCEPT !.step = step])
Knows(d, field, value, step) ==
    Becomes(d, [f \in DOMAIN run[d] \cup {field} |->
                    IF f = field THEN value ELSE IF f = "step" THEN step ELSE run[d][f]])
Ends(d) == Becomes(d, [step |-> "over"])

ReadConfig(d) ==
    /\ At(d, "config")
    /\ Knows(d, "config", source.config, "contract")
    /\ UNCHANGED <<experiment, source, edited, registered, output, temp>>

ReadContract(d) ==
    /\ At(d, "contract")
    /\ Knows(d, "contract", source.contract, "plan")
    /\ UNCHANGED <<experiment, source, edited, registered, output, temp>>

ReadPlan(d) ==
    /\ At(d, "plan")
    /\ Knows(d, "plan", source.plan, "close")
    /\ UNCHANGED <<experiment, source, edited, registered, output, temp>>

\* load_e6_publication_plan reads the contract again, through the plan's own path;
\* _require_cli_authority compares with the first reading.
Authorized(d) ==
    /\ run[d].config.authorized
    /\ run[d].config.model = run[d].contract
    /\ run[d].config.dataset = run[d].plan

CheckPlan(d) ==
    /\ At(d, "close")
    /\ IF run[d].plan = source.contract /\ Authorized(d)
         THEN Goes(d, "environment") ELSE Ends(d)
    /\ UNCHANGED <<experiment, source, edited, registered, output, temp>>

\* git says whether the tree is clean; a blocked revision stays in the record.
CollectEnvironment(d) ==
    /\ At(d, "environment")
    /\ \E clean \in BOOLEAN : Knows(d, "clean", clean, "judge")
    /\ UNCHANGED <<experiment, source, edited, registered, output, temp>>

\* validate_artifact_graph of the one record: declared parents are unknown to it.
ValidArtifact(d) == run[d].clean /\ ~run[d].config.parents

\* evaluate_publication_gate
Complete(d, reasons) == ~reasons /\ ValidArtifact(d)

\* publication_precheck_reasons gives some.
Reasons(d, rows) == ~Closes(rows, run[d].contract)

\* With reasons summarize_e5_rows is inconclusive and summarize_e6_rows raises.
Judge(d) ==
    /\ At(d, "judge")
    /\ \E rows \in Built(run[d].plan), default \in BOOLEAN :
          LET reasons == Reasons(d, rows)
          IN  /\ default => rows = RowsOf(run[d].plan)
              /\ IF ~Replays(rows) \/ (reasons /\ experiment = "E6") THEN Ends(d)
                 ELSE Becomes(d, [step |-> IF Complete(d, reasons) THEN "freeze" ELSE "rows",
                                  config |-> run[d].config, contract |-> run[d].contract, plan |-> run[d].plan,
                                  rows |-> rows, default |-> default, complete |-> Complete(d, reasons),
                                  disposition |-> IF reasons THEN "INCONCLUSIVE" ELSE Disposition(rows)])
    /\ UNCHANGED <<experiment, source, edited, registered, output, temp>>

Report(d) == [config |-> run[d].config, contract |-> run[d].contract, plan |-> run[d].plan,
              rows |-> run[d].rows, default |-> run[d].default, frozen |-> run[d].complete,
              disposition |-> run[d].disposition]

\* What follows a step: the record is frozen before any file is written.
After == [freeze |-> "rows", rows |-> "summary", summary |-> "metadata", metadata |-> "over"]

\* Faulty variant: an identifier that is taken counts as frozen.
FreezeTolerant(d) ==
    /\ At(d, "freeze")
    /\ registered' = IF registered = Nothing THEN Report(d) ELSE registered
    /\ Goes(d, After.freeze)
    /\ UNCHANGED <<experiment, source, edited, output, temp>>

\* registry.write_atomic; it raises when the identifier is taken.
Freeze(d) ==
    /\ At(d, "freeze")
    /\ IF registered = Nothing
         THEN registered' = Report(d) /\ Goes(d, After.freeze)
         ELSE UNCHANGED registered /\ Ends(d)
    /\ UNCHANGED <<experiment, source, edited, output, temp>>

\* _atomic_write_json: the temporary file's name is the same for every writer.
WriteTemp(d, file) ==
    /\ At(d, file)
    /\ temp' = [temp EXCEPT ![file] = Report(d)]
    /\ Knows(d, "placing", file, "place")
    /\ UNCHANGED <<experiment, source, edited, registered, output>>

\* os.replace raises when another writer has moved the temporary file away.
Place(d) ==
    /\ At(d, "place")
    /\ LET file == run[d].placing
       IN  IF temp[file] = Nothing
             THEN Ends(d) /\ UNCHANGED <<output, temp>>
             ELSE /\ output' = [output EXCEPT ![file] = temp[file]]
                  /\ temp' = [temp EXCEPT ![file] = Nothing]
                  /\ IF After[file] = "over" THEN Ends(d) ELSE Goes(d, After[file])
    /\ UNCHANGED <<experiment, source, edited, registered>>

Die(d) ==
    /\ run[d].step \notin {"over", "config"}
    /\ Ends(d)
    /\ UNCHANGED <<experiment, source, edited, registered, output, temp>>

\* bound: MaxEdits
EditSource ==
    /\ edited < MaxEdits
    /\ edited' = edited + 1
    /\ \/ \E k \in Contracts : source' = [source EXCEPT !.contract = k]
       \/ \E k \in Contracts : source' = [source EXCEPT !.plan = k]
       \/ \E c \in RunConfigs : source' = [source EXCEPT !.config = c]
    /\ UNCHANGED <<experiment, run, registered, output, temp>>

RunNext ==
    \/ \E d \in Drivers :
          \/ ReadConfig(d) \/ ReadContract(d) \/ ReadPlan(d) \/ CheckPlan(d) \/ CollectEnvironment(d)
          \/ Judge(d) \/ Freeze(d) \/ Place(d) \/ Die(d)
          \/ \E file \in Files : WriteTemp(d, file)
    \/ EditSource

RunSpec == RunInit /\ [][RunNext]_runVars

-----------------------------------------------------------------------------
(* Properties *)

Earned(report) ==
    report.disposition = "SUPPORTED" => Disposition(RowsOf(report.config.model)) = "SUPPORTED"

\* Whatever was edited between the reads and whoever built the rows, the frozen
\* record is about the simulator's rows of the contract its configuration binds, the
\* plan's when nobody else built them, and supports the claim only if those rows do.
FrozenAsContracted ==
    registered # Nothing =>
        /\ registered.rows = RowsOf(registered.config.model)
        /\ registered.default => registered.rows = RowsOf(registered.config.dataset)
        /\ Earned(registered)

\* A file of the output root, whose ever it is by now, claims no more than its
\* contract earns, and names a frozen artifact only if that one is in the registry.
OutputsTruthful ==
    \A file \in Files : output[file] # Nothing =>
        /\ Earned(output[file])
        /\ output[file].frozen => registered # Nothing /\ registered = output[file]
=============================================================================
