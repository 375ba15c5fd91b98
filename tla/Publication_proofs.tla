--------------------------- MODULE Publication_proofs ---------------------------
(***************************************************************************)
(* Proofs about the publication of results, for any processes, inputs and  *)
(* edits: the drivers of E5 and E6, their multi-seed sensitivity, the      *)
(* timing of E1 and the publication of E8.  The modules share no state, so *)
(* each theorem is about the behaviours of one of them.                    *)
(***************************************************************************)
EXTENDS SimulationRun, SeedSensitivity, CostMeasurement, CommitteePublication, SumTheorems, TLAPS

-----------------------------------------------------------------------------
(* The drivers of E5 and E6 (SimulationRun). *)

Judged == {"freeze", "rows", "summary", "metadata", "place"}
Closed == {"environment", "judge"} \cup Judged

\* Disposition with the experiment as a parameter.
DispositionIn(x, given) ==
    IF (x = "E5" /\ WatchersEarn(given)) \/ (x = "E6" /\ SplittersEarn(given))
    THEN "SUPPORTED" ELSE "INCONCLUSIVE"

EarnedIn(x, report) ==
    report.disposition = "SUPPORTED" => DispositionIn(x, RowsOf(report.config.model)) = "SUPPORTED"

ReportOf(r) == [config |-> r.config, contract |-> r.contract, plan |-> r.plan,
                rows |-> r.rows, default |-> r.default, frozen |-> r.complete,
                disposition |-> r.disposition]

\* What a driver past its judgement says of its given, and of the registry when it
\* has frozen a record.
Honest(r, x, reg) ==
    /\ {"rows", "default", "complete", "disposition"} \subseteq DOMAIN r
    /\ r.complete = TRUE => r.rows = RowsOf(r.contract)
    /\ r.default => r.rows = RowsOf(r.plan)
    /\ r.disposition = "SUPPORTED" => DispositionIn(x, RowsOf(r.contract)) = "SUPPORTED"
    /\ r.step = "freeze" => r.complete = TRUE
    /\ r.complete /\ r.step # "freeze" => reg = ReportOf(r)

Good(r, x, reg) ==
    /\ "step" \in DOMAIN r
    /\ r.step \in {"contract", "plan", "close"} \cup Closed => "config" \in DOMAIN r
    /\ r.step \in {"plan", "close"} \cup Closed => "contract" \in DOMAIN r
    /\ r.step \in {"close"} \cup Closed => "plan" \in DOMAIN r
    /\ r.step \in Closed => r.config.model = r.contract /\ r.config.dataset = r.plan
    /\ r.step \in Judged => Honest(r, x, reg)
    /\ r.step = "place" => "placing" \in DOMAIN r /\ r.placing \in Files

Contracted(report, x) ==
    /\ report.rows = RowsOf(report.config.model)
    /\ report.default => report.rows = RowsOf(report.config.dataset)
    /\ EarnedIn(x, report)

Truthful(report, x, reg) ==
    report # Nothing => EarnedIn(x, report) /\ (report.frozen => reg = report)

RunsGood == DOMAIN run = Drivers /\ \A d \in Drivers : Good(run[d], experiment, registered)
FilesTruthful(files) == DOMAIN files = Files /\ \A f \in Files : Truthful(files[f], experiment, registered)

IInv ==
    /\ RunsGood
    /\ registered # Nothing => Contracted(registered, experiment)
    /\ FilesTruthful(output)
    /\ FilesTruthful(temp)

LEMMA DispositionFact == \A given : Disposition(given) = DispositionIn(experiment, given)
  BY DEF Disposition, DispositionIn

LEMMA ReportFact ==
    ASSUME NEW r
    PROVE  ReportOf(r) # Nothing
  <1>1. DOMAIN ReportOf(r) # DOMAIN Nothing
    BY DEF ReportOf, Nothing
  <1> QED
    BY <1>1

\* Rows that close against a contract, and that the simulator gives, are its given.
LEMMA ClosedRows ==
    ASSUME NEW given, NEW k, Closes(given, k), Replays(given),
           \A r \in given : r = [id |-> r.id, variant |-> r.variant, seed |-> r.seed, result |-> r.result]
    PROVE  given = RowsOf(k)
  <1>1. ASSUME NEW r \in given PROVE r \in RowsOf(k)
    <2>1. <<r.id, r.variant, r.seed>> \in {<<i, k[i].variant, k[i].seed>> : i \in Ids}
      BY DEF Closes
    <2>2. PICK i \in Ids : r.id = i /\ r.variant = k[i].variant /\ r.seed = k[i].seed
      BY <2>1
    <2>3. r.result = Credit[<<r.id, r.variant, r.seed>>]
      BY DEF Replays
    <2>4. r = RowOf(i, k[i])
      BY <2>2, <2>3 DEF RowOf
    <2> QED
      BY <2>4 DEF RowsOf
  <1>2. ASSUME NEW i \in Ids PROVE RowOf(i, k[i]) \in given
    <2>1. <<i, k[i].variant, k[i].seed>> \in {<<r.id, r.variant, r.seed>> : r \in given}
      BY DEF Closes
    <2>2. PICK r \in given : r.id = i /\ r.variant = k[i].variant /\ r.seed = k[i].seed
      BY <2>1
    <2>3. r.result = Credit[<<r.id, r.variant, r.seed>>]
      BY DEF Replays
    <2>4. r = RowOf(i, k[i])
      BY <2>2, <2>3 DEF RowOf
    <2> QED
      BY <2>4
  <1> QED
    BY <1>1, <1>2 DEF RowsOf

\* A caller's given have the fields of a row.
LEMMA BuiltRows ==
    ASSUME NEW plan, NEW given \in Built(plan), NEW r \in given
    PROVE  r = [id |-> r.id, variant |-> r.variant, seed |-> r.seed, result |-> r.result]
  <1>1. ASSUME NEW k, NEW q \in RowsOf(k)
        PROVE  q = [id |-> q.id, variant |-> q.variant, seed |-> q.seed, result |-> q.result]
    <2>1. PICK i \in Ids : q = RowOf(i, k[i])
      BY <1>1 DEF RowsOf
    <2> QED
      BY <2>1 DEF RowOf
  <1>2. CASE \E k : r \in RowsOf(k)
    BY <1>1, <1>2
  <1>3. CASE \E q \in RowsOf(plan) : r = [q EXCEPT !.result = @ + 1]
    BY <1>1, <1>3
  <1>4. (\E k : r \in RowsOf(k)) \/ \E q \in RowsOf(plan) : r = [q EXCEPT !.result = @ + 1]
    BY DEF Built
  <1> QED
    BY <1>2, <1>3, <1>4

LEMMA InitInv == RunInit => IInv
  <1> SUFFICES ASSUME RunInit PROVE IInv
    OBVIOUS
  <1>1. \A x, reg : Good(Idle, x, reg)
    BY DEF Good, Idle, Closed, Judged
  <1> QED
    BY <1>1 DEF RunInit, IInv, RunsGood, FilesTruthful, Truthful, Files


(* What a driver holds after a step *)

LEMMA GoesFields ==
    ASSUME NEW r, NEW step, "step" \in DOMAIN r, NEW q, q = [r EXCEPT !.step = step]
    PROVE  /\ DOMAIN q = DOMAIN r
           /\ q.step = step
           /\ \A x \in DOMAIN r : x # "step" => q[x] = r[x]
  OBVIOUS

LEMMA OverGood == \A x, reg : Good([step |-> "over"], x, reg)
  BY DEF Good, Closed, Judged

LEMMA BecomesGood ==
    ASSUME RunsGood, NEW d \in Drivers, NEW r, Becomes(d, r),
           UNCHANGED <<experiment, registered>>, Good(r, experiment, registered)
    PROVE  RunsGood'
  BY DEF RunsGood, Becomes

LEMMA FilesKept ==
    ASSUME IInv, UNCHANGED <<experiment, registered, output, temp>>
    PROVE  FilesTruthful(output)' /\ FilesTruthful(temp)' /\ (registered # Nothing => Contracted(registered, experiment))'
  BY DEF IInv, FilesTruthful

\* A step that touches neither registry nor files.
LEMMA DriverStep ==
    ASSUME IInv, NEW d \in Drivers, NEW r, Becomes(d, r),
           UNCHANGED <<experiment, registered, output, temp>>, Good(r, experiment, registered)
    PROVE  IInv'
  BY BecomesGood, FilesKept DEF IInv

LEMMA ReadsInv ==
    ASSUME IInv, NEW d \in Drivers,
           ReadConfig(d) \/ ReadContract(d) \/ ReadPlan(d) \/ CollectEnvironment(d)
    PROVE  IInv'
  <1> DEFINE r == run[d]
  <1>1. Good(r, experiment, registered)
    BY DEF IInv, RunsGood
  <1>2. UNCHANGED <<experiment, registered, output, temp>>
    BY DEF ReadConfig, ReadContract, ReadPlan, CollectEnvironment
  <1>3. PICK field, value, step :
           /\ Knows(d, field, value, step)
           /\ \/ r.step = "config" /\ field = "config" /\ step = "contract"
              \/ r.step = "contract" /\ field = "contract" /\ step = "plan"
              \/ r.step = "plan" /\ field = "plan" /\ step = "close"
              \/ r.step = "environment" /\ field = "clean" /\ step = "judge"
    BY DEF ReadConfig, ReadContract, ReadPlan, CollectEnvironment, At
  <1> DEFINE q == [f \in DOMAIN r \cup {field} |->
                      IF f = field THEN value ELSE IF f = "step" THEN step ELSE r[f]]
  <1>4. Becomes(d, q)
    BY <1>3 DEF Knows
  <1>5. "step" \in DOMAIN r /\ field # "step"
    BY <1>1, <1>3 DEF Good
  <1>6. /\ DOMAIN q = DOMAIN r \cup {field}
        /\ q.step = step /\ q[field] = value
        /\ \A x \in DOMAIN r : x \notin {field, "step"} => q[x] = r[x]
    BY <1>5
  <1>7. Good(q, experiment, registered)
    <2> HIDE DEF q, r
    <2> QED
      BY <1>1, <1>3, <1>6 DEF Good, Closed, Judged
  <1> QED
    BY <1>2, <1>4, <1>7, DriverStep

LEMMA CheckPlanInv ==
    ASSUME IInv, NEW d \in Drivers, CheckPlan(d)
    PROVE  IInv'
  <1> DEFINE r == run[d]
             q == [r EXCEPT !.step = "environment"]
  <1>1. Good(r, experiment, registered) /\ r.step = "close"
    BY DEF IInv, RunsGood, CheckPlan, At
  <1>2. UNCHANGED <<experiment, registered, output, temp>>
    BY DEF CheckPlan
  <1>3. CASE Ends(d)
    BY <1>2, <1>3, OverGood, DriverStep DEF Ends
  <1>4. CASE Becomes(d, q) /\ Authorized(d)
    <2>1. /\ DOMAIN q = DOMAIN r /\ q.step = "environment"
          /\ \A x \in DOMAIN r : x # "step" => q[x] = r[x]
      BY <1>1, GoesFields DEF Good
    <2>2. r.config.model = r.contract /\ r.config.dataset = r.plan
      BY <1>4 DEF Authorized
    <2>3. Good(q, experiment, registered)
      <3> HIDE DEF q, r
      <3> QED
        BY <1>1, <2>1, <2>2 DEF Good, Closed, Judged
    <2> QED
      BY <1>2, <1>4, <2>3, DriverStep
  <1> QED
    BY <1>3, <1>4 DEF CheckPlan, Goes

LEMMA JudgeInv ==
    ASSUME IInv, NEW d \in Drivers, Judge(d)
    PROVE  IInv'
  <1> DEFINE r == run[d]
  <1>1. Good(r, experiment, registered) /\ r.step = "judge"
    BY DEF IInv, RunsGood, Judge, At
  <1>2. UNCHANGED <<experiment, registered, output, temp>>
    BY DEF Judge
  <1>3. CASE Ends(d)
    BY <1>2, <1>3, OverGood, DriverStep DEF Ends
  <1>4. CASE ~Ends(d)
    <2>1. PICK given \in Built(r.plan), default \in BOOLEAN :
             /\ default => given = RowsOf(r.plan)
             /\ Replays(given)
             /\ Becomes(d, [step |-> IF Complete(d, Reasons(d, given)) THEN "freeze" ELSE "rows",
                            config |-> r.config, contract |-> r.contract, plan |-> r.plan,
                            rows |-> given, default |-> default, complete |-> Complete(d, Reasons(d, given)),
                            disposition |-> IF Reasons(d, given) THEN "INCONCLUSIVE" ELSE Disposition(given)])
      BY <1>4 DEF Judge
    <2> DEFINE complete == Complete(d, Reasons(d, given))
               q == [step |-> IF complete THEN "freeze" ELSE "rows",
                     config |-> r.config, contract |-> r.contract, plan |-> r.plan,
                     rows |-> given, default |-> default, complete |-> complete,
                     disposition |-> IF Reasons(d, given) THEN "INCONCLUSIVE" ELSE Disposition(given)]
    <2>2. ~Reasons(d, given) => given = RowsOf(r.contract)
      BY <2>1, ClosedRows, BuiltRows DEF Reasons
    <2>3. complete => ~Reasons(d, given)
      BY DEF Complete
    <2>4. q.disposition = "SUPPORTED" => DispositionIn(experiment, RowsOf(r.contract)) = "SUPPORTED"
      BY <2>2, DispositionFact
    <2>5. q.step \in {"freeze", "rows"} /\ (q.step = "freeze" <=> complete)
      OBVIOUS
    <2>6. Honest(q, experiment, registered)
      <3>1. /\ DOMAIN q = {"step", "config", "contract", "plan", "rows", "default", "complete", "disposition"}
            /\ q.complete = complete /\ q.rows = given /\ q.default = default
            /\ q.contract = r.contract /\ q.plan = r.plan
        OBVIOUS
      <3> HIDE DEF q, complete, r
      <3> QED
        BY <2>1, <2>2, <2>3, <2>4, <2>5, <3>1 DEF Honest
    <2>7. Good(q, experiment, registered)
      <3>1. /\ DOMAIN q = {"step", "config", "contract", "plan", "rows", "default", "complete", "disposition"}
            /\ q.config = r.config /\ q.contract = r.contract /\ q.plan = r.plan
        OBVIOUS
      <3>2. r.config.model = r.contract /\ r.config.dataset = r.plan
        BY <1>1 DEF Good, Closed
      <3> HIDE DEF q, r
      <3> QED
        BY <2>5, <2>6, <3>1, <3>2 DEF Good, Closed, Judged
    <2> QED
      BY <1>2, <2>1, <2>7, DriverStep
  <1> QED
    BY <1>3, <1>4

LEMMA DieInv ==
    ASSUME IInv, NEW d \in Drivers, Die(d)
    PROVE  IInv'
  BY OverGood, DriverStep DEF Die, Ends

\* What an honest driver reports can be kept on disk.
LEMMA ReportTruthful ==
    ASSUME NEW r, NEW x, NEW reg, Good(r, x, reg), r.step \in Judged
    PROVE  /\ EarnedIn(x, ReportOf(r))
           /\ r.step # "freeze" => Truthful(ReportOf(r), x, reg)
           /\ r.complete = TRUE => Contracted(ReportOf(r), x)
  <1>1. r.config.model = r.contract /\ r.config.dataset = r.plan /\ Honest(r, x, reg)
    BY DEF Good, Closed
  <1>2. EarnedIn(x, ReportOf(r))
    BY <1>1 DEF EarnedIn, ReportOf, Honest
  <1> QED
    BY <1>1, <1>2 DEF Contracted, Truthful, ReportOf, Honest

\* Moving on within the writing steps changes nothing that is reported.
LEMMA MovesOn ==
    ASSUME NEW r, NEW q, NEW x, NEW reg, NEW reg1, Good(r, x, reg), r.step \in Judged,
           q.step \in Judged \ {"freeze"}, DOMAIN r \subseteq DOMAIN q,
           \A f \in DOMAIN r : f \notin {"step", "placing"} => q[f] = r[f],
           q.step = "place" => "placing" \in DOMAIN q /\ q.placing \in Files,
           r.complete => reg1 = ReportOf(r)
    PROVE  Good(q, x, reg1)
  <1>1. Honest(r, x, reg) /\ {"config", "contract", "plan"} \subseteq DOMAIN r
        /\ r.config.model = r.contract /\ r.config.dataset = r.plan
    BY DEF Good, Closed
  <1>2. {"rows", "default", "complete", "disposition"} \subseteq DOMAIN r
    BY <1>1 DEF Honest
  <1>3. /\ q.config = r.config /\ q.contract = r.contract /\ q.plan = r.plan /\ q.rows = r.rows
        /\ q.default = r.default /\ q.complete = r.complete /\ q.disposition = r.disposition
    BY <1>1, <1>2
  <1>4. ReportOf(q) = ReportOf(r)
    BY <1>3 DEF ReportOf
  <1>5. Honest(q, x, reg1)
    BY <1>1, <1>2, <1>3, <1>4 DEF Honest
  <1> QED
    BY <1>1, <1>3, <1>5 DEF Good, Closed, Judged

LEMMA NothingYet ==
    ASSUME NEW x, NEW reg1
    PROVE  /\ \A r : Good(r, x, Nothing) => Good(r, x, reg1)
           /\ \A report : Truthful(report, x, Nothing) => Truthful(report, x, reg1)
  BY ReportFact DEF Good, Honest, Truthful

LEMMA FreezeInv ==
    ASSUME IInv, NEW d \in Drivers, Freeze(d)
    PROVE  IInv'
  <1> DEFINE r == run[d]
             q == [r EXCEPT !.step = "rows"]
  <1>1. Good(r, experiment, registered) /\ r.step = "freeze" /\ r.step \in Judged
    BY DEF IInv, RunsGood, Freeze, At, Judged
  <1>2. UNCHANGED <<experiment, output, temp>>
    BY DEF Freeze
  <1>3. CASE UNCHANGED registered /\ Ends(d)
    BY <1>2, <1>3, OverGood, DriverStep DEF Ends
  <1>4. CASE registered = Nothing /\ registered' = Report(d) /\ Goes(d, After.freeze)
    <2>1. Becomes(d, q) /\ registered' = ReportOf(r)
      BY <1>4 DEF Goes, After, Report, ReportOf
    <2>2. /\ DOMAIN q = DOMAIN r /\ q.step = "rows"
          /\ \A x \in DOMAIN r : x # "step" => q[x] = r[x]
      BY <1>1, GoesFields DEF Good
    <2>3. r.complete = TRUE
      BY <1>1 DEF Good, Honest
    <2>4. Good(q, experiment, ReportOf(r))
      <3> HIDE DEF q, r
      <3> QED
        BY <1>1, <2>2, MovesOn DEF Judged
    <2>5. Contracted(ReportOf(r), experiment)
      BY <1>1, <2>3, ReportTruthful
    <2>6. RunsGood'
      <3>1. \A e \in Drivers : Good(run[e], experiment, registered')
        BY <1>4, NothingYet DEF IInv, RunsGood
      <3>2. \A e \in Drivers : run'[e] = IF e = d THEN q ELSE run[e]
        BY <2>1 DEF Becomes, IInv, RunsGood
      <3>3. DOMAIN run' = Drivers
        BY <2>1 DEF Becomes, IInv, RunsGood
      <3> HIDE DEF q, r
      <3> QED
        BY <1>2, <2>1, <2>4, <3>1, <3>2, <3>3 DEF RunsGood
    <2>7. FilesTruthful(output)' /\ FilesTruthful(temp)'
      BY <1>2, <1>4, NothingYet DEF IInv, FilesTruthful
    <2> QED
      BY <1>2, <2>1, <2>5, <2>6, <2>7 DEF IInv
  <1> QED
    BY <1>3, <1>4 DEF Freeze

LEMMA WriteTempInv ==
    ASSUME IInv, NEW d \in Drivers, NEW file \in Files, WriteTemp(d, file)
    PROVE  IInv'
  <1> DEFINE r == run[d]
             q == [f \in DOMAIN r \cup {"placing"} |->
                      IF f = "placing" THEN file ELSE IF f = "step" THEN "place" ELSE r[f]]
  <1>1. Good(r, experiment, registered) /\ r.step = file /\ r.step \in Judged \ {"freeze"}
    BY DEF IInv, RunsGood, WriteTemp, At, Judged, Files
  <1>2. UNCHANGED <<experiment, registered, output>>
    BY DEF WriteTemp
  <1>3. Becomes(d, q) /\ temp' = [temp EXCEPT ![file] = ReportOf(r)]
    BY DEF WriteTemp, Knows, Report, ReportOf
  <1>4. /\ DOMAIN q = DOMAIN r \cup {"placing"} /\ q.step = "place" /\ q.placing = file
        /\ \A f \in DOMAIN r : f \notin {"step", "placing"} => q[f] = r[f]
    BY <1>1 DEF Good
  <1>5. Good(q, experiment, registered)
    <2>1. r.complete => registered = ReportOf(r)
      BY <1>1 DEF Good, Honest
    <2> HIDE DEF q, r
    <2> QED
      BY <1>1, <1>4, <2>1, MovesOn DEF Judged
  <1>6. Truthful(ReportOf(r), experiment, registered)
    BY <1>1, ReportTruthful
  <1>7. FilesTruthful(temp)'
    <2> HIDE DEF q, r
    <2> QED
      BY <1>2, <1>3, <1>6 DEF IInv, FilesTruthful
  <1>8. FilesTruthful(output)' /\ (registered # Nothing => Contracted(registered, experiment))'
    BY <1>2 DEF IInv, FilesTruthful
  <1>9. RunsGood'
    <2> HIDE DEF q
    <2> QED
      BY <1>2, <1>3, <1>5, BecomesGood DEF IInv
  <1> QED
    BY <1>7, <1>8, <1>9 DEF IInv

LEMMA PlaceInv ==
    ASSUME IInv, NEW d \in Drivers, Place(d)
    PROVE  IInv'
  <1> DEFINE r == run[d]
             file == r.placing
  <1>1. /\ Good(r, experiment, registered) /\ r.step = "place" /\ r.step \in Judged \ {"freeze"}
        /\ file \in Files
    BY DEF IInv, RunsGood, Place, At, Judged, Good
  <1>2. UNCHANGED <<experiment, registered>>
    BY DEF Place
  <1>3. RunsGood'
    <2>1. CASE Ends(d)
      BY <1>2, <2>1, OverGood, BecomesGood DEF Ends, IInv
    <2>2. CASE After[file] # "over" /\ Goes(d, After[file])
      <3> DEFINE q == [r EXCEPT !.step = After[file]]
      <3>1. After[file] \in {"summary", "metadata"}
        BY <1>1, <2>2 DEF After, Files
      <3>2. /\ DOMAIN q = DOMAIN r /\ q.step = After[file]
            /\ \A x \in DOMAIN r : x # "step" => q[x] = r[x]
        BY <1>1, GoesFields DEF Good
      <3>3. r.complete => registered = ReportOf(r)
        BY <1>1 DEF Good, Honest
      <3>4. Good(q, experiment, registered)
        <4> HIDE DEF q, r, file
        <4> QED
          BY <1>1, <3>1, <3>2, <3>3, MovesOn DEF Judged
      <3> QED
        BY <1>2, <2>2, <3>4, BecomesGood DEF Goes, IInv
    <2> QED
      BY <2>1, <2>2 DEF Place
  <1>4. FilesTruthful(output)' /\ FilesTruthful(temp)'
    <2>1. CASE UNCHANGED <<output, temp>>
      BY <1>2, <2>1 DEF IInv, FilesTruthful
    <2>2. CASE output' = [output EXCEPT ![file] = temp[file]] /\ temp' = [temp EXCEPT ![file] = Nothing]
      <3>1. Truthful(temp[file], experiment, registered) /\ Truthful(Nothing, experiment, registered)
        BY <1>1 DEF IInv, FilesTruthful, Truthful
      <3> HIDE DEF file
      <3> QED
        BY <1>2, <2>2, <3>1 DEF IInv, FilesTruthful
    <2> QED
      BY <2>1, <2>2 DEF Place
  <1> QED
    BY <1>2, <1>3, <1>4 DEF IInv

LEMMA NextInv == IInv /\ [RunNext]_runVars => IInv'
  <1> SUFFICES ASSUME IInv, [RunNext]_runVars PROVE IInv'
    OBVIOUS
  <1>1. CASE UNCHANGED runVars \/ EditSource
    BY <1>1 DEF runVars, EditSource, IInv, RunsGood, FilesTruthful
  <1>2. ASSUME NEW d \in Drivers,
               \/ ReadConfig(d) \/ ReadContract(d) \/ ReadPlan(d) \/ CheckPlan(d) \/ CollectEnvironment(d)
               \/ Judge(d) \/ Freeze(d) \/ Place(d) \/ Die(d)
               \/ \E file \in Files : WriteTemp(d, file)
        PROVE  IInv'
    BY <1>2, ReadsInv, CheckPlanInv, JudgeInv, FreezeInv, PlaceInv, DieInv, WriteTempInv
  <1> QED
    BY <1>1, <1>2 DEF RunNext

LEMMA InvGivesProperties == IInv => FrozenAsContracted /\ OutputsTruthful
  BY DispositionFact
     DEF IInv, FilesTruthful, Truthful, Contracted, EarnedIn, FrozenAsContracted, OutputsTruthful, Earned


\* The frozen record is about the contract its configuration binds, for any drivers
\* and any edits between the readings.
THEOREM RecordsFrozenAsContracted == RunSpec => []FrozenAsContracted
  BY InitInv, NextInv, InvGivesProperties, PTL DEF RunSpec

\* No output file claims more than its contract earns, or a record that is not frozen.
THEOREM OutputFilesTruthful == RunSpec => []OutputsTruthful
  BY InitInv, NextInv, InvGivesProperties, PTL DEF RunSpec

-----------------------------------------------------------------------------
(* The multi-seed drivers (SeedSensitivity). *)

Texts == MultiConfigs \cup Agreements \cup Bindings

\* What an attempt at the plan's scenarios may be.
AttemptsAt(seeds, entries) ==
    [seed : seeds, id : {e.id : e \in entries}, variant : {e.variant : e \in entries}, complete : BOOLEAN]

OneEach(done) == \A a, b \in done : a.seed = b.seed /\ a.id = b.id => a = b
OfEntries(done, entries) == \A a \in done : \E e \in entries : a.id = e.id /\ a.variant = e.variant

ReadingsHeld ==
    /\ text \in [multi : MultiConfigs, contract : Agreements, plan : Agreements, config : Bindings]
    /\ seen \in Seq(Texts) /\ Len(seen) <= 14
    /\ Len(seen) >= 1 => seen[1] \in MultiConfigs
    /\ Len(seen) >= 2 => seen[2] = seen[1].contract
    /\ Len(seen) >= 3 => seen[3] = seen[1].plan
    /\ Len(seen) >= 4 => seen[4] = seen[1].config
    /\ Len(seen) >= 11 => Agrees(seen[5], seen[9], seen[10], seen[11])
    /\ steady => \A i, j \in 1 .. Len(seen) : Readings[i] = Readings[j] => seen[i] = seen[j]
    /\ steady /\ Len(seen) < 14 => \A i \in 1 .. Len(seen) : seen[i] = text[Readings[i]]

AttemptsHeld ==
    /\ Len(seen) < 14 => attempts = <<>> /\ sensitivity.is # "artifact"
    /\ Len(seen) = 14 =>
          /\ attempts \in Seq(AttemptsAt(Multi.seeds, Elements(Plan)))
          /\ OneEach(Elements(attempts)) /\ OfEntries(Elements(attempts), Elements(Plan))

ArtifactHeld ==
    sensitivity.is = "artifact" =>
        /\ \A seed \in Multi.seeds, entry \in Elements(Plan) : <<seed, entry.id>> \in Attempted
        /\ sensitivity =
              [is |-> "artifact", multi |-> Multi, config |-> seen[14], results |-> attempts,
               disposition |-> IF Failures # {} THEN "INCONCLUSIVE" ELSE "NO_UPGRADE",
               failed |-> [id \in Elements(Multi.expected) |-> Cardinality(Multi.seeds) - Completed(id)]]

SeedInv == ReadingsHeld /\ AttemptsHeld /\ ArtifactHeld

LEMMA ReadingsAre ==
    /\ Len(Readings) = 14 /\ \A i \in 1 .. 14 : Readings[i] \in {"multi", "contract", "plan", "config"}
    /\ Readings[1] = "multi" /\ Readings[5] = "multi"
    /\ Readings[2] = "contract" /\ Readings[9] = "contract"
    /\ Readings[3] = "plan" /\ Readings[10] = "plan" /\ Readings[13] = "plan"
    /\ Readings[4] = "config" /\ Readings[11] = "config" /\ Readings[14] = "config"
  BY DEF Readings

\* How many readings there may be.
LEMMA Counts ==
    \A m \in Nat : /\ m <= 14 /\ ~(m < 14) => m = 14
                   /\ m + 1 >= 11 => m = 10 \/ m >= 11
                   /\ m = 0 \/ m = 1 \/ m = 2 \/ m = 3 \/ m >= 4
                   /\ m \in {2, 3, 4} => ~(m > 4) /\ m <= 8
                   /\ m < 14 => m # 14
                   /\ m = 14 => ~(m < 14)
  OBVIOUS

LEMMA SeedInitInv == SeedInit => SeedInv
  <1> SUFFICES ASSUME SeedInit PROVE SeedInv
    OBVIOUS
  <1>1. seen = <<>> /\ Len(seen) = 0 /\ seen \in Seq(Texts) /\ attempts = <<>> /\ sensitivity.is = "pending"
    BY DEF SeedInit, Pending
  <1> QED BY <1>1 DEF SeedInit, SeedInv, ReadingsHeld, AttemptsHeld, ArtifactHeld

LEMMA ReadNextInv == SeedInv /\ ReadNext => SeedInv'
  <1> SUFFICES ASSUME SeedInv, ReadNext PROVE SeedInv'
    OBVIOUS
  <1> DEFINE n == Len(seen)
             file == Readings[n + 1]
             said == Append(seen, text[file])
  <1>0. n \in Nat /\ n < 14
    <2>1. Len(seen) \in Nat
      BY DEF SeedInv, ReadingsHeld
    <2> QED BY <2>1, ReadingsAre DEF ReadNext
  <1>1. n \in Nat /\ n < 14 /\ n + 1 \in 1 .. 14 /\ file \in {"multi", "contract", "plan", "config"}
    <2>1. n + 1 \in 1 .. 14
      BY <1>0
    <2> QED BY <1>0, <2>1, ReadingsAre
  <1>2. text[file] \in Texts
    BY <1>1 DEF SeedInv, ReadingsHeld, Texts
  <1>3. UNCHANGED <<text, retouched, steady, attempts>> /\ attempts = <<>> /\ sensitivity = Pending
    BY <1>1 DEF ReadNext, SeedInv, AttemptsHeld
  <1>4. CASE sensitivity' = Refused /\ UNCHANGED seen
    <2>1. sensitivity'.is = "refused"
      BY <1>4 DEF Refused
    <2>2. ReadingsHeld'
      BY <1>3, <1>4 DEF SeedInv, ReadingsHeld
    <2>3. AttemptsHeld'
      <3>1. Len(seen') = Len(seen) /\ Len(seen) # 14
        BY <1>0, <1>4, Counts
      <3> QED BY <1>3, <2>1, <3>1 DEF AttemptsHeld
    <2> QED BY <2>1, <2>2, <2>3 DEF SeedInv, ArtifactHeld
  <1>5. CASE seen' = said /\ UNCHANGED sensitivity /\ HashMatches(said) /\ (Len(said) = 11 => Agrees(said[5], said[9], said[10], said[11]))
    <2>1. /\ said \in Seq(Texts) /\ Len(said) = n + 1 /\ said[n + 1] = text[file]
          /\ \A i \in 1 .. n : said[i] = seen[i]
      <3>1. seen \in Seq(Texts)
        BY DEF SeedInv, ReadingsHeld
      <3> HIDE DEF file
      <3> QED BY <1>2, <3>1
    <2> HIDE DEF said
    <2>2. Len(said) >= 1 => said[1] \in MultiConfigs
      <3>1. CASE n = 0
        <4>1. file = "multi"
          BY <3>1, ReadingsAre
        <4> QED BY <2>1, <3>1, <4>1 DEF SeedInv, ReadingsHeld
      <3>2. CASE n >= 1
        BY <1>1, <2>1, <3>2 DEF SeedInv, ReadingsHeld
      <3> QED BY <1>1, <3>1, <3>2
    <2>3. /\ Len(said) >= 2 => said[2] = said[1].contract
          /\ Len(said) >= 3 => said[3] = said[1].plan
          /\ Len(said) >= 4 => said[4] = said[1].config
      <3>0. n \in {1, 2, 3} => said[n + 1] = said[1][Readings[n + 1]]
        <4> SUFFICES ASSUME n \in {1, 2, 3} PROVE said[n + 1] = said[1][Readings[n + 1]]
          OBVIOUS
        <4>1. Len(said) \in {2, 3, 4}
          BY <2>1
        <4>2. Readings[Len(said)] # "multi" /\ ~(Len(said) > 4) /\ Len(said) <= 8
          <5>1. Readings[Len(said)] # "multi"
            BY <4>1, ReadingsAre
          <5> QED BY <4>1, <5>1, Counts
        <4>3. said[Len(said)] = said[1][Readings[Len(said)]]
          BY <1>5, <4>2 DEF HashMatches
        <4> QED BY <2>1, <4>3
      <3>1. CASE n = 0
        BY <2>1, <3>1
      <3>2. CASE n = 1
        BY <2>1, <3>0, <3>2, ReadingsAre
      <3>3. CASE n = 2
        BY <2>1, <3>0, <3>3, ReadingsAre DEF SeedInv, ReadingsHeld
      <3>4. CASE n = 3
        BY <2>1, <3>0, <3>4, ReadingsAre DEF SeedInv, ReadingsHeld
      <3>5. CASE n >= 4
        <4>1. \A i \in {1, 2, 3, 4} : said[i] = seen[i]
          BY <1>1, <2>1, <3>5
        <4> QED BY <1>1, <3>5, <4>1 DEF SeedInv, ReadingsHeld
      <3>6. n = 0 \/ n = 1 \/ n = 2 \/ n = 3 \/ n >= 4
        BY <1>0, Counts
      <3> QED BY <3>1, <3>2, <3>3, <3>4, <3>5, <3>6
    <2>4. Len(said) >= 11 => Agrees(said[5], said[9], said[10], said[11])
      <3>1. CASE n = 10
        BY <1>5, <2>1, <3>1
      <3>2. CASE n >= 11
        <4>1. \A i \in {5, 9, 10, 11} : said[i] = seen[i]
          BY <1>1, <2>1, <3>2
        <4> QED BY <1>1, <3>2, <4>1 DEF SeedInv, ReadingsHeld
      <3>3. Len(said) >= 11 => n = 10 \/ n >= 11
        BY <1>0, <2>1, Counts
      <3> QED BY <3>1, <3>2, <3>3
    <2>5. steady => \A i \in 1 .. Len(said) : said[i] = text[Readings[i]]
      <3>1. \A i \in 1 .. n + 1 : i \in 1 .. n \/ i = n + 1
        BY <1>1
      <3> QED BY <1>1, <2>1, <3>1 DEF SeedInv, ReadingsHeld
    <2>6. ReadingsHeld'
      BY <1>1, <1>3, <1>5, <2>1, <2>2, <2>3, <2>4, <2>5 DEF SeedInv, ReadingsHeld
    <2>7. sensitivity'.is = "pending"
      BY <1>3, <1>5 DEF Pending
    <2>8. attempts' = <<>> /\ Elements(attempts') = {}
      BY <1>3 DEF Elements
    <2>9. attempts' \in Seq(AttemptsAt(Multi.seeds, Elements(Plan)))'
      BY <2>8
    <2>10. OneEach(Elements(attempts))' /\ OfEntries(Elements(attempts), Elements(Plan))'
      BY <2>8 DEF OneEach, OfEntries, Elements
    <2> QED BY <2>6, <2>7, <2>8, <2>9, <2>10 DEF SeedInv, AttemptsHeld, ArtifactHeld
  <1> QED BY <1>4, <1>5 DEF ReadNext

LEMMA AttemptInv ==
    ASSUME SeedInv, NEW seed \in Multi.seeds, NEW entry \in Elements(Plan), Attempt(seed, entry)
    PROVE  SeedInv'
  <1>1. PICK returned \in BOOLEAN :
          attempts' = Append(attempts, [seed |-> seed, id |-> entry.id, variant |-> entry.variant,
                                        complete |-> returned /\ entry.id \in Elements(Multi.expected)])
    BY DEF Attempt
  <1> DEFINE a == [seed |-> seed, id |-> entry.id, variant |-> entry.variant,
                   complete |-> returned /\ entry.id \in Elements(Multi.expected)]
             space == AttemptsAt(Multi.seeds, Elements(Plan))
  <1>2. Len(seen) = 14 /\ sensitivity = Pending /\ UNCHANGED <<text, retouched, steady, seen, sensitivity>>
        /\ <<seed, entry.id>> \notin Attempted
    BY ReadingsAre DEF Attempt, Ready
  <1>3. a \in space
    BY DEF AttemptsAt
  <1>4. attempts \in Seq(space) /\ OneEach(Elements(attempts)) /\ OfEntries(Elements(attempts), Elements(Plan))
    BY <1>2 DEF SeedInv, AttemptsHeld
  <1>5. a.seed = seed /\ a.id = entry.id /\ a.variant = entry.variant
    OBVIOUS
  <1>6. attempts' \in Seq(space) /\ Elements(attempts') = Elements(attempts) \cup {a}
    <2> HIDE DEF a, space
    <2>1. attempts' = Append(attempts, a)
      BY <1>1 DEF a
    <2>2. /\ attempts' \in Seq(space) /\ Len(attempts') = Len(attempts) + 1 /\ Len(attempts) \in Nat
          /\ \A i \in 1 .. Len(attempts) : attempts'[i] = attempts[i]
          /\ attempts'[Len(attempts) + 1] = a
          /\ DOMAIN attempts = 1 .. Len(attempts) /\ DOMAIN attempts' = 1 .. Len(attempts')
      BY <1>3, <1>4, <2>1
    <2>3. DOMAIN attempts' = DOMAIN attempts \cup {Len(attempts) + 1}
      BY <2>2
    <2> QED BY <2>2, <2>3 DEF Elements
  <1> HIDE DEF a, space
  <1>7. \A b \in Elements(attempts) : ~(b.seed = a.seed /\ b.id = a.id)
    BY <1>2, <1>5 DEF Attempted
  <1>8. OneEach(Elements(attempts'))
    BY <1>4, <1>6, <1>7 DEF OneEach
  <1>9. OfEntries(Elements(attempts'), Elements(Plan))
    BY <1>4, <1>5, <1>6 DEF OfEntries
  <1>10. Multi' = Multi /\ Plan' = Plan /\ Elements(Plan)' = Elements(Plan) /\ Elements(attempts)' = Elements(attempts')
    BY <1>2 DEF Multi, Plan, Elements
  <1>11. AttemptsHeld'
    <2>1. space' = space
      BY <1>10 DEF space
    <2>2. /\ attempts' \in Seq(AttemptsAt(Multi.seeds, Elements(Plan)))'
          /\ OneEach(Elements(attempts))' /\ OfEntries(Elements(attempts), Elements(Plan))'
      <3>1. AttemptsAt(Multi.seeds, Elements(Plan))' = AttemptsAt(Multi.seeds, Elements(Plan))
        BY <1>10 DEF AttemptsAt
      <3>2. OneEach(Elements(attempts))' = OneEach(Elements(attempts'))
        BY <1>10 DEF OneEach
      <3>3. OfEntries(Elements(attempts), Elements(Plan))' = OfEntries(Elements(attempts'), Elements(Plan))
        BY <1>10 DEF OfEntries
      <3> QED BY <1>6, <1>8, <1>9, <3>1, <3>2, <3>3 DEF space
    <2>3. ~(Len(seen)' < 14)
      BY <1>2, Counts
    <2> QED BY <2>2, <2>3 DEF AttemptsHeld
  <1>12. ReadingsHeld' /\ ArtifactHeld'
    BY <1>2 DEF SeedInv, ReadingsHeld, ArtifactHeld, Pending
  <1> QED BY <1>11, <1>12 DEF SeedInv

\* What is held while only files change, or nothing.
LEMMA HeldStill ==
    ASSUME SeedInv, UNCHANGED <<seen, attempts, sensitivity>>
    PROVE  AttemptsHeld' /\ ArtifactHeld'
  BY DEF SeedInv, AttemptsHeld, ArtifactHeld, Multi, Plan, Elements, Attempted, Failures, Completed, OneEach, OfEntries

LEMMA WriteArtifactInv == SeedInv /\ WriteArtifact => SeedInv'
  <1> SUFFICES ASSUME SeedInv, WriteArtifact PROVE SeedInv'
    OBVIOUS
  <1>1. UNCHANGED <<text, retouched, steady, seen, attempts>> /\ Len(seen) = 14
    BY ReadingsAre DEF WriteArtifact, Ready
  <1>2. ReadingsHeld'
    BY <1>1 DEF SeedInv, ReadingsHeld
  <1>3. AttemptsHeld'
    BY <1>1 DEF SeedInv, AttemptsHeld, Multi, Plan, Elements, OneEach, OfEntries
  <1>4. /\ Multi' = Multi /\ Plan' = Plan /\ Elements(Plan)' = Elements(Plan) /\ Attempted' = Attempted
        /\ Failures' = Failures /\ Elements(Multi.expected)' = Elements(Multi.expected)
        /\ \A id : Completed(id)' = Completed(id)
    BY <1>1 DEF Multi, Plan, Elements, Attempted, Failures, Completed
  <1>5. ArtifactHeld'
    BY <1>1, <1>4 DEF WriteArtifact, ArtifactHeld
  <1> QED BY <1>2, <1>3, <1>5 DEF SeedInv

LEMMA RetouchFileInv == SeedInv /\ RetouchFile => SeedInv'
  <1> SUFFICES ASSUME SeedInv, RetouchFile PROVE SeedInv'
    OBVIOUS
  <1>1. UNCHANGED <<seen, attempts, sensitivity>>
        /\ steady' = (steady /\ (seen = <<>> \/ Len(seen) = Len(Readings)))
    BY DEF RetouchFile
  <1>2. text' \in [multi : MultiConfigs, contract : Agreements, plan : Agreements, config : Bindings]
    BY DEF RetouchFile, SeedInv, ReadingsHeld
  <1>3. steady' => steady /\ (Len(seen) = 0 \/ Len(seen) = 14)
    BY <1>1, ReadingsAre
  <1>a. Len(seen) = 0 => ~\E i \in 1 .. Len(seen) : TRUE
    OBVIOUS
  <1>b. Len(seen) = 14 => ~(Len(seen) < 14)
    OBVIOUS
  <1>c. steady' /\ Len(seen) < 14 => \A i \in 1 .. Len(seen) : seen[i] = text'[Readings[i]]
    BY <1>3, <1>a, <1>b
  <1>d. /\ seen \in Seq(Texts) /\ Len(seen) <= 14
        /\ Len(seen) >= 1 => seen[1] \in MultiConfigs
        /\ Len(seen) >= 2 => seen[2] = seen[1].contract
        /\ Len(seen) >= 3 => seen[3] = seen[1].plan
        /\ Len(seen) >= 4 => seen[4] = seen[1].config
        /\ Len(seen) >= 11 => Agrees(seen[5], seen[9], seen[10], seen[11])
        /\ steady => \A i, j \in 1 .. Len(seen) : Readings[i] = Readings[j] => seen[i] = seen[j]
    BY DEF SeedInv, ReadingsHeld
  <1>4. ReadingsHeld'
    BY <1>1, <1>2, <1>3, <1>c, <1>d DEF ReadingsHeld
  <1> QED BY <1>1, <1>4, HeldStill DEF SeedInv

LEMMA SeedNextInv == SeedInv /\ [SeedNext]_seedVars => SeedInv'
  <1> SUFFICES ASSUME SeedInv, [SeedNext]_seedVars PROVE SeedInv'
    OBVIOUS
  <1>1. CASE UNCHANGED seedVars
    <2>1. ReadingsHeld'
      BY <1>1 DEF SeedInv, ReadingsHeld, seedVars
    <2> QED BY <1>1, <2>1, HeldStill DEF SeedInv, seedVars
  <1> QED BY <1>1, ReadNextInv, AttemptInv, WriteArtifactInv, RetouchFileInv DEF SeedNext


\* Of a scenario tried once on every seed, never in vain, no row is missing.
LEMMA EverySeedComplete ==
    ASSUME NEW seeds, IsFiniteSet(seeds), NEW done, OneEach(done), NEW id,
           \A a \in done : a.seed \in seeds /\ a.complete,
           \A s \in seeds : \E a \in done : a.seed = s /\ a.id = id
    PROVE  Cardinality({a \in done : a.id = id /\ a.complete}) = Cardinality(seeds)
  <1> DEFINE rowsOf == {a \in done : a.id = id /\ a.complete}
             f == [s \in seeds |-> CHOOSE a \in done : a.seed = s /\ a.id = id]
  <1>1. \A s \in seeds : f[s] \in rowsOf /\ f[s].seed = s
    OBVIOUS
  <1>2. \A a \in rowsOf : a.seed \in seeds /\ f[a.seed] = a
    BY <1>1 DEF OneEach
  <1>3. f \in Bijection(seeds, rowsOf)
    <2> HIDE DEF rowsOf
    <2>1. f \in [seeds -> rowsOf]
      BY <1>1
    <2> HIDE DEF f
    <2>2. f \in Injection(seeds, rowsOf)
      BY <1>1, <2>1 DEF Injection, IsInjective
    <2>3. f \in Surjection(seeds, rowsOf)
      BY <1>2, <2>1 DEF Surjection
    <2> QED BY <2>2, <2>3 DEF Bijection
  <1> HIDE DEF rowsOf, f
  <1>4. Cardinality(seeds) = Cardinality(rowsOf)
    BY <1>3, FS_Bijection DEF ExistsBijection
  <1> QED BY <1>4 DEF rowsOf

LEMMA ArtifactBound ==
    ASSUME SeedInv, sensitivity.is = "artifact", steady
    PROVE  SensitivityBound
  <1>1. Len(seen) = 14
    <2>1. Len(seen) \in Nat /\ Len(seen) <= 14
      BY DEF SeedInv, ReadingsHeld
    <2>2. ~(Len(seen) < 14)
      BY DEF SeedInv, AttemptsHeld
    <2> QED BY <2>1, <2>2, Counts
  <1>2. /\ seen[1] \in MultiConfigs
        /\ seen[5] = seen[1] /\ seen[9] = seen[1].contract /\ seen[10] = seen[1].plan /\ seen[11] = seen[1].config
        /\ seen[13] = seen[1].plan /\ seen[14] = seen[1].config
    <2>1. \A i, j \in 1 .. 14 : Readings[i] = Readings[j] => seen[i] = seen[j]
      BY <1>1 DEF SeedInv, ReadingsHeld
    <2>2. /\ seen[5] = seen[1] /\ seen[9] = seen[2] /\ seen[10] = seen[3] /\ seen[11] = seen[4]
          /\ seen[13] = seen[3] /\ seen[14] = seen[4]
      BY <2>1, ReadingsAre
    <2> QED BY <1>1, <2>2 DEF SeedInv, ReadingsHeld
  <1> DEFINE multi == seen[1]
             plan == Elements(multi.plan)
             done == Elements(attempts)
  <1>3. Agrees(multi, multi.contract, multi.plan, multi.config)
    BY <1>1, <1>2 DEF SeedInv, ReadingsHeld
  <1>4. Multi = multi /\ Plan = multi.plan
    BY <1>2 DEF Multi, Plan
  <1>5. /\ sensitivity.multi = multi /\ sensitivity.config = multi.config /\ sensitivity.results = attempts
        /\ sensitivity.disposition = IF Failures # {} THEN "INCONCLUSIVE" ELSE "NO_UPGRADE"
        /\ sensitivity.failed = [id \in Elements(multi.expected) |-> Cardinality(multi.seeds) - Completed(id)]
        /\ \A seed \in multi.seeds, entry \in plan : <<seed, entry.id>> \in Attempted
    BY <1>2, <1>4 DEF SeedInv, ArtifactHeld
  <1>6. /\ attempts \in Seq(AttemptsAt(multi.seeds, plan)) /\ OneEach(done) /\ OfEntries(done, plan)
    BY <1>1, <1>4 DEF SeedInv, AttemptsHeld
  <1>7. /\ IsFiniteSet(multi.seeds) /\ multi.seeds # {}
        /\ \A i, j \in DOMAIN multi.expected : multi.expected[i] = multi.expected[j] => i = j
    BY <1>2, SensitivityAssumption DEF ValidMultiConfig
  <1>8. \A e, f \in plan : e.id = f.id => e = f
    BY <1>3, <1>7 DEF Agrees, Names, Elements
  <1>9. \A seed \in multi.seeds, entry \in plan : \E a \in done : a.seed = seed /\ a.id = entry.id
    BY <1>5 DEF Attempted
  <1>10. {[id |-> r.id, variant |-> r.variant] : r \in done} = {[id |-> e.id, variant |-> e.variant] : e \in plan}
    <2>1. ASSUME NEW r \in done PROVE \E e \in plan : [id |-> r.id, variant |-> r.variant] = [id |-> e.id, variant |-> e.variant]
      BY <1>6 DEF OfEntries
    <2>2. ASSUME NEW e \in plan PROVE \E r \in done : [id |-> r.id, variant |-> r.variant] = [id |-> e.id, variant |-> e.variant]
      <3>1. PICK seed \in multi.seeds : TRUE
        BY <1>7
      <3>2. PICK a \in done : a.id = e.id
        BY <1>9, <3>1
      <3>3. PICK f \in plan : a.id = f.id /\ a.variant = f.variant
        BY <1>6 DEF OfEntries
      <3>4. f = e
        BY <1>8, <3>2, <3>3
      <3> QED BY <3>2, <3>3, <3>4
    <2> QED BY <2>1, <2>2
  <1>11. ASSUME sensitivity.disposition # "INCONCLUSIVE", NEW id \in Elements(multi.expected)
         PROVE  sensitivity.failed[id] = 0
    <2>1. Failures = {}
      BY <1>5, <1>11
    <2>2. \A a \in done : a.seed \in multi.seeds /\ a.complete
      <3>1. \A a \in done : a \in AttemptsAt(multi.seeds, plan)
        BY <1>6 DEF Elements
      <3> QED BY <2>1, <3>1 DEF AttemptsAt, Failures
    <2>3. PICK entry \in plan : entry.id = id
      BY <1>3 DEF Agrees, Names, Elements
    <2>4. \A s \in multi.seeds : \E a \in done : a.seed = s /\ a.id = id
      BY <1>9, <2>3
    <2>5. Completed(id) = Cardinality(multi.seeds)
      <3>1. OneEach(done) /\ IsFiniteSet(multi.seeds)
        BY <1>6, <1>7
      <3> HIDE DEF multi, done
      <3>2. Cardinality({a \in done : a.id = id /\ a.complete}) = Cardinality(multi.seeds)
        BY <2>2, <2>4, <3>1, EverySeedComplete
      <3> QED BY <3>2 DEF Completed, done
    <2>6. Cardinality(multi.seeds) \in Nat
      BY <1>7, FS_CardinalityType
    <2> QED BY <1>5, <1>11, <2>5, <2>6
  <1>12. \A e \in Elements(multi.contract) : e.seed \notin multi.seeds
    BY <1>3 DEF Agrees
  <1>13. multi.config.model = multi.contract /\ multi.config.dataset = multi.plan
    BY <1>3 DEF Agrees
  <1>14. DOMAIN sensitivity.failed = Elements(multi.expected)
    BY <1>5
  <1> HIDE DEF multi, done
  <1> QED BY <1>5, <1>10, <1>11, <1>12, <1>13, <1>14 DEF SensitivityBound, done

THEOREM SensitivityIsBound == SeedSpec => []SensitivityBound
  <1>1. SeedInv => SensitivityBound
    BY ArtifactBound DEF SensitivityBound
  <1> QED BY <1>1, SeedInitInv, SeedNextInv, PTL DEF SeedSpec

-----------------------------------------------------------------------------
(* The timing of E1 (CostMeasurement). *)

Variants == {"NATIVE_SINGLE", "TWO_RUN_BASELINE", "MPP_SINGLE_PASS"}
MeasuredRows == [pair : Nat, variant : Variants, time : Int, warmup : BOOLEAN]

\* Row i of a measurement is of its pair, in the place its order gives it.
InPlace(row, i) ==
    /\ row.pair = ((i - 1) \div 3) + 1
    /\ row.variant = Order(row.pair)[((i - 1) % 3) + 1]
    /\ row.warmup = (row.pair <= setup.warmups)
    /\ Acceptable(row.time)

\* The machine is no slower than in any single pass, nor was it in later rows.
NoSlower ==
    ~setup.injected =>
        \A i \in 1 .. Len(rows) : rows[i].variant = "MPP_SINGLE_PASS" =>
            /\ machine.time <= rows[i].time - setup.overhead
            /\ \A j \in 1 .. Len(rows) : i < j =>
                  /\ rows[j].variant = "MPP_SINGLE_PASS" => rows[j].time <= rows[i].time
                  /\ rows[j].variant = "TWO_RUN_BASELINE" =>
                        rows[j].time <= 2 * (rows[i].time - setup.overhead)

CostInv ==
    /\ setup.design \in Designs /\ setup.injected \in BOOLEAN
    /\ setup.origin \in {"REAL_MODEL_EXECUTION", "SYNTHETIC_NON_EVIDENCE"}
    /\ setup.warmups \in {0, 1} /\ setup.overhead \in Overheads
    /\ machine.time \in Speeds /\ machine.loaded \in BOOLEAN
    /\ rows \in Seq(MeasuredRows) /\ Len(rows) <= 3 * AllPairs
    /\ \A i \in 1 .. Len(rows) : InPlace(rows[i], i)
    /\ rows # <<>> => machine.loaded
    /\ NoSlower
    /\ verdict.is \in {"unsettled", "raised", "summary"}
    /\ verdict.is = "summary" =>
          Len(rows) = 3 * AllPairs /\ verdict.claim = Claim /\ verdict.frozen = Frozen

LEMMA EmptySeq == Len(<<>>) = 0
  OBVIOUS

LEMMA RowTypes ==
    ASSUME CostInv
    PROVE  /\ Len(rows) \in Nat
           /\ \A i \in Nat \ {0} : i <= Len(rows) =>
                 i \in 1 .. Len(rows) /\ rows[i] \in MeasuredRows /\ rows[i].time \in Int
  <1>1. Len(rows) \in Nat /\ \A i \in 1 .. Len(rows) : rows[i] \in MeasuredRows
    BY DEF CostInv
  <1>2. \A r \in MeasuredRows : r.time \in Int
    BY DEF MeasuredRows
  <1> QED BY <1>1, <1>2

LEMMA CostInitInv == CostInit => CostInv
  <1> SUFFICES ASSUME CostInit PROVE CostInv
    OBVIOUS
  <1>1. Len(rows) = 0 /\ rows \in Seq(MeasuredRows)
    BY DEF CostInit
  <1>2. AllPairs \in Nat
    BY CostAssumption DEF CostInit, AllPairs
  <1>3. /\ setup.design \in Designs /\ setup.injected \in BOOLEAN
        /\ setup.origin \in {"REAL_MODEL_EXECUTION", "SYNTHETIC_NON_EVIDENCE"}
        /\ setup.warmups \in {0, 1} /\ setup.overhead \in Overheads
        /\ machine.time \in Speeds /\ machine.loaded \in BOOLEAN
    BY DEF CostInit
  <1>4. rows = <<>> /\ verdict.is = "unsettled"
    BY DEF CostInit, Unsettled
  <1>5. NoSlower
    BY <1>1 DEF NoSlower
  <1> QED BY <1>1, <1>2, <1>3, <1>4, <1>5 DEF CostInv

LEMMA OrderVariants ==
    \A p \in Nat : /\ Order(p) \in [1 .. 3 -> Variants] 
                   /\ setup.design = "COUNTERBALANCED_PAIRED" /\ Reversed(p) =>
                         Order(p) = <<"NATIVE_SINGLE", "MPP_SINGLE_PASS", "TWO_RUN_BASELINE">>
                   /\ ~Reversed(p) =>
                         Order(p) = <<"NATIVE_SINGLE", "TWO_RUN_BASELINE", "MPP_SINGLE_PASS">>
  BY DEF Order, Variants

LEMMA Kept ==
    ASSUME UNCHANGED <<setup, machine, rows>>
    PROVE  /\ Claim' = Claim /\ Frozen' = Frozen /\ AllPairs' = AllPairs /\ NoSlower' = NoSlower
           /\ \A r, i : InPlace(r, i)' = InPlace(r, i)
  BY DEF Claim, Frozen, AllPairs, NoSlower, StatisticallyPositive, LowerBoundPositive, Delta, PairsMeasured, TimeOf,
         Measured, InPlace, Acceptable, Order

LEMMA MeasureInv == CostInv /\ Measure => CostInv'
  <1> SUFFICES ASSUME CostInv, Measure PROVE CostInv'
    OBVIOUS
  <1> DEFINE n == Len(rows)
  <1>1. n \in Nat /\ NextPair \in Nat /\ (n % 3) + 1 \in 1 .. 3 /\ AllPairs \in Nat /\ UNCHANGED setup
    BY CostAssumption DEF CostInv, NextPair, AllPairs, Measure
  <1>a. PICK first \in RunTimes : \E second \in {t \in RunTimes : t <= first} :
          /\ NextVariant # "TWO_RUN_BASELINE" => second = first
          /\ machine' = [time |-> second, loaded |-> TRUE]
          /\ \E time \in (IF setup.injected THEN FixtureTimes ELSE {Timed(NextVariant, first, second)}) :
                IF Acceptable(time)
                THEN /\ rows' = Append(rows, [pair |-> NextPair, variant |-> NextVariant, time |-> time,
                                              warmup |-> NextPair <= setup.warmups])
                     /\ UNCHANGED verdict
                ELSE verdict' = Raised /\ UNCHANGED rows
    BY DEF Measure
  <1>2. PICK second \in {t \in RunTimes : t <= first} :
          /\ NextVariant # "TWO_RUN_BASELINE" => second = first
          /\ machine' = [time |-> second, loaded |-> TRUE]
          /\ \E time \in (IF setup.injected THEN FixtureTimes ELSE {Timed(NextVariant, first, second)}) :
                IF Acceptable(time)
                THEN /\ rows' = Append(rows, [pair |-> NextPair, variant |-> NextVariant, time |-> time,
                                              warmup |-> NextPair <= setup.warmups])
                     /\ UNCHANGED verdict
                ELSE verdict' = Raised /\ UNCHANGED rows
    BY <1>a
  <1>3. PICK time \in (IF setup.injected THEN FixtureTimes ELSE {Timed(NextVariant, first, second)}) :
                IF Acceptable(time)
                THEN /\ rows' = Append(rows, [pair |-> NextPair, variant |-> NextVariant, time |-> time,
                                              warmup |-> NextPair <= setup.warmups])
                     /\ UNCHANGED verdict
                ELSE verdict' = Raised /\ UNCHANGED rows
    BY <1>2
  <1>4. /\ first \in Nat /\ second \in Nat /\ second <= first /\ first <= machine.time
        /\ machine.time \in Nat /\ second \in Speeds
        /\ setup.overhead \in Nat /\ LoadTime \in Nat
    BY <1>2, CostAssumption DEF CostInv, RunTimes
  <1>5. verdict = Unsettled /\ n < 3 * AllPairs
    BY DEF Measure
  <1>6. CASE verdict' = Raised /\ UNCHANGED rows
    <2>b. machine'.time <= machine.time /\ machine'.time \in Nat
      BY <1>2, <1>4
    <2>1. NoSlower'
      <3> SUFFICES ASSUME ~setup.injected, NEW i \in 1 .. Len(rows), rows[i].variant = "MPP_SINGLE_PASS"
                   PROVE  machine'.time <= rows[i].time - setup.overhead
        BY <1>1, <1>6 DEF NoSlower, CostInv
      <3>1. machine.time <= rows[i].time - setup.overhead /\ rows[i].time \in Int
        BY RowTypes DEF CostInv, NoSlower
      <3> QED BY <1>4, <2>b, <3>1
    <2> QED
      BY <1>1, <1>2, <1>4, <1>6, <2>1 DEF CostInv, Raised, InPlace, Acceptable, Order, AllPairs
  <1>7. CASE /\ rows' = Append(rows, [pair |-> NextPair, variant |-> NextVariant, time |-> time,
                                              warmup |-> NextPair <= setup.warmups])
             /\ UNCHANGED verdict /\ Acceptable(time)
    <2> DEFINE row == [pair |-> NextPair, variant |-> NextVariant, time |-> time, warmup |-> NextPair <= setup.warmups]
    <2>1. NextVariant \in Variants
      BY <1>1, OrderVariants DEF NextVariant
    <2>2. time \in Int
      <3>1. Timed(NextVariant, first, second) \in Int
        BY <1>4 DEF Timed, Loading
      <3> QED BY <1>3, <3>1, CostAssumption
    <2>3. row \in MeasuredRows
      BY <1>1, <2>1, <2>2 DEF MeasuredRows
    <2>4. rows' \in Seq(MeasuredRows) /\ Len(rows') = n + 1 /\ Len(rows') <= 3 * AllPairs
          /\ rows'[n + 1] = row /\ \A i \in 1 .. n : rows'[i] = rows[i]
      <3> HIDE DEF row
      <3> QED BY <1>1, <1>5, <1>7, <2>3 DEF CostInv, row
    <2>5. \A r, i : InPlace(r, i)' <=> InPlace(r, i)
      BY <1>1 DEF InPlace, Acceptable, Order
    <2>6. InPlace(row, n + 1)
      <3>1. (n + 1) - 1 = n
        BY <1>1
      <3> QED BY <1>7, <3>1 DEF InPlace, NextPair, NextVariant
    <2>7. \A i \in 1 .. Len(rows') : InPlace(rows'[i], i)
      <3> HIDE DEF row
      <3>1. \A i \in 1 .. n + 1 : i \in 1 .. n \/ i = n + 1
        BY <1>1
      <3> QED BY <2>4, <2>6, <3>1 DEF CostInv
    <2>8. NoSlower'
      <3> SUFFICES ASSUME ~setup.injected, NEW i \in 1 .. n + 1, rows'[i].variant = "MPP_SINGLE_PASS"
                   PROVE  /\ machine'.time <= rows'[i].time - setup.overhead
                          /\ \A j \in 1 .. n + 1 : i < j =>
                                /\ rows'[j].variant = "MPP_SINGLE_PASS" => rows'[j].time <= rows'[i].time
                                /\ rows'[j].variant = "TWO_RUN_BASELINE" =>
                                      rows'[j].time <= 2 * (rows'[i].time - setup.overhead)
        BY <1>1, <2>4 DEF NoSlower
      <3>0. time = Timed(NextVariant, first, second) /\ machine'.time = second
        BY <1>2, <1>3
      <3>1. rows'[n + 1].variant = NextVariant /\ rows'[n + 1].time = time
        BY <2>4
      <3>2. CASE i = n + 1
        <4>1. NextVariant = "MPP_SINGLE_PASS" /\ rows'[i].time = time
          BY <3>1, <3>2
        <4>2. time >= first + setup.overhead
          BY <1>4, <3>0, <4>1 DEF Timed, Loading
        <4>3. \A j \in 1 .. n + 1 : ~(i < j)
          BY <1>1, <3>2
        <4> QED BY <1>4, <2>2, <3>0, <4>1, <4>2, <4>3
      <3>3. CASE i \in 1 .. n
        <4>1. rows'[i] = rows[i] /\ rows[i].variant = "MPP_SINGLE_PASS" /\ rows[i].time \in Int
          BY <2>4, <3>3, RowTypes
        <4>2. machine.time <= rows[i].time - setup.overhead
          BY <3>3, <4>1 DEF CostInv, NoSlower
        <4>3. machine.loaded
          <5>1. rows # <<>>
            BY <3>3, EmptySeq
          <5> QED BY <5>1 DEF CostInv
        <4>4. NextVariant = "MPP_SINGLE_PASS" => time <= rows[i].time
          <5> SUFFICES ASSUME NextVariant = "MPP_SINGLE_PASS" PROVE time <= rows[i].time
            OBVIOUS
          <5>1. time = first + setup.overhead
            BY <1>4, <3>0, <4>3 DEF Timed, Loading
          <5> QED BY <1>4, <4>1, <4>2, <5>1
        <4>5. NextVariant = "TWO_RUN_BASELINE" => time <= 2 * (rows[i].time - setup.overhead)
          <5> SUFFICES ASSUME NextVariant = "TWO_RUN_BASELINE"
                       PROVE  time <= 2 * (rows[i].time - setup.overhead)
            OBVIOUS
          <5>1. time = first + second
            BY <1>4, <3>0, <4>3 DEF Timed, Loading
          <5> QED BY <1>4, <4>1, <4>2, <5>1
        <4>6. machine'.time <= rows'[i].time - setup.overhead
          BY <1>4, <3>0, <4>1, <4>2
        <4>7. ASSUME NEW j \in 1 .. n + 1, i < j
              PROVE  /\ rows'[j].variant = "MPP_SINGLE_PASS" => rows'[j].time <= rows'[i].time
                     /\ rows'[j].variant = "TWO_RUN_BASELINE" =>
                           rows'[j].time <= 2 * (rows'[i].time - setup.overhead)
          <5>1. CASE j = n + 1
            BY <3>1, <4>1, <4>4, <4>5, <5>1
          <5>2. CASE j \in 1 .. n
            <6>1. rows'[j] = rows[j]
              BY <2>4, <5>2
            <6> QED BY <3>3, <4>1, <4>7, <5>2, <6>1 DEF CostInv, NoSlower
          <5> QED BY <1>1, <5>1, <5>2
        <4> QED BY <4>6, <4>7
      <3> QED BY <1>1, <3>2, <3>3
    <2>9. machine'.time \in Speeds /\ machine'.loaded = TRUE
      BY <1>2, <1>4
    <2>10. verdict'.is = "unsettled"
      BY <1>5, <1>7 DEF Unsettled
    <2> QED
      BY <1>1, <2>4, <2>5, <2>7, <2>8, <2>9, <2>10 DEF CostInv, AllPairs
  <1> QED BY <1>3, <1>6, <1>7

LEMMA PublishInv == CostInv /\ Publish => CostInv'
  <1> SUFFICES ASSUME CostInv, Publish PROVE CostInv'
    OBVIOUS
  <1>1. UNCHANGED <<setup, machine, rows>> /\ Len(rows) = 3 * AllPairs
    BY DEF Publish
  <1>2. Claim' = Claim /\ Frozen' = Frozen /\ AllPairs' = AllPairs /\ NoSlower' = NoSlower
        /\ \A r, i : InPlace(r, i)' = InPlace(r, i)
    BY <1>1, Kept
  <1>3. verdict' = [is |-> "summary", claim |-> Claim, frozen |-> Frozen]
    BY DEF Publish
  <1>4. verdict'.is = "summary" /\ verdict'.claim = Claim /\ verdict'.frozen = Frozen
    BY <1>3
  <1> QED BY <1>1, <1>2, <1>4 DEF CostInv

LEMMA CostNextInv == CostInv /\ [CostNext]_costVars => CostInv'
  <1> SUFFICES ASSUME CostInv, [CostNext]_costVars PROVE CostInv'
    OBVIOUS
  <1>1. CASE UNCHANGED costVars
    <2>1. /\ Claim' = Claim /\ Frozen' = Frozen /\ AllPairs' = AllPairs /\ NoSlower' = NoSlower
          /\ \A r, i : InPlace(r, i)' = InPlace(r, i)
      BY <1>1, Kept DEF costVars
    <2> QED BY <1>1, <2>1 DEF CostInv, costVars
  <1> QED BY <1>1, MeasureInv, PublishInv DEF CostNext


\* A complete measurement holds one row of each pair and variant.
LEMMA RowAt ==
    ASSUME CostInv, Len(rows) = 3 * AllPairs, NEW p \in Nat \ {0}, p <= AllPairs, NEW k \in 1 .. 3
    PROVE  /\ 3 * (p - 1) + k \in 1 .. Len(rows)
           /\ rows[3 * (p - 1) + k].pair = p
           /\ rows[3 * (p - 1) + k].variant = Order(p)[k]
  <1> DEFINE i == 3 * (p - 1) + k
  <1>1. AllPairs \in Nat
    BY CostAssumption DEF CostInv, AllPairs
  <1>2. i \in 1 .. Len(rows) /\ ((i - 1) \div 3) + 1 = p /\ ((i - 1) % 3) + 1 = k
    BY <1>1
  <1> HIDE DEF i
  <1>3. InPlace(rows[i], i)
    BY <1>2 DEF CostInv
  <1> QED BY <1>2, <1>3 DEF InPlace, i

LEMMA MeasuredIs ==
    ASSUME CostInv, NEW r \in Measured
    PROVE  \E i \in 1 .. Len(rows) : /\ r = rows[i] /\ InPlace(rows[i], i) /\ r \in MeasuredRows
                                     /\ ~r.warmup
  BY DEF CostInv, Measured

LEMMA OfPair ==
    ASSUME CostInv, Len(rows) = 3 * AllPairs, NEW p \in PairsMeasured
    PROVE  p \in Nat \ {0} /\ p <= AllPairs /\ p > setup.warmups
  <1>1. PICK r \in Measured : r.pair = p
    BY DEF PairsMeasured
  <1>2. PICK i \in 1 .. Len(rows) : r = rows[i] /\ InPlace(rows[i], i) /\ r \in MeasuredRows /\ ~r.warmup
    BY MeasuredIs
  <1>3. AllPairs \in Nat /\ setup.warmups \in Nat
    BY CostAssumption DEF CostInv, AllPairs
  <1>4. p = ((i - 1) \div 3) + 1 /\ ~(p <= setup.warmups)
    BY <1>1, <1>2 DEF InPlace
  <1> QED BY <1>2, <1>3, <1>4

\* Every measured pair has its row of each variant, and no other.
LEMMA TimeAt ==
    ASSUME CostInv, Len(rows) = 3 * AllPairs, NEW n \in 1 .. Pairs, NEW k \in 1 .. 3
    PROVE  LET p == setup.warmups + n
               i == 3 * (p - 1) + k
           IN  /\ i \in 1 .. Len(rows) /\ p \in PairsMeasured
               /\ rows[i].variant = Order(p)[k] /\ rows[i].time \in Int
               /\ TimeOf(p, Order(p)[k]) = rows[i].time
  <1> DEFINE p == setup.warmups + n
             i == 3 * (p - 1) + k
  <1>1. setup.warmups \in Nat /\ Pairs \in Nat /\ AllPairs = setup.warmups + Pairs
    BY CostAssumption DEF CostInv, AllPairs
  <1>2. p \in Nat \ {0} /\ p <= AllPairs /\ ~(p <= setup.warmups)
    BY <1>1
  <1> HIDE DEF p
  <1>3. i \in 1 .. Len(rows) /\ rows[i].pair = p /\ rows[i].variant = Order(p)[k]
    BY <1>2, RowAt
  <1>4. rows[i] \in Measured /\ rows[i].time \in Int
    <2> HIDE DEF i
    <2>1. ~rows[i].warmup
      BY <1>2, <1>3 DEF CostInv, InPlace
    <2>2. i \in DOMAIN rows
      BY <1>3 DEF CostInv
    <2> QED BY <1>3, <2>1, <2>2, RowTypes DEF Measured
  <1>5. ASSUME NEW r \in Measured, r.pair = p, r.variant = Order(p)[k] PROVE r = rows[i]
    <2>1. PICK j \in 1 .. Len(rows) : r = rows[j] /\ InPlace(rows[j], j)
      BY MeasuredIs
    <2>2. ((j - 1) \div 3) + 1 = p /\ Order(p)[((j - 1) % 3) + 1] = Order(p)[k]
      BY <1>5, <2>1 DEF InPlace
    <2>3. ((j - 1) % 3) + 1 \in 1 .. 3
      OBVIOUS
    <2>4. \A m \in 1 .. 3 : Order(p)[m] = Order(p)[k] => m = k
      BY DEF Order
    <2>5. ((j - 1) % 3) + 1 = k
      BY <2>2, <2>3, <2>4
    <2>6. j - 1 = 3 * ((j - 1) \div 3) + ((j - 1) % 3)
      OBVIOUS
    <2>7. j = i
      BY <1>2, <2>2, <2>5, <2>6
    <2> QED BY <2>1, <2>7
  <1>6. TimeOf(p, Order(p)[k]) = rows[i].time
    <2> HIDE DEF i
    <2> QED BY <1>3, <1>4, <1>5 DEF TimeOf
  <1>7. p \in PairsMeasured
    BY <1>3, <1>4 DEF PairsMeasured
  <1> QED BY <1>3, <1>4, <1>6, <1>7 DEF p

Base(p) == TimeOf(p, "TWO_RUN_BASELINE")
Pass(p) == TimeOf(p, "MPP_SINGLE_PASS")

\* The times of a measured pair, and what a reversed pair and a later one say.
LEMMA PairTimes ==
    ASSUME CostInv, Len(rows) = 3 * AllPairs, NEW n \in 1 .. Pairs
    PROVE  LET p == setup.warmups + n
           IN  /\ p \in Nat /\ p \in PairsMeasured /\ Base(p) \in Int /\ Pass(p) \in Int
               /\ \E i \in 1 .. Len(rows) :
                     /\ rows[i].variant = "MPP_SINGLE_PASS" /\ rows[i].time = Pass(p)
                     /\ 3 * (p - 1) < i /\ i <= 3 * (p - 1) + 3
                     /\ setup.design = "COUNTERBALANCED_PAIRED" /\ Reversed(p) =>
                           /\ i + 1 \in 1 .. Len(rows) /\ rows[i + 1].variant = "TWO_RUN_BASELINE"
                           /\ rows[i + 1].time = Base(p)
  <1> DEFINE p == setup.warmups + n
             i(k) == 3 * (p - 1) + k
  <1>1. p \in Nat
    BY CostAssumption DEF CostInv
  <1>2. \A k \in 1 .. 3 :
           /\ i(k) \in 1 .. Len(rows) /\ p \in PairsMeasured
           /\ rows[i(k)].variant = Order(p)[k] /\ rows[i(k)].time \in Int
           /\ TimeOf(p, Order(p)[k]) = rows[i(k)].time
    BY TimeAt
  <1> HIDE DEF p
  <1>3. 1 \in 1 .. 3 /\ 2 \in 1 .. 3 /\ 3 \in 1 .. 3
    OBVIOUS
  <1>4. CASE setup.design = "COUNTERBALANCED_PAIRED" /\ Reversed(p)
    <2>1. Order(p)[2] = "MPP_SINGLE_PASS" /\ Order(p)[3] = "TWO_RUN_BASELINE"
      BY <1>4 DEF Order
    <2>2. i(2) + 1 = i(3) /\ 3 * (p - 1) < i(2) /\ i(2) <= 3 * (p - 1) + 3
      BY <1>1
    <2>3. /\ i(2) \in 1 .. Len(rows) /\ rows[i(2)].variant = "MPP_SINGLE_PASS"
          /\ rows[i(2)].time \in Int /\ rows[i(2)].time = Pass(p) /\ p \in PairsMeasured
      BY <1>2, <1>3, <2>1 DEF Pass
    <2>4. /\ i(3) \in 1 .. Len(rows) /\ rows[i(3)].variant = "TWO_RUN_BASELINE"
          /\ rows[i(3)].time \in Int /\ rows[i(3)].time = Base(p)
      BY <1>2, <1>3, <2>1 DEF Base
    <2> HIDE DEF i
    <2> QED BY <1>1, <2>2, <2>3, <2>4 DEF p
  <1>5. CASE ~(setup.design = "COUNTERBALANCED_PAIRED" /\ Reversed(p))
    <2>1. Order(p)[2] = "TWO_RUN_BASELINE" /\ Order(p)[3] = "MPP_SINGLE_PASS"
      BY <1>5 DEF Order
    <2>2. 3 * (p - 1) < i(3) /\ i(3) <= 3 * (p - 1) + 3
      BY <1>1
    <2>3. /\ i(3) \in 1 .. Len(rows) /\ rows[i(3)].variant = "MPP_SINGLE_PASS"
          /\ rows[i(3)].time \in Int /\ rows[i(3)].time = Pass(p) /\ p \in PairsMeasured
      BY <1>2, <1>3, <2>1 DEF Pass
    <2>4. Base(p) \in Int
      BY <1>2, <1>3, <2>1 DEF Base
    <2> HIDE DEF i
    <2> QED BY <1>1, <1>5, <2>2, <2>3, <2>4 DEF p
  <1> QED BY <1>4, <1>5

LEMMA LossesAdd ==
    \A b, t, c, u \in Int, o \in Nat :
        b <= 2 * o /\ c <= 2 * o /\ c <= 2 * (u - o) /\ (b <= 2 * (t - o) \/ u <= t) =>
            b - t \in Int /\ c - u \in Int /\ (b - t) + (c - u) <= 0
  OBVIOUS

\* Where the protocol's part takes half a baseline or more in every pair, a reversed pair
\* shows no gain, and one in the plain order no more than a later reversed pair loses.
LEMMA PairsCancel ==
    ASSUME CostInv, Len(rows) = 3 * AllPairs, ~setup.injected, setup.design = "COUNTERBALANCED_PAIRED",
           \A p \in PairsMeasured : Base(p) <= 2 * setup.overhead,
           NEW n \in 1 .. Pairs, NEW m \in 1 .. Pairs,
           Reversed(setup.warmups + m),
           ~Reversed(setup.warmups + n) => setup.warmups + n < setup.warmups + m
    PROVE  Delta[n] \in Int /\ Delta[m] \in Int /\ Delta[n] + Delta[m] <= 0
  <1> DEFINE p == setup.warmups + n
             q == setup.warmups + m
  <1>1. /\ p \in Nat /\ q \in Nat /\ Base(p) \in Int /\ Pass(p) \in Int /\ Base(q) \in Int /\ Pass(q) \in Int
        /\ Base(p) <= 2 * setup.overhead /\ Base(q) <= 2 * setup.overhead /\ setup.overhead \in Nat
    BY PairTimes, CostAssumption DEF CostInv
  <1>2. PICK i \in 1 .. Len(rows) :
           /\ rows[i].variant = "MPP_SINGLE_PASS" /\ rows[i].time = Pass(p)
           /\ 3 * (p - 1) < i /\ i <= 3 * (p - 1) + 3
           /\ Reversed(p) => /\ i + 1 \in 1 .. Len(rows) /\ rows[i + 1].variant = "TWO_RUN_BASELINE"
                             /\ rows[i + 1].time = Base(p)
    BY PairTimes
  <1>3. PICK j \in 1 .. Len(rows) :
           /\ rows[j].variant = "MPP_SINGLE_PASS" /\ rows[j].time = Pass(q)
           /\ 3 * (q - 1) < j /\ j <= 3 * (q - 1) + 3
           /\ j + 1 \in 1 .. Len(rows) /\ rows[j + 1].variant = "TWO_RUN_BASELINE"
           /\ rows[j + 1].time = Base(q)
    BY PairTimes
  <1>4. Delta[n] = Base(p) - Pass(p) /\ Delta[m] = Base(q) - Pass(q)
    BY DEF Delta, Base, Pass
  <1>5. \A x, y \in 1 .. Len(rows) : rows[x].variant = "MPP_SINGLE_PASS" /\ x < y =>
           /\ rows[y].variant = "MPP_SINGLE_PASS" => rows[y].time <= rows[x].time
           /\ rows[y].variant = "TWO_RUN_BASELINE" => rows[y].time <= 2 * (rows[x].time - setup.overhead)
    BY DEF CostInv, NoSlower
  <1> HIDE DEF p, q
  <1>6. Base(q) <= 2 * (Pass(q) - setup.overhead)
    <2>1. j < j + 1
      OBVIOUS
    <2> QED BY <1>3, <1>5, <2>1
  <1>7. CASE Reversed(p)
    <2>1. Base(p) <= 2 * (Pass(p) - setup.overhead)
      <3>1. i < i + 1
        OBVIOUS
      <3> QED BY <1>2, <1>5, <1>7, <3>1
    <2> QED BY <1>1, <1>4, <1>6, <2>1, LossesAdd
  <1>8. CASE ~Reversed(p)
    <2>1. p < q
      BY <1>8 DEF p, q
    <2>2. i < j
      BY <1>1, <1>2, <1>3, <2>1
    <2>3. Pass(q) <= Pass(p)
      BY <1>2, <1>3, <1>5, <2>2
    <2> QED BY <1>1, <1>4, <1>6, <2>3, LossesAdd
  <1> QED BY <1>7, <1>8

\* Two functions whose values outweigh each other in pairs add up to nothing positive.
LEMMA SumsCancel ==
    ASSUME NEW S, IsFiniteSet(S), NEW f, NEW h,
           \A x \in S : f[x] \in Int /\ h[x] \in Int /\ f[x] + h[x] <= 0
    PROVE  SumFunctionOnSet(f, S) + SumFunctionOnSet(h, S) <= 0
  <1> DEFINE Fits == {U \in SUBSET S : SumFunctionOnSet(f, U) + SumFunctionOnSet(h, U) <= 0}
  <1>1. {} \in Fits
    BY SumOfNone
  <1>2. ASSUME NEW U \in Fits, NEW z \in S \ U PROVE U \cup {z} \in Fits
    <2>1. IsFiniteSet(U) /\ z \notin U /\ SumFunctionOnSet(f, U) + SumFunctionOnSet(h, U) <= 0
      BY FS_Subset
    <2>2. \A y \in U \cup {z} : f[y] \in Int /\ h[y] \in Int
      OBVIOUS
    <2>3. /\ SumFunctionOnSet(f, U \cup {z}) = SumFunctionOnSet(f, U) + f[z]
          /\ SumFunctionOnSet(h, U \cup {z}) = SumFunctionOnSet(h, U) + h[z]
      BY <2>1, <2>2, SumOfOneMore
    <2>4. SumFunctionOnSet(f, U) \in Int /\ SumFunctionOnSet(h, U) \in Int
      BY <2>1, <2>2, SumIsInt
    <2>5. SumFunctionOnSet(f, U \cup {z}) + SumFunctionOnSet(h, U \cup {z}) <= 0
      BY <2>1, <2>3, <2>4
    <2> QED BY <2>5
  <1>3. Fits \in SUBSET SUBSET S
    OBVIOUS
  <1>4. S \in Fits
    <2> HIDE DEF Fits
    <2> QED BY <1>1, <1>2, <1>3, GrowingSet
  <1> QED BY <1>4

\* So a resample whose draws cancel out has no positive mean.
LEMMA ResampleCancels ==
    ASSUME CostInv, Len(rows) = 3 * AllPairs, ~setup.injected, setup.design = "COUNTERBALANCED_PAIRED",
           \A p \in PairsMeasured : Base(p) <= 2 * setup.overhead,
           NEW draws \in [1 .. Pairs -> 1 .. Pairs], CancelsOut(draws, setup.warmups)
    PROVE  Resampled(draws, Delta) <= 0
  <1> DEFINE S == 1 .. Pairs
             f == [k \in S |-> Delta[draws[k]]]
  <1>1. PICK mate \in Injection(S, S) :
           \A k \in S :
              LET p == setup.warmups + draws[k]
                  q == setup.warmups + draws[mate[k]]
              IN  (Reversed(p) \/ Reversed(q)) /\ (~Reversed(p) => p < q) /\ (~Reversed(q) => q < p)
    BY DEF CancelsOut
  <1> DEFINE h == [k \in S |-> f[mate[k]]]
  <1>2. IsFiniteSet(S)
    BY CostAssumption, FS_Interval
  <1>3. mate \in [S -> S] /\ (\A x, y \in S : mate[x] = mate[y] => x = y) /\ {mate[x] : x \in S} = S
    <2>1. mate \in Surjection(S, S)
      <3> HIDE DEF S
      <3> QED BY <1>1, <1>2, FS_Injection
    <2>2. mate \in [S -> S] /\ (\A x, y \in S : mate[x] = mate[y] => x = y)
      BY <1>1 DEF Injection, IsInjective
    <2>3. \A t \in S : \E x \in S : mate[x] = t
      BY <2>1 DEF Surjection
    <2> HIDE DEF S
    <2> QED BY <2>2, <2>3
  <1>4. ASSUME NEW k \in S PROVE f[k] \in Int /\ h[k] \in Int /\ f[k] + h[k] <= 0
    <2> DEFINE a == draws[k]
               b == draws[mate[k]]
               p == setup.warmups + a
               q == setup.warmups + b
    <2>1. a \in 1 .. Pairs /\ b \in 1 .. Pairs /\ f[k] = Delta[a] /\ h[k] = Delta[b]
      BY <1>3
    <2>2. (Reversed(p) \/ Reversed(q)) /\ (~Reversed(p) => p < q) /\ (~Reversed(q) => q < p)
      BY <1>1
    <2> HIDE DEF a, b, f, h
    <2>3. Delta[a] \in Int /\ Delta[b] \in Int /\ Delta[a] + Delta[b] <= 0
      <3>1. CASE Reversed(q)
        BY <2>1, <2>2, <3>1, PairsCancel
      <3>2. CASE Reversed(p) /\ ~Reversed(q)
        <4>1. Delta[a] \in Int /\ Delta[b] \in Int /\ Delta[b] + Delta[a] <= 0
          BY <2>1, <2>2, <3>2, PairsCancel
        <4> QED BY <4>1
      <3> QED BY <2>2, <3>1, <3>2
    <2> QED BY <2>1, <2>3
  <1>5. SumFunctionOnSet(f, S) = SumFunctionOnSet(h, S)
    <2>1. \A k \in S : h[k] = f[mate[k]] /\ h[k] \in Int
      BY <1>4
    <2>2. \A x, y \in S : mate[x] = mate[y] => x = y
      BY <1>3
    <2> HIDE DEF S, f, h
    <2>3. SumFunctionOnSet(f, {mate[x] : x \in S}) = SumFunctionOnSet(h, S)
      <3> DEFINE g == mate
      <3>1. \A x, y \in S : g[x] = g[y] => x = y
        BY <2>2
      <3>2. \A k \in S : h[k] = f[g[k]] /\ h[k] \in Int
        BY <2>1
      <3> HIDE DEF g
      <3>3. SumFunctionOnSet(f, {g[x] : x \in S}) = SumFunctionOnSet(h, S)
        BY <1>2, <3>1, <3>2, SumOfImage
      <3> QED BY <3>3 DEF g
    <2> QED BY <1>3, <2>3
  <1>6. SumFunctionOnSet(f, S) \in Int /\ SumFunctionOnSet(f, S) + SumFunctionOnSet(h, S) <= 0
    <2>1. \A k \in S : f[k] \in Int /\ h[k] \in Int /\ f[k] + h[k] <= 0
      BY <1>4
    <2> HIDE DEF S, f, h
    <2> QED BY <1>2, <2>1, SumIsInt, SumsCancel
  <1>7. SumFunctionOnSet(f, S) <= 0
    BY <1>5, <1>6
  <1> QED BY <1>7 DEF Resampled

LEMMA TwoPairs ==
    ASSUME CostInv, Len(rows) = 3 * AllPairs, Cardinality(PairsMeasured) >= 2
    PROVE  Pairs >= 2
  <1>1. CASE Pairs = 1
    <2>1. setup.warmups \in Nat /\ AllPairs = setup.warmups + 1
      BY <1>1 DEF AllPairs, CostInv
    <2>2. PairsMeasured \in SUBSET {setup.warmups + 1}
      BY <2>1, OfPair
    <2>3. IsFiniteSet({setup.warmups + 1}) /\ Cardinality({setup.warmups + 1}) = 1
      BY FS_Singleton
    <2>4. IsFiniteSet(PairsMeasured) /\ Cardinality(PairsMeasured) <= 1
      BY <2>2, <2>3, FS_Subset
    <2>5. Cardinality(PairsMeasured) \in Nat
      BY <2>4, FS_CardinalityType
    <2> QED BY <2>4, <2>5
  <1> QED BY <1>1, CostAssumption

\* Enough resamples cancel out to hold the bound down.
LEMMA SupportEarned ==
    ASSUME CostInv, Len(rows) = 3 * AllPairs, Claim = "SUPPORTED", ~setup.injected
    PROVE  \E p \in PairsMeasured : 2 * setup.overhead < TimeOf(p, "TWO_RUN_BASELINE")
  <1>1. /\ setup.design = "COUNTERBALANCED_PAIRED" /\ Cardinality(PairsMeasured) >= 2
        /\ LowerBoundPositive
    BY DEF Claim, StatisticallyPositive, MinimumPairs, CostInv, Designs
  <1>2. Pairs >= MinimumPairs /\ setup.warmups \in {0, 1} /\ setup.overhead \in Nat
    BY <1>1, TwoPairs, CostAssumption DEF CostInv, MinimumPairs
  <1> SUFFICES ASSUME \A p \in PairsMeasured : ~(2 * setup.overhead < Base(p)) PROVE FALSE
    BY DEF Base
  <1>3. \A p \in PairsMeasured : Base(p) <= 2 * setup.overhead
    <2> SUFFICES ASSUME NEW p \in PairsMeasured PROVE Base(p) \in Int
      BY <1>2
    <2>1. p \in Nat /\ p > setup.warmups /\ p <= AllPairs /\ setup.warmups \in Nat /\ Pairs \in Nat
      BY <1>2, OfPair, CostAssumption
    <2>2. p - setup.warmups \in 1 .. Pairs /\ setup.warmups + (p - setup.warmups) = p
      BY <2>1 DEF AllPairs
    <2> QED BY <2>2, PairTimes
  <1> DEFINE Cancelling == {i \in 1 .. Iterations : CancelsOut(Resamples[i], setup.warmups)}
             down == {draws \in Range(Resamples) : Resampled(draws, Delta) <= 0}
             NotPositive == {i \in 1 .. Iterations : Resamples[i] \in down}
  <1>4. Cancelling \in SUBSET NotPositive
    <2> SUFFICES ASSUME NEW i \in 1 .. Iterations, CancelsOut(Resamples[i], setup.warmups)
                 PROVE  Resamples[i] \in down
      OBVIOUS
    <2>1. Resamples[i] \in [1 .. Pairs -> 1 .. Pairs] /\ Resamples[i] \in Range(Resamples)
      BY BootstrapAssumption DEF Range
    <2> QED BY <1>1, <1>3, <2>1, ResampleCancels
  <1>5. Cardinality(Cancelling) >= LowerRank
    BY <1>2, BootstrapAssumption
  <1>6. Cardinality(NotPositive) < LowerRank
    BY <1>1 DEF LowerBoundPositive
  <1>7. IsFiniteSet(NotPositive)
    <2>1. IsFiniteSet(1 .. Iterations)
      <3>1. \A n \in Nat : IsFiniteSet(1 .. n)
        BY FS_Interval
      <3> QED BY <3>1 DEF Iterations
    <2> QED BY <2>1, FS_Subset
  <1>8. Cardinality(Cancelling) <= Cardinality(NotPositive) /\ IsFiniteSet(Cancelling)
    <2> HIDE DEF Cancelling, NotPositive
    <2> QED BY <1>4, <1>7, FS_Subset
  <1>9. Cardinality(Cancelling) \in Nat /\ Cardinality(NotPositive) \in Nat
    <2> HIDE DEF Cancelling, NotPositive
    <2> QED BY <1>7, <1>8, FS_CardinalityType
  <1> QED BY <1>5, <1>6, <1>8, <1>9 DEF LowerRank

LEMMA FreezeEarned ==
    ASSUME CostInv, Len(rows) = 3 * AllPairs, Frozen
    PROVE  ~setup.injected /\ \A r \in Measured : r.time > 0
  <1>1. setup.origin = "REAL_MODEL_EXECUTION"
    BY DEF Frozen, CostInv
  <1>2. 1 \in 1 .. Len(rows)
    BY CostAssumption DEF AllPairs, CostInv
  <1>3. ~setup.injected
    BY <1>1, <1>2 DEF CostInv, InPlace, Acceptable
  <1>4. \A r \in Measured : r.time > 0
    BY <1>1, MeasuredIs DEF InPlace, Acceptable
  <1> QED BY <1>3, <1>4

\* On a machine that only gets faster, whatever its speeds, the overheads and the fixture's
\* clock, and for any number of pairs whose resamples cancel out often enough, the claim is
\* supported only of a pass that costs less than a second run; only real times are frozen.
THEOREM CostClaimIsEarned == CostSpec => []CostClaimEarned
  <1>1. CostInv => CostClaimEarned
    BY SupportEarned, FreezeEarned DEF CostClaimEarned, CostInv
  <1> QED BY <1>1, CostInitInv, CostNextInv, PTL DEF CostSpec

-----------------------------------------------------------------------------
(* The publication of E8 (CommitteePublication). *)

\* What a run makes of a plan that closes against its contract.
Authentic(artifact, calm) ==
    \E kind \in Kinds, plan \in Plans, contract \in Agreed : \E version, closure, now :
        /\ artifact = Made(kind, version, plan, contract, closure, now)
        /\ artifact # Absent
        /\ Resolves(plan, contract)
        /\ calm => version = closure /\ now = closure

Storable(artifact) ==
    artifact = Absent \/ /\ "of" \in DOMAIN artifact
                         /\ {"plan", "contract"} \subseteq DOMAIN artifact.of
                         /\ artifact.of.plan \in Plans /\ artifact.of.contract \in Agreed

ReadingSteps == {"artifact", "plan", "contract", "closure", "resolve", "run"}

\* What a process holds at its step, the sources on disk being as they are.
Holds(s, sources) ==
    /\ "step" \in DOMAIN s
    /\ s.step \in {"away", "done", "write", "verify"} \cup ReadingSteps
    /\ s.step \in ReadingSteps =>
          /\ {"errand", "version", "steady"} \subseteq DOMAIN s
          /\ s.errand \in Errands
          /\ s.steady => s.version = sources
    /\ s.step \in ReadingSteps \ {"artifact"} /\ s.errand.does = "load" =>
          "artifact" \in DOMAIN s /\ s.artifact # Absent
    /\ s.step \in {"contract", "closure", "resolve", "run"} => "plan" \in DOMAIN s /\ s.plan \in Plans
    /\ s.step \in {"closure", "resolve", "run"} => "contract" \in DOMAIN s /\ s.contract \in Agreed
    /\ s.step \in {"resolve", "run"} => "closure" \in DOMAIN s
    /\ s.step = "run" => Resolves(s.plan, s.contract) /\ (s.steady => s.closure = sources)
    /\ s.step \in {"write", "verify"} =>
          /\ {"errand", "steady", "result"} \subseteq DOMAIN s
          /\ s.errand \in Errands
          /\ Authentic(s.result, s.steady) /\ Storable(s.result)
    /\ s.step = "done" => {"steady", "accepted"} \subseteq DOMAIN s /\ Authentic(s.accepted, s.steady)

CommitteeInv ==
    /\ "sources" \in DOMAIN disk
    /\ DOMAIN stored = Kinds /\ \A kind \in Kinds : Storable(stored[kind])
    /\ DOMAIN process = Processes /\ \A p \in Processes : Holds(process[p], disk.sources)

LEMMA MadeStorable ==
    ASSUME NEW kind \in Kinds, NEW plan \in Plans, NEW contract \in Agreed, NEW version, NEW closure, NEW now
    PROVE  Storable(Made(kind, version, plan, contract, closure, now))
  BY DEF Storable, Made, Kinds, Absent

LEMMA DoctoredStorable ==
    ASSUME NEW artifact, Storable(artifact), artifact # Absent, NEW other \in Doctored(artifact)
    PROVE  Storable(other)
  <1>1. "of" \in DOMAIN artifact /\ {"plan", "contract"} \subseteq DOMAIN artifact.of
        /\ artifact.of.plan \in Plans /\ artifact.of.contract \in Agreed
    BY DEF Storable
  <1>2. \/ other = [artifact EXCEPT !.of.closure = disk.sources]
        \/ other = [artifact EXCEPT !.closure = disk.sources, !.of.closure = disk.sources]
        \/ other = [artifact EXCEPT !.rows["baseline"].share = 0]
        \/ other = [artifact EXCEPT !.finding = "SUPPORTED"]
    BY DEF Doctored
  <1>3. "of" \in DOMAIN other /\ DOMAIN other.of = DOMAIN artifact.of
        /\ other.of.plan = artifact.of.plan /\ other.of.contract = artifact.of.contract
    BY <1>1, <1>2
  <1> QED BY <1>1, <1>3 DEF Storable

LEMMA CommitteeInitInv == CommitteeInit => CommitteeInv
  BY DEF CommitteeInit, CommitteeInv, Storable, Holds, Away, Absent, ReadingSteps

\* Only p moves.
LEMMA OneMoves ==
    ASSUME CommitteeInv, NEW p \in Processes, NEW STATE s, Set(p, s), UNCHANGED disk,
           Holds(s, disk.sources), UNCHANGED stored
    PROVE  CommitteeInv'
  BY DEF CommitteeInv, Set

LEMMA AwayHolds == \A sources : Holds(Away, sources)
  BY DEF Holds, Away, ReadingSteps

\* What Took makes of a record.
Taken(r, fields, step) ==
    [f \in DOMAIN r \cup DOMAIN fields |->
        IF f = "step" THEN step ELSE IF f \in DOMAIN fields THEN fields[f] ELSE r[f]]

LEMMA StartInv ==
    ASSUME CommitteeInv, NEW p \in Processes, NEW errand \in Errands, Start(p, errand)
    PROVE  CommitteeInv'
  <1> DEFINE s == [step |-> IF errand.does = "publish" THEN "plan" ELSE "artifact", errand |-> errand,
                   version |-> disk.sources, steady |-> TRUE]
  <1>0. errand.does \in {"publish", "load"}
    BY DEF Errands
  <1>1. Holds(s, disk.sources)
    BY <1>0 DEF Holds, ReadingSteps
  <1> QED BY <1>1, OneMoves DEF Start

LEMMA TakeArtifactInv ==
    ASSUME CommitteeInv, NEW p \in Processes, TakeArtifact(p)
    PROVE  CommitteeInv'
  <1> DEFINE read == stored[process[p].errand.kind]
  <1>0. Holds(process[p], disk.sources) /\ process[p].step = "artifact" /\ UNCHANGED <<disk, stored>>
    BY DEF CommitteeInv, TakeArtifact, Does
  <1>1. process[p].errand.kind \in Kinds
    BY <1>0 DEF Holds, ReadingSteps, Errands, Kinds
  <1>2. Storable(read)
    BY <1>1 DEF CommitteeInv
  <1>3. CASE read = Absent
    BY <1>0, <1>3, OneMoves, AwayHolds DEF TakeArtifact, Quit
  <1>4. CASE read # Absent /\ process[p].errand.withPlan
    <2> DEFINE fields == [artifact |-> read]
               s == Taken(process[p], fields, "plan")
    <2>1. Set(p, s)
      BY <1>4 DEF TakeArtifact, Took, Taken
    <2>2. /\ DOMAIN s = DOMAIN process[p] \cup {"artifact"}
          /\ s.step = "plan"
          /\ s.artifact = read
          /\ \A f \in DOMAIN process[p] \ {"artifact", "step"} : s[f] = process[p][f]
      <3>1. DOMAIN fields = {"artifact"} /\ fields.artifact = read
        OBVIOUS
      <3>2. "step" \in DOMAIN process[p]
        BY <1>0 DEF Holds
      <3> HIDE DEF fields
      <3> QED BY <3>1, <3>2 DEF Taken
    <2> HIDE DEF s
    <2>3. Holds(s, disk.sources)
      BY <1>0, <1>4, <2>2 DEF Holds, ReadingSteps
    <2> QED BY <1>0, <2>1, <2>3, OneMoves
  <1>5. CASE read # Absent /\ ~process[p].errand.withPlan
    <2> DEFINE fields == [artifact |-> read, plan |-> read.of.plan, contract |-> read.of.contract, closure |-> read.of.closure]
               s == Taken(process[p], fields, "resolve")
    <2>1. Set(p, s)
      BY <1>5 DEF TakeArtifact, Took, Taken
    <2>2. /\ DOMAIN s = DOMAIN process[p] \cup {"artifact", "plan", "contract", "closure"}
          /\ s.step = "resolve"
          /\ s.artifact = read
          /\ s.plan = read.of.plan
          /\ s.contract = read.of.contract
          /\ s.closure = read.of.closure
          /\ \A f \in DOMAIN process[p] \ {"artifact", "plan", "contract", "closure", "step"} : s[f] = process[p][f]
      <3>1. DOMAIN fields = {"artifact", "plan", "contract", "closure"} /\ fields.artifact = read /\ fields.plan = read.of.plan /\ fields.contract = read.of.contract /\ fields.closure = read.of.closure
        OBVIOUS
      <3>2. "step" \in DOMAIN process[p]
        BY <1>0 DEF Holds
      <3> HIDE DEF fields
      <3> QED BY <3>1, <3>2 DEF Taken
    <2> HIDE DEF s
    <2>3. read.of.plan \in Plans /\ read.of.contract \in Agreed
      BY <1>2, <1>5 DEF Storable
    <2>4. Holds(s, disk.sources)
      BY <1>0, <1>5, <2>2, <2>3 DEF Holds, ReadingSteps
    <2> QED BY <1>0, <2>1, <2>4, OneMoves
  <1> QED BY <1>3, <1>4, <1>5

LEMMA TakePlanInv ==
    ASSUME CommitteeInv, NEW p \in Processes, TakePlan(p)
    PROVE  CommitteeInv'
  <1>0. Holds(process[p], disk.sources) /\ process[p].step = "plan" /\ UNCHANGED <<disk, stored>>
    BY DEF CommitteeInv, TakePlan, Does
  <1>1. CASE disk.plan \in Plans
    <2> DEFINE fields == [plan |-> disk.plan]
               s == Taken(process[p], fields, "contract")
    <2>1. Set(p, s)
      BY <1>1 DEF TakePlan, Took, Taken
    <2>2. /\ DOMAIN s = DOMAIN process[p] \cup {"plan"}
          /\ s.step = "contract"
          /\ s.plan = disk.plan
          /\ \A f \in DOMAIN process[p] \ {"plan", "step"} : s[f] = process[p][f]
      <3>1. DOMAIN fields = {"plan"} /\ fields.plan = disk.plan
        OBVIOUS
      <3>2. "step" \in DOMAIN process[p]
        BY <1>0 DEF Holds
      <3> HIDE DEF fields
      <3> QED BY <3>1, <3>2 DEF Taken
    <2> HIDE DEF s
    <2>3. Holds(s, disk.sources)
      BY <1>0, <1>1, <2>2 DEF Holds, ReadingSteps
    <2> QED BY <1>0, <2>1, <2>3, OneMoves
  <1>2. CASE disk.plan \notin Plans
    BY <1>0, <1>2, OneMoves, AwayHolds DEF TakePlan, Quit
  <1> QED BY <1>1, <1>2

LEMMA TakeContractInv ==
    ASSUME CommitteeInv, NEW p \in Processes, TakeContract(p)
    PROVE  CommitteeInv'
  <1>0. Holds(process[p], disk.sources) /\ process[p].step = "contract" /\ UNCHANGED <<disk, stored>>
    BY DEF CommitteeInv, TakeContract, Does
  <1>1. CASE disk.contract \in Agreed
    <2> DEFINE fields == [contract |-> disk.contract]
               s == Taken(process[p], fields, "closure")
    <2>1. Set(p, s)
      BY <1>1 DEF TakeContract, Took, Taken
    <2>2. /\ DOMAIN s = DOMAIN process[p] \cup {"contract"}
          /\ s.step = "closure"
          /\ s.contract = disk.contract
          /\ \A f \in DOMAIN process[p] \ {"contract", "step"} : s[f] = process[p][f]
      <3>1. DOMAIN fields = {"contract"} /\ fields.contract = disk.contract
        OBVIOUS
      <3>2. "step" \in DOMAIN process[p]
        BY <1>0 DEF Holds
      <3> HIDE DEF fields
      <3> QED BY <3>1, <3>2 DEF Taken
    <2> HIDE DEF s
    <2>3. Holds(s, disk.sources)
      BY <1>0, <1>1, <2>2 DEF Holds, ReadingSteps
    <2> QED BY <1>0, <2>1, <2>3, OneMoves
  <1>2. CASE disk.contract \notin Agreed
    BY <1>0, <1>2, OneMoves, AwayHolds DEF TakeContract, Quit
  <1> QED BY <1>1, <1>2

\* The sources hashed, before the plan is resolved and when it is.
LEMMA ClosureInv ==
    ASSUME CommitteeInv, NEW p \in Processes, HashClosure(p) \/ Resolve(p)
    PROVE  CommitteeInv'
  <1>0. Holds(process[p], disk.sources) /\ UNCHANGED <<disk, stored>>
    BY DEF CommitteeInv, HashClosure, Resolve
  <1>1. ASSUME NEW step, Took(p, [closure |-> disk.sources], step),
               \/ step = "resolve" /\ process[p].step = "closure"
               \/ step = "run" /\ process[p].step = "resolve" /\ Resolves(process[p].plan, process[p].contract)
        PROVE  CommitteeInv'
    <2> DEFINE fields == [closure |-> disk.sources]
               s == Taken(process[p], fields, step)
    <2>1. Set(p, s)
      BY <1>1 DEF Took, Taken
    <2>2. /\ DOMAIN s = DOMAIN process[p] \cup {"closure"}
          /\ s.step = step /\ s.closure = disk.sources
          /\ \A f \in DOMAIN process[p] \ {"closure", "step"} : s[f] = process[p][f]
      <3>1. DOMAIN fields = {"closure"} /\ fields.closure = disk.sources
        OBVIOUS
      <3>2. "step" \in DOMAIN process[p]
        BY <1>0 DEF Holds
      <3> HIDE DEF fields
      <3> QED BY <3>1, <3>2 DEF Taken
    <2> HIDE DEF s
    <2>3. Holds(s, disk.sources)
      BY <1>0, <1>1, <2>2 DEF Holds, ReadingSteps
    <2> QED BY <1>0, <2>1, <2>3, OneMoves
  <1>2. CASE HashClosure(p)
    BY <1>1, <1>2 DEF HashClosure, Does
  <1>3. CASE Resolve(p)
    BY <1>0, <1>1, <1>3, OneMoves, AwayHolds DEF Resolve, Does, Quit
  <1> QED BY <1>2, <1>3

\* What a process at its run makes of what it holds.
LEMMA ResultAuthentic ==
    ASSUME CommitteeInv, NEW p \in Processes, process[p].step = "run", Result(p) # Absent
    PROVE  Authentic(Result(p), process[p].steady) /\ Storable(Result(p))
  <1> DEFINE s == process[p]
  <1>1. Holds(s, disk.sources)
    BY DEF CommitteeInv
  <1>2. /\ s.errand \in Errands /\ s.plan \in Plans /\ s.contract \in Agreed
        /\ Resolves(s.plan, s.contract)
        /\ s.steady => s.version = disk.sources /\ s.closure = disk.sources
    BY <1>1 DEF Holds, ReadingSteps
  <1>3. s.errand.kind \in Kinds
    BY <1>2 DEF Errands, Kinds
  <1>4. Result(p) = Made(s.errand.kind, s.version, s.plan, s.contract, s.closure, disk.sources)
    BY DEF Result
  <1>5. Authentic(Result(p), s.steady)
    BY <1>2, <1>3, <1>4 DEF Authentic
  <1> QED BY <1>2, <1>3, <1>4, <1>5, MadeStorable

LEMMA RunInv ==
    ASSUME CommitteeInv, NEW p \in Processes, Publishes(p) \/ Accept(p)
    PROVE  CommitteeInv'
  <1>0. Holds(process[p], disk.sources) /\ process[p].step = "run" /\ UNCHANGED <<disk, stored>>
    BY DEF CommitteeInv, Publishes, Accept, Does
  <1>1. CASE Publishes(p) /\ Result(p) # Absent
    <2> DEFINE s == [step |-> "write", errand |-> process[p].errand, steady |-> process[p].steady, result |-> Result(p)]
    <2>1. Holds(s, disk.sources)
      BY <1>0, <1>1, ResultAuthentic DEF Holds, ReadingSteps
    <2> QED BY <1>0, <1>1, <2>1, OneMoves DEF Publishes
  <1>2. CASE Publishes(p) /\ Result(p) = Absent
    BY <1>0, <1>2, OneMoves, AwayHolds DEF Publishes, Quit
  <1>3. CASE Accept(p) /\ Same(p)
    <2> DEFINE s == [step |-> "done", steady |-> process[p].steady, accepted |-> process[p].artifact]
    <2>1. process[p].artifact = Result(p) /\ process[p].artifact # Absent
      BY <1>0, <1>3 DEF Same, Accept, Holds, ReadingSteps
    <2>2. Holds(s, disk.sources)
      BY <1>0, <2>1, ResultAuthentic DEF Holds, ReadingSteps
    <2> QED BY <1>0, <1>3, <2>2, OneMoves DEF Accept, Finish
  <1>4. CASE Accept(p) /\ ~Same(p)
    BY <1>0, <1>4, OneMoves, AwayHolds DEF Accept, Quit
  <1> QED BY <1>1, <1>2, <1>3, <1>4

LEMMA ReplaceInv ==
    ASSUME CommitteeInv, NEW p \in Processes, Replace(p)
    PROVE  CommitteeInv'
  <1>0. Holds(process[p], disk.sources) /\ process[p].step = "write" /\ UNCHANGED disk
    BY DEF CommitteeInv, Replace, Does
  <1> DEFINE s == Taken(process[p], <<>>, "verify")
  <1>a. Set(p, s)
    BY DEF Replace, Took, Taken
  <1>1. /\ Set(p, s)
        /\ DOMAIN s = DOMAIN process[p] /\ s.step = "verify"
        /\ \A f \in DOMAIN process[p] \ {"step"} : s[f] = process[p][f]
    <2>1. DOMAIN <<>> = {}
      OBVIOUS
    <2>2. "step" \in DOMAIN process[p]
      BY <1>0 DEF Holds
    <2> QED BY <1>a, <2>1, <2>2 DEF Taken
  <1> HIDE DEF s
  <1>2. Holds(s, disk.sources)
    BY <1>0, <1>1 DEF Holds, ReadingSteps
  <1>3. Storable(process[p].result)
    BY <1>0 DEF Holds
  <1>4. DOMAIN stored' = Kinds /\ \A kind \in Kinds : Storable(stored'[kind])
    BY <1>3 DEF Replace, CommitteeInv
  <1> QED BY <1>0, <1>1, <1>2, <1>4 DEF CommitteeInv, Set

LEMMA EndInv ==
    ASSUME CommitteeInv, NEW p \in Processes, Verify(p) \/ Leave(p)
    PROVE  CommitteeInv'
  <1>0. Holds(process[p], disk.sources) /\ UNCHANGED <<disk, stored>>
    BY DEF CommitteeInv, Verify, Leave
  <1>1. ASSUME Verify(p), Finish(p, process[p].result)
        PROVE  CommitteeInv'
    <2> DEFINE s == [step |-> "done", steady |-> process[p].steady, accepted |-> process[p].result]
    <2>2. Holds(s, disk.sources)
      BY <1>0, <1>1 DEF Holds, ReadingSteps, Verify, Does
    <2> QED BY <1>0, <1>1, <2>2, OneMoves DEF Finish
  <1>2. CASE Quit(p)
    BY <1>0, <1>2, OneMoves, AwayHolds DEF Quit
  <1> QED BY <1>1, <1>2 DEF Verify, Leave

LEMMA RewriteInv ==
    ASSUME CommitteeInv, Rewrite
    PROVE  CommitteeInv'
  <1>1. CASE UNCHANGED <<stored, process>> /\ disk'.sources = disk.sources /\ "sources" \in DOMAIN disk'
    BY <1>1 DEF CommitteeInv
  <1>2. CASE /\ process' = [p \in Processes |-> IF Does(p, "away") THEN Away ELSE [process[p] EXCEPT !.steady = FALSE]]
             /\ UNCHANGED stored /\ "sources" \in DOMAIN disk'
    <2>1. ASSUME NEW p \in Processes PROVE Holds(process'[p], disk'.sources)
      <3>1. CASE Does(p, "away")
        BY <1>2, <3>1, AwayHolds
      <3>2. CASE ~Does(p, "away")
        <4> DEFINE s == process[p]
                   t == [process[p] EXCEPT !.steady = FALSE]
        <4>1. Holds(s, disk.sources) /\ s.step # "away"
          BY <3>2 DEF CommitteeInv, Does
        <4>2. "steady" \in DOMAIN s
          BY <4>1 DEF Holds, ReadingSteps
        <4>3. DOMAIN t = DOMAIN s /\ t.steady = FALSE /\ \A f \in DOMAIN s \ {"steady"} : t[f] = s[f]
          BY <4>2
        <4>4. \A a : Authentic(a, s.steady) => Authentic(a, FALSE)
          BY DEF Authentic
        <4>5. Holds(t, disk'.sources)
          BY <4>1, <4>2, <4>3, <4>4 DEF Holds, ReadingSteps
        <4> QED BY <1>2, <3>2, <4>5
      <3> QED BY <3>1, <3>2
    <2> QED BY <1>2, <2>1 DEF CommitteeInv
  <1>3. CASE /\ \E kind \in {k \in Kinds : stored[k] # Absent} :
                   \E other \in Doctored(stored[kind]) : stored' = [stored EXCEPT ![kind] = other]
             /\ UNCHANGED <<disk, process>>
    BY <1>3, DoctoredStorable DEF CommitteeInv
  <1>4. \A plan : "sources" \in DOMAIN [disk EXCEPT !.plan = plan] /\ [disk EXCEPT !.plan = plan].sources = disk.sources
    BY DEF CommitteeInv
  <1>5. \A k : "sources" \in DOMAIN [disk EXCEPT !.contract = k] /\ [disk EXCEPT !.contract = k].sources = disk.sources
    BY DEF CommitteeInv
  <1>6. \A v : "sources" \in DOMAIN [disk EXCEPT !.sources = v]
    BY DEF CommitteeInv
  <1> QED BY <1>1, <1>2, <1>3, <1>4, <1>5, <1>6 DEF Rewrite

LEMMA CommitteeNextInv == CommitteeInv /\ [CommitteeNext]_committeeVars => CommitteeInv'
  <1>1. CASE UNCHANGED committeeVars
    BY <1>1 DEF CommitteeInv, committeeVars
  <1> QED
    BY <1>1, StartInv, TakeArtifactInv, TakePlanInv, TakeContractInv, ClosureInv, RunInv, ReplaceInv, EndInv, RewriteInv
       DEF CommitteeNext


\* Steps of one length never meet.
LEMMA StridesDiffer ==
    ASSUME NEW x \in Int, NEW y \in Int, NEW stride \in Nat \ {0}, x * stride = y * stride
    PROVE  x = y
  OBVIOUS

LEMMA EpochRowsSound ==
    ASSUME NEW plan \in Plans, NEW contract \in Agreed, NEW version,
           \A id \in Cases : plan[id].epoch = contract.policy.start
    PROVE  LET policy == contract.policy
               epochs == policy.start .. policy.start + policy.epochs - 1
               given == EpochRows(version, plan, policy)
           IN  /\ given[policy.start] = RunPlan(version, plan)
               /\ \A d \in epochs, e \in epochs, id \in Cases :
                     /\ given[e][id].case.epoch = e
                     /\ d # e => given[d][id].case.seed # given[e][id].case.seed
  <1> DEFINE policy == contract.policy
             epochs == policy.start .. policy.start + policy.epochs - 1
             given == EpochRows(version, plan, policy)
  <1>1. /\ policy.start \in Int /\ policy.epochs \in Nat /\ policy.epochs >= 3 /\ policy.stride \in Nat \ {0}
    BY PublicationAssumption DEF ValidContract, ValidPolicy
  <1>2. /\ plan = [id \in Cases |-> plan[id]]
        /\ \A id \in Cases : /\ plan[id] = [world |-> plan[id].world, capped |-> plan[id].capped,
                                           epoch |-> plan[id].epoch, seed |-> plan[id].seed]
                             /\ plan[id].epoch \in Int /\ plan[id].seed \in Int
    BY PublicationAssumption DEF ValidPlan
  <1>3. ASSUME NEW e \in epochs, NEW id \in Cases
        PROVE  /\ given[e] = RunPlan(version, Shift(plan, e - policy.start, policy))
               /\ given[e][id].case = Shift(plan, e - policy.start, policy)[id]
               /\ Shift(plan, e - policy.start, policy)[id] =
                     [plan[id] EXCEPT !.epoch = plan[id].epoch + (e - policy.start),
                                      !.seed = plan[id].seed + (e - policy.start) * policy.stride]
    BY DEF EpochRows, RunPlan, RunCase, ScenarioRow, Shift
  <1>4. ASSUME NEW e \in epochs, NEW id \in Cases
        PROVE  /\ given[e][id].case.epoch = plan[id].epoch + (e - policy.start)
               /\ given[e][id].case.seed = plan[id].seed + (e - policy.start) * policy.stride
    <2> DEFINE x == plan[id].epoch + (e - policy.start)
               y == plan[id].seed + (e - policy.start) * policy.stride
    <2>1. given[e][id].case = [plan[id] EXCEPT !.epoch = x, !.seed = y]
      BY <1>3
    <2>2. DOMAIN plan[id] = {"world", "capped", "epoch", "seed"}
      BY <1>2
    <2> HIDE DEF x, y
    <2>3. given[e][id].case.epoch = x /\ given[e][id].case.seed = y
      BY <2>1, <2>2
    <2> QED BY <2>3 DEF x, y
  <1>5. policy.start \in epochs
    BY <1>1
  <1>6. Shift(plan, 0, policy) = plan
    <2>1. \A id \in Cases : Shift(plan, 0, policy)[id] = plan[id]
      <3> SUFFICES ASSUME NEW id \in Cases PROVE Shift(plan, 0, policy)[id] = plan[id]
        OBVIOUS
      <3>1. Shift(plan, 0, policy)[id] = [plan[id] EXCEPT !.epoch = plan[id].epoch + 0, !.seed = plan[id].seed + 0 * policy.stride]
        BY DEF Shift
      <3>2. plan[id].epoch + 0 = plan[id].epoch /\ plan[id].seed + 0 * policy.stride = plan[id].seed
        BY <1>1, <1>2
      <3>3. [plan[id] EXCEPT !.epoch = plan[id].epoch, !.seed = plan[id].seed] = plan[id]
        BY <1>2
      <3> QED BY <3>1, <3>2, <3>3
    <2>2. Shift(plan, 0, policy) = [id \in Cases |-> Shift(plan, 0, policy)[id]]
      BY DEF Shift
    <2> QED BY <1>2, <2>1, <2>2
  <1>7. given[policy.start] = RunPlan(version, plan)
    <2>1. policy.start - policy.start = 0
      BY <1>1
    <2>2. given[policy.start] = RunPlan(version, Shift(plan, policy.start - policy.start, policy))
      BY <1>5 DEF EpochRows
    <2> QED BY <1>6, <2>1, <2>2
  <1>8. ASSUME NEW d \in epochs, NEW e \in epochs, NEW id \in Cases
        PROVE  /\ given[e][id].case.epoch = e
               /\ d # e => given[d][id].case.seed # given[e][id].case.seed
    <2>1. given[e][id].case.epoch = e
      BY <1>1, <1>4
    <2>2. ASSUME given[d][id].case.seed = given[e][id].case.seed PROVE d = e
      <3> DEFINE x == d - policy.start
                 y == e - policy.start
      <3>1. x \in Int /\ y \in Int /\ x * policy.stride \in Int /\ y * policy.stride \in Int
        BY <1>1
      <3>2. plan[id].seed + x * policy.stride = plan[id].seed + y * policy.stride
        BY <1>4, <2>2
      <3>3. x * policy.stride = y * policy.stride
        <4> DEFINE xs == x * policy.stride
                   ys == y * policy.stride
        <4>1. plan[id].seed \in Int
          BY <1>2
        <4>2. xs \in Int /\ ys \in Int /\ plan[id].seed + xs = plan[id].seed + ys
          BY <3>1, <3>2
        <4> HIDE DEF xs, ys
        <4>3. xs = ys
          BY <4>1, <4>2
        <4> QED BY <4>3 DEF xs, ys
      <3>4. x = y
        <4> HIDE DEF x, y
        <4> QED BY <1>1, <3>1, <3>3, StridesDiffer
      <3> QED BY <1>1, <3>4
    <2> QED BY <2>1, <2>2
  <1> QED BY <1>7, <1>8

\* What ReplayAuthoritative says of one artifact.
Sound(artifact, calm) ==
    LET given == RunPlan(artifact.of.closure, artifact.of.plan)
        policy == artifact.of.contract.policy
        epochs == policy.start .. policy.start + policy.epochs - 1
    IN  /\ artifact.of.plan = artifact.of.contract.cases
        /\ artifact.finding = "SUPPORTED" =>
              artifact.is = "base" /\ Supported(artifact.rows, artifact.of.contract)
        /\ calm => CASE artifact.is = "base" -> artifact.rows = given
                       [] artifact.is = "epochs" ->
                             /\ artifact.rows[policy.start] = given
                             /\ artifact.closure = artifact.of.closure
        /\ artifact.is = "epochs" =>
              \A d \in epochs, e \in epochs, id \in Cases :
                  /\ artifact.rows[e][id].case.epoch = e
                  /\ d # e => artifact.rows[d][id].case.seed # artifact.rows[e][id].case.seed

LEMMA AuthenticSound ==
    ASSUME NEW artifact, NEW calm, Authentic(artifact, calm)
    PROVE  Sound(artifact, calm)
  <1>1. PICK kind \in Kinds, plan \in Plans, contract \in Agreed : \E version, closure, now :
            /\ artifact = Made(kind, version, plan, contract, closure, now)
            /\ artifact # Absent
            /\ Resolves(plan, contract)
            /\ calm => version = closure /\ now = closure
    BY DEF Authentic
  <1>2. PICK version, closure, now :
            /\ artifact = Made(kind, version, plan, contract, closure, now)
            /\ artifact # Absent
            /\ Resolves(plan, contract)
            /\ calm => version = closure /\ now = closure
    BY <1>1
  <1> DEFINE given == RunPlan(version, plan)
             base == [plan |-> plan, contract |-> contract, closure |-> closure]
  <1>3. plan = contract.cases
    BY <1>2 DEF Resolves
  <1>4. CASE artifact = [is |-> "base", of |-> base, rows |-> given, finding |-> Finding(given, contract)]
    <2>1. artifact.is = "base" /\ artifact.of = base /\ artifact.rows = given /\ artifact.finding = Finding(given, contract)
      BY <1>4
    <2>2. artifact.of.plan = plan /\ artifact.of.contract = contract /\ artifact.of.closure = closure
      BY <2>1
    <2>3. artifact.finding = "SUPPORTED" => Supported(given, contract)
      BY <2>1 DEF Finding
    <2> QED BY <1>2, <1>3, <2>1, <2>2, <2>3 DEF Sound
  <1>5. CASE /\ Reissuable(Finding(given, contract), plan, contract.policy)
             /\ artifact = [is |-> "epochs", of |-> base, rows |-> EpochRows(version, plan, contract.policy),
                            finding |-> "INCONCLUSIVE", closure |-> now]
    <2>1. /\ artifact.is = "epochs" /\ artifact.of = base /\ artifact.finding = "INCONCLUSIVE"
          /\ artifact.rows = EpochRows(version, plan, contract.policy) /\ artifact.closure = now
      BY <1>5
    <2>2. artifact.of.plan = plan /\ artifact.of.contract = contract /\ artifact.of.closure = closure
      BY <2>1
    <2>3. \A id \in Cases : plan[id].epoch = contract.policy.start
      BY <1>5 DEF Reissuable
    <2>4. LET policy == contract.policy
               epochs == policy.start .. policy.start + policy.epochs - 1
           IN  /\ artifact.rows[policy.start] = RunPlan(version, plan)
               /\ \A d \in epochs, e \in epochs, id \in Cases :
                     /\ artifact.rows[e][id].case.epoch = e
                     /\ d # e => artifact.rows[d][id].case.seed # artifact.rows[e][id].case.seed
      BY <2>1, <2>3, EpochRowsSound
    <2>5. calm => artifact.rows[artifact.of.contract.policy.start] = RunPlan(artifact.of.closure, artifact.of.plan)
      BY <1>2, <2>2, <2>4
    <2>6. calm => artifact.closure = artifact.of.closure
      BY <1>2, <2>1, <2>2
    <2>7. artifact.of.plan = artifact.of.contract.cases
      BY <1>3, <2>2
    <2>8. artifact.is # "base" /\ artifact.finding # "SUPPORTED"
      BY <2>1
    <2>9. LET policy == artifact.of.contract.policy
              epochs == policy.start .. policy.start + policy.epochs - 1
          IN  \A d \in epochs, e \in epochs, id \in Cases :
                  /\ artifact.rows[e][id].case.epoch = e
                  /\ d # e => artifact.rows[d][id].case.seed # artifact.rows[e][id].case.seed
      BY <2>2, <2>4
    <2> QED BY <2>1, <2>5, <2>6, <2>7, <2>8, <2>9 DEF Sound
  <1>6. \/ artifact = [is |-> "base", of |-> base, rows |-> given, finding |-> Finding(given, contract)]
        \/ /\ Reissuable(Finding(given, contract), plan, contract.policy)
           /\ artifact = [is |-> "epochs", of |-> base, rows |-> EpochRows(version, plan, contract.policy),
                            finding |-> "INCONCLUSIVE", closure |-> now]
    BY <1>2 DEF Made, Kinds
  <1> QED BY <1>4, <1>5, <1>6

THEOREM ReplaysAreAuthoritative == CommitteeSpec => []ReplayAuthoritative
  <1>1. CommitteeInv => ReplayAuthoritative
    <2>1. ASSUME CommitteeInv, NEW p \in Processes, Does(p, "done")
          PROVE  Sound(process[p].accepted, process[p].steady)
      <3>1. Authentic(process[p].accepted, process[p].steady)
        BY <2>1 DEF CommitteeInv, Holds, Does
      <3> QED BY <3>1, AuthenticSound
    <2> QED BY <2>1 DEF ReplayAuthoritative, Sound
  <1> QED BY <1>1, CommitteeInitInv, CommitteeNextInv, PTL DEF CommitteeSpec
=============================================================================
