--------------------------- MODULE PublicationReport ---------------------------
(***************************************************************************)
(* build_publication_report and validate_existing_manifest of              *)
(* src/poi_mpp/reporting: builds read the configured experiments' files,   *)
(* most of them parsed in one reading and hashed in the next, write tables *)
(* and a manifest over an output root that is never cleaned, may be killed *)
(* at any step, and may share the root.  A file's content is a number, and *)
(* a hash is the content it is taken of.                                   *)
(***************************************************************************)
EXTENDS Integers, Sequences, SequencesExt

CONSTANTS
    Builders,
    Configured,     \* a build's experiments, each in the order of its name
    Builds,         \* bound: builds begun
    Corrections     \* bound: edits of the inputs

\* A file parsed in one reading and hashed in the next.
Twice(file) == <<<<"parse", file>>, <<"hash", file>>>>

\* The readings and writings of each experiment's loader.  A summary is of its rows,
\* and E3's receipt of its artifacts, when the numbers are the same; rows support the
\* contract of their number.
E1Steps == Twice("E1_rows")
E2Steps == Twice("E2_rows") \o Twice("E2_summary") \o <<<<"check", "E2">>>>
E3Steps == Twice("E3_receipt") \o <<<<"both", "E3_artifacts">>, <<"check", "E3">>, <<"tear", "E3">>, <<"generate", "E3">>>>
E4Steps == Twice("E4_rows") \o Twice("E4_summary") \o Twice("E4_metadata") \o <<<<"check", "E4">>>>
E5Steps == <<<<"parse", "E5_rows">>, <<"hash", "E5_rows">>, <<"parse", "E5_contract">>, <<"hash", "E5_contract">>>>
E6Steps == <<<<"parse", "E6_rows">>, <<"hash", "E6_rows">>, <<"parse", "E6_contract">>, <<"hash", "E6_contract">>>>
E7Steps == <<<<"parse", "E7_config">>, <<"measure", "E7">>, <<"generate", "E7">>, <<"hash", "E7_config">>>>
E8Steps == Twice("E8_rows") \o Twice("E8_contract") \o <<<<"parse", "E8_contract">>>>

LoadSteps ==
    [E1 |-> E1Steps, E2 |-> E2Steps, E3 |-> E3Steps, E4 |-> E4Steps, E5 |-> E5Steps, E6 |-> E6Steps,
     E7 |-> E7Steps, E8 |-> E8Steps]

FilesOf(e) == {LoadSteps[e][i][2] : i \in {j \in DOMAIN LoadSteps[e] : LoadSteps[e][j][1] \in {"parse", "hash", "both"}}}

Inputs == UNION {FilesOf(e) : e \in DOMAIN LoadSteps} \cup {"generator"}

\* What must agree, or the loader raises, and what a claim is judged by.
Alike == [E2 |-> {"E2_rows", "E2_summary"}, E3 |-> {"E3_receipt", "E3_artifacts"},
          E4 |-> {"E4_rows", "E4_summary"}]
Judged == [E5 |-> {"E5_rows", "E5_contract"}, E6 |-> {"E6_rows", "E6_contract"}, E8 |-> {"E8_rows", "E8_contract"}]

ValidSources(config) == config \in Seq(DOMAIN LoadSteps)

ASSUME ReportAssumption ==
    /\ \A c \in Configured : ValidSources(c)
    /\ {Builds, Corrections} \subseteq Nat

VARIABLES
    input,          \* what the inputs say now; "generator" is the reporting code
    corrected,      \* edits so far
    begun,          \* builds so far
    build,          \* per builder: its configuration, the steps it has done, what it holds
    root            \* the output root: files by name, the manifest and left-over temporary files

reportVars == <<input, corrected, begun, build, root>>

Missing == [is |-> "missing"]
Torn == [is |-> "torn"]
Generated == {"E3_generated", "E7_generated"}
TableOf == [E1 |-> "T6", E2 |-> "T7", E4 |-> "T9", E5 |-> "T10", E6 |-> "T11", E7 |-> "T12", E8 |-> "T13"]
GeneratedOf == [E3 |-> "E3_generated", E7 |-> "E7_generated"]
Tables == {TableOf[e] : e \in DOMAIN TableOf} \cup {"claims"}
Resting == [at |-> "rest"]

ReportInit ==
    /\ input = [f \in Inputs |-> 1]
    /\ corrected = 0 /\ begun = 0
    /\ build = [b \in Builders |-> Resting]
    /\ root = [files |-> [n \in Tables \cup Generated |-> Missing], manifest |-> Missing, litter |-> FALSE]

-----------------------------------------------------------------------------
(* The steps of a build, in the order of the code *)

WritesOf(config) ==
    FlattenSeq([i \in DOMAIN config |->
              IF config[i] \in DOMAIN TableOf THEN <<<<"write", TableOf[config[i]]>>>> ELSE <<>>])
        \o <<<<"write", "claims">>>>

RehashesOf(config) ==
    FlattenSeq([i \in DOMAIN config |->
              IF config[i] \in DOMAIN GeneratedOf THEN <<<<"rehash", GeneratedOf[config[i]]>>>> ELSE <<>>])

\* load_publication_inputs, then build_publication_report
StepsOf(config) ==
    <<<<"parse", "generator">>>> \o FlattenSeq([i \in DOMAIN config |-> LoadSteps[config[i]]])
        \o <<<<"hash", "generator">>>> \o WritesOf(config) \o RehashesOf(config) \o <<<<"manifest", "manifest">>>>

Working(b) == build[b].at = "work"
Step(b) == StepsOf(build[b].config)[build[b].done + 1]
Doing(b, what) == Working(b) /\ Step(b)[1] = what
File(b) == Step(b)[2]
Holding(b, field, value) == build' = [build EXCEPT ![b].done = @ + 1, ![b][field] = value]
Stop(b) == build' = [build EXCEPT ![b] = Resting]

Begin(b, config) ==
    /\ build[b].at = "rest"
    /\ begun < Builds
    /\ begun' = begun + 1
    /\ build' = [a \in Builders |->
           IF a = b
           THEN [at |-> "work", config |-> config, done |-> 0, parsed |-> <<>>, hashed |-> <<>>, wrote |-> <<>>,
                 measured |-> 0, steady |-> \A other \in Builders : ~Working(other)]
           ELSE IF Working(a) THEN [build[a] EXCEPT !.steady = FALSE] ELSE build[a]]
    /\ UNCHANGED <<input, corrected, root>>

With(f, k, v) == [x \in DOMAIN f \cup {k} |-> IF x = k THEN v ELSE f[x]]

Parse(b) ==
    /\ Doing(b, "parse")
    /\ Holding(b, "parsed", With(build[b].parsed, File(b), input[File(b)]))
    /\ UNCHANGED <<input, corrected, begun, root>>

HashInput(b) ==
    /\ Doing(b, "hash")
    /\ Holding(b, "hashed", With(build[b].hashed, File(b), input[File(b)]))
    /\ UNCHANGED <<input, corrected, begun, root>>

\* E3's artifacts are hashed from the bytes that are used.
ParseHashed(b) ==
    /\ Doing(b, "both")
    /\ build' = [build EXCEPT ![b].done = @ + 1,
                              ![b].parsed = With(@, File(b), input[File(b)]),
                              ![b].hashed = With(@, File(b), input[File(b)])]
    /\ UNCHANGED <<input, corrected, begun, root>>

Agree(contents, files) == \A f \in files, g \in files : contents[f] = contents[g]

\* Otherwise PublicationEligibilityError.
CheckLoaded(b) ==
    /\ Doing(b, "check")
    /\ IF Agree(build[b].parsed, Alike[File(b)]) THEN build' = [build EXCEPT ![b].done = @ + 1] ELSE Stop(b)
    /\ UNCHANGED <<input, corrected, begun, root>>

\* collect_and_summarize_e7_publication measures anew each time.
MeasureGas(b) ==
    /\ Doing(b, "measure")
    /\ \E gas \in {1, 2} : Holding(b, "measured", gas)
    /\ UNCHANGED <<input, corrected, begun, root>>

\* What a file of the report says.
Content(b, name) ==
    LET parsed == build[b].parsed
        Loaded(e) == [f \in FilesOf(e) |-> parsed[f]]
        claimed == {e \in DOMAIN Judged : Contains(build[b].config, e) /\ Agree(parsed, Judged[e])}
    IN  CASE name = "E3_generated" -> [of |-> Loaded("E3")]
          [] name = "E7_generated" -> [gas |-> build[b].measured]
          [] name = "claims" -> [claimed |-> claimed, code |-> parsed["generator"]]
          [] name = "T12" -> [gas |-> build[b].measured, of |-> Loaded("E7"), code |-> parsed["generator"]]
          [] OTHER -> [of |-> Loaded(CHOOSE e \in DOMAIN TableOf : TableOf[e] = name), code |-> parsed["generator"]]

\* _write_generated_output truncates the file before it writes E3's bytes.
Tear(b) ==
    /\ Doing(b, "tear")
    /\ root' = [root EXCEPT !.files[GeneratedOf[File(b)]] = Torn]
    /\ build' = [build EXCEPT ![b].done = @ + 1]
    /\ UNCHANGED <<input, corrected, begun>>

Generate(b) ==
    /\ Doing(b, "generate")
    /\ root' = [root EXCEPT !.files[GeneratedOf[File(b)]] = Content(b, GeneratedOf[File(b)])]
    /\ build' = [build EXCEPT ![b].done = @ + 1]
    /\ UNCHANGED <<input, corrected, begun>>

WriteTable(b) ==
    /\ Doing(b, "write")
    /\ root' = [root EXCEPT !.files[File(b)] = Content(b, File(b))]
    /\ Holding(b, "wrote", With(build[b].wrote, File(b), Content(b, File(b))))
    /\ UNCHANGED <<input, corrected, begun>>

\* _generated_output_hashes: from the disk, not from what was written.
Rehash(b) ==
    /\ Doing(b, "rehash")
    /\ Holding(b, "wrote", With(build[b].wrote, File(b), root.files[File(b)]))
    /\ UNCHANGED <<input, corrected, begun, root>>

WriteManifest(b) ==
    /\ Doing(b, "manifest")
    /\ root' = [root EXCEPT !.manifest = [inputs |-> build[b].hashed,
                                          outputs |-> build[b].wrote, steady |-> build[b].steady]]
    /\ Stop(b)
    /\ UNCHANGED <<input, corrected, begun>>

\* Killed between the making and the moving of a temporary file, which stays.
DieWriting(b) ==
    /\ Doing(b, "write") \/ Doing(b, "manifest")
    /\ root' = [root EXCEPT !.litter = TRUE]
    /\ Stop(b)
    /\ UNCHANGED <<input, corrected, begun>>

\* Killed, or an atomic write found another build's file when it read its own again.
DieBuilding(b) ==
    /\ Working(b)
    /\ Stop(b)
    /\ UNCHANGED <<input, corrected, begun, root>>

\* bound: Corrections
Correct ==
    /\ corrected < Corrections
    /\ corrected' = corrected + 1
    /\ \E f \in Inputs : input' = [input EXCEPT ![f] = 3 - @]
    /\ build' = [b \in Builders |-> IF Working(b) THEN [build[b] EXCEPT !.steady = FALSE] ELSE build[b]]
    /\ UNCHANGED <<begun, root>>

ReportNext ==
    \/ \E b \in Builders :
          \/ Parse(b) \/ HashInput(b) \/ ParseHashed(b) \/ CheckLoaded(b) \/ MeasureGas(b) \/ Tear(b) \/ Generate(b)
          \/ WriteTable(b) \/ Rehash(b) \/ WriteManifest(b) \/ DieWriting(b) \/ DieBuilding(b)
          \/ \E config \in Configured : Begin(b, config)
    \/ Correct

-----------------------------------------------------------------------------
(* Validation *)

\* Faulty variant: files the manifest does not name are left alone.
ClosedInside ==
    \A n \in DOMAIN root.manifest.outputs : root.files[n] # Missing

\* _enumerate_output_files: the output root holds what the manifest names, only.
ClosedOutputs ==
    /\ ~root.litter
    /\ {n \in DOMAIN root.files : root.files[n] # Missing} = DOMAIN root.manifest.outputs

\* validate_existing_manifest, while nothing is being written
Validates ==
    /\ root.manifest # Missing
    /\ \A f \in DOMAIN root.manifest.inputs : input[f] = root.manifest.inputs[f]
    /\ ClosedOutputs
    /\ \A n \in DOMAIN root.manifest.outputs : root.files[n] = root.manifest.outputs[n]

-----------------------------------------------------------------------------
(* Property *)

\* A report that validates is whole and of one build, although builds were killed,
\* failed or overlapped in it before: each of its files is what the code and the inputs
\* that are on disk now make of it, a claim it supports is supported by them, and the
\* gas table is of the raw measurements beside it.  It is not so when an input was
\* edited, or another build was at work, while this one was.
ReportFaithful ==
    Validates /\ root.manifest.steady =>
        /\ \A n \in DOMAIN root.files : root.files[n] # Torn
        /\ \A n \in Tables : root.files[n] # Missing => root.files[n].code = input["generator"]
        /\ \A e \in DOMAIN TableOf :
              root.files[TableOf[e]] # Missing =>
                 /\ \A f \in FilesOf(e) : root.files[TableOf[e]].of[f] = input[f]
                 /\ e \in DOMAIN Alike => Agree(input, Alike[e])
        /\ root.files["E3_generated"] # Missing =>
              root.files["E3_generated"].of["E3_artifacts"] = input["E3_artifacts"] /\ Agree(input, Alike["E3"])
        /\ \A e \in root.files["claims"].claimed : root.files[TableOf[e]] # Missing /\ Agree(input, Judged[e])
        /\ (root.files["T12"] = Missing) = (root.files["E7_generated"] = Missing)
        /\ root.files["T12"] # Missing => root.files["T12"].gas = root.files["E7_generated"].gas
=============================================================================
