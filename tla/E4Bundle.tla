------------------------------- MODULE E4Bundle -------------------------------
(***************************************************************************)
(* src/poi_mpp/experiments/e4_execution.py: the bundle of an executable E4 *)
(* run is built in a directory of its own beside the target and put in     *)
(* place by one rename; a replay later validates it and builds it again    *)
(* from its own configuration.  Two executors may share a target, either   *)
(* may be killed, and the files of a bundle may be edited.                 *)
(*                                                                         *)
(* What the seven scenarios of a build do is module Availability; here a   *)
(* build succeeds or raises.                                               *)
(***************************************************************************)
EXTENDS Naturals

CONSTANTS
    Configs,     \* configurations
    Edits        \* bound: edits of a bundle's files

Executors == {"run", "peer"}

\* A bundle: its config_snapshot, the files made from it, and the manifest that
\* lists both.  "edited" stands for any other content.
Contents == Configs \cup {"edited"}
Produced(config) == [snapshot |-> config, files |-> config, manifest |-> <<config, config>>]
NoDirectory == [entry |-> "none"]
Empty == [entry |-> "empty directory"]
Vacant == {NoDirectory, Empty}

ASSUME BundleAssumption == "edited" \notin Configs /\ Edits \in Nat

VARIABLES
    target,      \* the output root: absent, empty or a bundle
    executor,    \* per executor: where it is, its configuration, did the root exist
    stages,      \* executors whose stage directory is on disk
    replay,      \* a replay: where it is, and what it validated
    edits

bundleVars == <<target, executor, stages, replay, edits>>

BundleInit ==
    /\ target \in Vacant
    /\ executor \in [Executors -> [at : {"idle"}, config : Configs, existed : {FALSE}]]
    /\ stages = {}
    /\ replay = [at |-> "idle", seen |-> NoDirectory]
    /\ edits = 0

Goes(e, at) == executor' = [executor EXCEPT ![e].at = at]

\* _safe_output_root, then mkdtemp: the root is absent or empty.
CheckRoot(e) ==
    /\ executor[e].at = "idle"
    /\ IF target \in Vacant
       THEN /\ executor' = [executor EXCEPT ![e].at = "building", ![e].existed = target = Empty]
            /\ stages' = stages \cup {e}
       ELSE Goes(e, "failed") /\ UNCHANGED stages
    /\ UNCHANGED <<target, replay, edits>>

Abandoned(e) == Goes(e, "failed") /\ stages' = stages \ {e}

\* _build_outputs writes every file under the stage; a scenario with another
\* outcome than expected raises.
Build(e) ==
    /\ executor[e].at = "building"
    /\ \/ Goes(e, "built") /\ UNCHANGED stages
       \/ Abandoned(e)
    /\ UNCHANGED <<target, replay, edits>>

\* Faulty variant: shutil.rmtree in place of rmdir.
RemovableTree == target # NoDirectory

\* rmdir succeeds on an empty directory only.
Removable == target = Empty

RemoveRoot(e) ==
    /\ executor[e].at = "built" /\ executor[e].existed
    /\ IF Removable THEN target' = NoDirectory /\ Goes(e, "removed") /\ UNCHANGED stages
       ELSE Abandoned(e) /\ UNCHANGED target
    /\ UNCHANGED <<replay, edits>>

\* rename succeeds onto nothing or onto an empty directory.
Promote(e) ==
    /\ \/ executor[e].at = "removed"
       \/ executor[e].at = "built" /\ ~executor[e].existed
    /\ IF target \in Vacant
       THEN /\ target' = Produced(executor[e].config)
            /\ Goes(e, "done") /\ stages' = stages \ {e}
       ELSE Abandoned(e) /\ UNCHANGED target
    /\ UNCHANGED <<replay, edits>>

Kill(e) ==
    /\ executor[e].at \in {"building", "built", "removed"}
    /\ Goes(e, "killed")
    /\ UNCHANGED <<target, stages, replay, edits>>

-----------------------------------------------------------------------------
\* Somebody edits the bundle's files, with or without a manifest to match.
Edit ==
    /\ target \notin Vacant /\ edits < Edits
    /\ \E c \in Contents :
          \/ target' = [target EXCEPT !.snapshot = c]
          \/ target' = [target EXCEPT !.files = c]
          \/ target' = [target EXCEPT !.manifest = <<target.snapshot, target.files>>]
    /\ edits' = edits + 1
    /\ UNCHANGED <<executor, stages, replay>>

\* _validate_manifest: the manifest lists every file, each with its hash.
ValidManifest(b) == b.manifest = <<b.snapshot, b.files>>

Validate ==
    /\ replay.at = "idle"
    /\ replay' = IF target \notin Vacant /\ ValidManifest(target)
                 THEN [at |-> "validated", seen |-> target] ELSE [replay EXCEPT !.at = "refused"]
    /\ UNCHANGED <<target, executor, stages, edits>>

\* Faulty variant: only the configuration is compared.
ReproducedConfig(b, seen) ==
    b \notin Vacant /\ b.snapshot \in Configs /\ seen.manifest[1] = b.snapshot

\* The snapshot is read again from disk, executed, and the artifact hash of the
\* result compared with the one in the manifest read before.
Reproduced(b, seen) ==
    b \notin Vacant /\ b.snapshot \in Configs
        /\ Produced(b.snapshot).manifest = seen.manifest

Reproduce ==
    /\ replay.at = "validated"
    /\ replay' = [replay EXCEPT !.at = IF Reproduced(target, replay.seen) THEN "receipt" ELSE "refused"]
    /\ UNCHANGED <<target, executor, stages, edits>>

BundleNext ==
    \/ \E e \in Executors : CheckRoot(e) \/ Build(e) \/ RemoveRoot(e) \/ Promote(e) \/ Kill(e)
    \/ Edit \/ Validate \/ Reproduce

BundleSpec == BundleInit /\ [][BundleNext]_bundleVars

-----------------------------------------------------------------------------
(* Properties *)

\* A bundle that was put in place is never replaced or taken away by an executor.
BundleStays ==
    [][(target \notin Vacant /\ edits' = edits) => target' = target]_bundleVars

\* A replay receipt is given only for files that the configuration among them
\* produces, whatever was edited before, between or after its reads.
ReceiptIsReproducible ==
    replay.at = "receipt" => \E c \in Configs : replay.seen = Produced(c)
=============================================================================
