--------------------------- MODULE FreezePromotion ---------------------------
(***************************************************************************)
(* scripts/reproduce.py and scripts/verify_bundle.py: a run of reproduce   *)
(* stages a candidate bundle and puts it under results/tmp/candidates; a   *)
(* reviewer signs it and its owner completes it; a promotion verifies it,  *)
(* copies it into a stage under the frozen root, marks the copy frozen,    *)
(* verifies it again, renames it into place, verifies it there and writes  *)
(* the completion sentinel.                                                *)
(*                                                                         *)
(* A bundle's files are grouped by what a verification relates:            *)
(*   pub       the publication directory and the inputs its manifest hashes*)
(*   claims    claim_support_matrix.json                                   *)
(*   handoff   the review handoff; the publication manifest it copies      *)
(*   review    manual_review.json, none while its status is MISSING        *)
(*   manifest  manifest.json                                               *)
(*   report    verification_report.json                                    *)
(*   sentinel  the hashes of manifest and report, none before the end      *)
(*   stray     files nobody lists                                          *)
(* Optional contents are sets of at most one element.                      *)
(***************************************************************************)
EXTENDS Naturals, FiniteSets

CONSTANTS
    Revisions,   \* revisions of the repository; a run id is a revision's fingerprint
    Data,        \* measured results; their claims go by the same names
    Partial,     \* results that lack a required artifact
    Signatures,  \* bound: reviews signed
    Edits,       \* bound: edits of a candidate outside the scripts
    Reruns       \* bound: runs of reproduce

ASSUME FreezeAssumption ==
    /\ IsFiniteSet(Revisions) /\ IsFiniteSet(Data)
    /\ "edited" \notin Data /\ Partial \subseteq Data /\ Signatures \in Nat /\ Edits \in Nat /\ Reruns \in Nat

Parts == {"pub", "claims", "handoff", "review", "manifest", "report", "sentinel", "stray"}
Bases == {"independent", "not independent"}

VARIABLES
    repo,        \* the revision checked out
    results,     \* the results in the repository's tree
    candidates,  \* run id -> the candidate bundle, if any
    frozen,      \* run id -> the frozen bundle, if any
    maker,       \* a run of reproduce: where it is, its run id and its stage
    promoter,    \* a promotion: where it is, its run id, what it loaded, its stage
    signed,      \* manual reviews the reviewer signed
    edits, reruns

freezeVars == <<repo, results, candidates, frozen, maker, promoter, signed, edits, reruns>>

The(s) == CHOOSE x \in s : TRUE

\* An authenticated, complete summary is what a candidate must carry and what a
\* verification returns; sentinel is the presence it is to record.
Summary(run, complete, reviewed, sentinel, state, claims) ==
    [run |-> run, complete |-> complete, reviewed |-> reviewed,
     sentinel |-> sentinel, state |-> state, claims |-> claims]

NoStage == [p \in Parts |-> {}]

FreezeInit ==
    /\ repo \in Revisions /\ results \in Data
    /\ candidates = [r \in Revisions |-> {}]
    /\ frozen = [r \in Revisions |-> {}]
    /\ maker = [at |-> "idle", run |-> repo, stage |-> NoStage]
    /\ promoter = [at |-> "idle", run |-> repo, read |-> {}, stage |-> NoStage]
    /\ signed = {}
    /\ edits = 0 /\ reruns = 0

-----------------------------------------------------------------------------
(* verify_bundle.  "read" is what _load_bundle parsed, "now" what the later  *)
(* reads of the same verification see; both are bundles.                     *)

\* validate_existing_manifest: every hash of the manifest holds of a directory
\* built by one run, and the generator's sources are still the current ones.
PublicationValid(b) == \E data \in Data : b.pub = {[rev |-> repo, data |-> data]}

\* The files present are those the manifests list; the sentinel is one of them
\* for a frozen bundle in normal mode only.  The handoff copies the manifest.
Closed(read, now, mode) ==
    /\ now.stray = {}
    /\ now.sentinel # {} <=> (The(read.manifest).state = "frozen" /\ mode = "normal")
    /\ now.handoff = now.pub

\* Experiments and claims list the same artifacts, and none is missing.
ExperimentsAgree(read) ==
    The(read.manifest).present = The(read.claims).present /\ The(read.claims).present

SentinelFlag(now, read, mode) ==
    now.sentinel # {} \/ (mode = "pre sentinel" /\ The(read.manifest).state = "frozen")

\* What is recorded of the sentinel, and what it hashes, fits the state.
SentinelFits(read, now, mode) ==
    LET state == The(read.manifest).state IN
    /\ The(read.manifest).sentinel = (state = "frozen")
    /\ The(read.report).sentinel = (state = "frozen")
    /\ now.sentinel # {} <=> (state = "frozen" /\ mode = "normal")
    /\ now.sentinel \subseteq {[manifest |-> now.manifest, report |-> now.report]}

Structured(read, now, mode) ==
    /\ Closed(read, now, mode)
    /\ ~The(read.manifest).blocked
    /\ ExperimentsAgree(read)
    /\ The(read.manifest).reviewed = (read.review # {})
    /\ The(read.report).state = The(read.manifest).state
    /\ SentinelFits(read, now, mode)

\* Faulty variant: the claim matrix is not among the reviewed hashes.
ReviewedWithoutClaims(read, now) ==
    \E r \in read.review :
        /\ r.basis = "independent"
        /\ r.run = The(read.manifest).run
        /\ r.pub = now.pub /\ r.handoff = now.handoff
        /\ now.review \subseteq signed /\ now.review # {}

\* The record is judged as parsed, the three hashes and the signature as read now.
Reviewed(read, now) ==
    \E r \in read.review :
        /\ r.basis = "independent"
        /\ r.run = The(read.manifest).run
        /\ r.claims = now.claims /\ r.pub = now.pub /\ r.handoff = now.handoff
        /\ now.review \subseteq signed /\ now.review # {}

\* A fresh measurement of the contracts of this revision equals the stored one.
RevalidateE7(now) == \A p \in now.pub : p.rev = repo

\* The E8 rows and contract are the publication's inputs, the contract is the
\* repository's, and the last claim is the replay's.
RevalidateE8(read, now) == \A p \in now.pub : p.rev = repo /\ The(read.claims).last = p.data

Verified(read, now, mode) ==
    /\ PublicationValid(read)
    /\ Structured(read, now, mode) /\ Reviewed(read, now)
    /\ RevalidateE7(now) /\ RevalidateE8(read, now)
    /\ The(read.manifest).complete

SummaryOf(read, now, mode) ==
    Summary(The(read.manifest).run, Verified(read, now, mode), Reviewed(read, now),
            SentinelFlag(now, read, mode), The(read.manifest).state, read.claims)

\* A verification passes: complete, and the stored report says the same.
Passes(read, now, mode) ==
    Verified(read, now, mode) /\ read.report = {SummaryOf(read, now, mode)}
-----------------------------------------------------------------------------
(* reproduce *)

\* _run_context: the run id is fixed by the revision the run starts at.
StartRun ==
    /\ maker.at = "idle" /\ reruns < Reruns
    /\ maker' = [at |-> "staging", run |-> repo, stage |-> NoStage]
    /\ reruns' = reruns + 1
    /\ UNCHANGED <<repo, results, candidates, frozen, promoter, signed, edits>>

MakerStage(part, content, next) ==
    maker' = [maker EXCEPT !.at = next, !.stage = [@ EXCEPT ![part] = content]]

\* _report_spec copies the sources, report_all builds and validates from them
\* with the sources checked out by now.  A build that fails leaves nothing for
\* the handoff to copy, and the run ends there.
BuildPublicationReport ==
    /\ maker.at = "staging"
    /\ \/ MakerStage("pub", {[rev |-> repo, data |-> results]}, "published")
       \/ maker' = [maker EXCEPT !.at = "idle"]
    /\ UNCHANGED <<repo, results, candidates, frozen, promoter, signed, edits, reruns>>

StageHandoff ==
    /\ maker.at = "published"
    /\ MakerStage("handoff", maker.stage.pub, "handed off")
    /\ UNCHANGED <<repo, results, candidates, frozen, promoter, signed, edits, reruns>>

\* _experiment_states, _claim_rows: read off the validated publication.
ClaimRows(pub) == [last |-> pub.data, rest |-> pub.data, present |-> pub.data \notin Partial]

\* _candidate_manifest: a candidate is born incomplete, blocked at least by the
\* missing review.
CandidateManifest(run, pub) ==
    [run |-> run, state |-> "candidate", complete |-> FALSE, blocked |-> TRUE,
     reviewed |-> FALSE, sentinel |-> FALSE, present |-> pub.data \notin Partial]

\* Everything else is written, and the verification's summary becomes the report.
\* The verification raises when the publication is no longer valid.
WriteCandidate ==
    /\ maker.at = "handed off"
    /\ LET pub == The(maker.stage.pub)
           bundle == [maker.stage EXCEPT
                         !.claims = {ClaimRows(pub)},
                         !.manifest = {CandidateManifest(maker.run, pub)},
                         !.report = {Summary(maker.run, FALSE, FALSE, FALSE, "candidate", {})}]
       IN  maker' = IF PublicationValid(bundle)
                    THEN [maker EXCEPT !.at = "written",
                             !.stage = [bundle EXCEPT !.report = {SummaryOf(bundle, bundle, "normal")}]]
                    ELSE [maker EXCEPT !.at = "idle"]
    /\ UNCHANGED <<repo, results, candidates, frozen, promoter, signed, edits, reruns>>

\* _atomic_replace_directory removes what stands there, then renames.
ClearCandidate ==
    /\ maker.at = "written"
    /\ candidates' = [candidates EXCEPT ![maker.run] = {}]
    /\ maker' = [maker EXCEPT !.at = "cleared"]
    /\ UNCHANGED <<repo, results, frozen, promoter, signed, edits, reruns>>

PlaceCandidate ==
    /\ maker.at = "cleared"
    /\ candidates' = [candidates EXCEPT ![maker.run] = {maker.stage}]
    /\ maker' = [maker EXCEPT !.at = "idle"]
    /\ UNCHANGED <<repo, results, frozen, promoter, signed, edits, reruns>>

-----------------------------------------------------------------------------
(* The reviewer, the owner, the repository *)

\* The reviewer signs a record of what a candidate holds.
Sign(run) ==
    /\ Cardinality(signed) < Signatures
    /\ \E b \in candidates[run], basis \in Bases :
          signed' = signed \cup {[run |-> run, basis |-> basis, claims |-> b.claims,
                                   pub |-> b.pub, handoff |-> b.handoff]}
    /\ UNCHANGED <<repo, results, candidates, frozen, maker, promoter, edits, reruns>>

Put(run, bundle) == candidates' = [candidates EXCEPT ![run] = {bundle}]

\* The owner puts a signed review into a candidate, closes its blockers and
\* stores the summary a verification then returns.
Complete(run) ==
    /\ edits < Edits /\ edits' = edits + 1
    /\ \E b \in candidates[run], r \in signed :
          LET done == [b EXCEPT !.review = {r},
                          !.manifest = {[The(b.manifest) EXCEPT
                              !.complete = TRUE, !.blocked = FALSE, !.reviewed = TRUE]}]
          IN  Put(run, [done EXCEPT !.report = {SummaryOf(done, done, "normal")}])
    /\ UNCHANGED <<repo, results, frozen, maker, promoter, signed, reruns>>

\* A slip: a claim reworded, a review's text replaced, a file left behind.
EditCandidate(run) ==
    /\ edits < Edits /\ edits' = edits + 1
    /\ \E b \in candidates[run] :
          \/ Put(run, [b EXCEPT !.claims = {[The(b.claims) EXCEPT !.rest = "edited"]}])
          \/ \E r \in b.review : Put(run, [b EXCEPT !.review = {[r EXCEPT !.claims = b.claims,
                                                         !.pub = b.pub, !.handoff = b.handoff]}])
          \/ Put(run, [b EXCEPT !.handoff = b.pub])
          \/ Put(run, [b EXCEPT !.stray = {"file"} \ b.stray])
    /\ UNCHANGED <<repo, results, frozen, maker, promoter, signed, reruns>>

Commit ==
    /\ edits < Edits /\ edits' = edits + 1
    /\ \/ repo' \in Revisions \ {repo} /\ UNCHANGED results
       \/ results' \in Data \ {results} /\ UNCHANGED repo
    /\ UNCHANGED <<candidates, frozen, maker, promoter, signed, reruns>>

-----------------------------------------------------------------------------
(* promote_bundle *)

Moves(next) == promoter' = next

\* Any exception: the stage is removed, and the target if this promotion placed it.
Raises ==
    /\ Moves([promoter EXCEPT !.at = "failed", !.stage = NoStage])
    /\ frozen' = IF promoter.at \in {"placed", "sealed"}
                 THEN [frozen EXCEPT ![promoter.run] = {}] ELSE frozen

\* The candidate is loaded; what is not there raises.
Load(run) ==
    /\ promoter.at = "idle"
    /\ \E b \in candidates[run] :
          Moves([at |-> "loaded", run |-> run, read |-> {b}, stage |-> NoStage])
    /\ UNCHANGED <<repo, results, candidates, frozen, maker, signed, edits, reruns>>

\* The rest of the first verification, then the check that no target exists.
Judge ==
    /\ promoter.at = "loaded"
    /\ LET read == The(promoter.read)
       IN  IF \E now \in candidates[promoter.run] :
                   Passes(read, now, "normal") /\ The(read.manifest).state = "candidate"
              /\ frozen[promoter.run] = {}
           THEN Moves([promoter EXCEPT !.at = "copying"]) /\ UNCHANGED frozen
           ELSE Raises
    /\ UNCHANGED <<repo, results, candidates, maker, signed, edits, reruns>>

\* copytree goes over the files one by one while the candidate may change:
\* each part is taken from the candidate at the start or at the end.
StartCopy ==
    /\ promoter.at = "copying"
    /\ IF candidates[promoter.run] = {} THEN Raises
       ELSE /\ Moves([promoter EXCEPT !.at = "half copied", !.stage = The(candidates[promoter.run])])
            /\ UNCHANGED frozen
    /\ UNCHANGED <<repo, results, candidates, maker, signed, edits, reruns>>

EndCopy ==
    /\ promoter.at = "half copied"
    /\ IF candidates[promoter.run] = {} THEN Raises
       ELSE /\ LET now == The(candidates[promoter.run]) IN
                 \E late \in SUBSET {part \in Parts : now[part] # promoter.stage[part]} :
                     Moves([promoter EXCEPT !.at = "copied", !.stage =
                         [part \in Parts |-> IF part \in late THEN now[part] ELSE @[part]]])
            /\ UNCHANGED frozen
    /\ UNCHANGED <<repo, results, candidates, maker, signed, edits, reruns>>

\* _rewrite_frozen_bundle_state: the copy's manifest and report say frozen, with
\* the sentinel to come.
Marked(b, report) ==
    [b EXCEPT !.manifest = {[The(b.manifest) EXCEPT !.state = "frozen", !.sentinel = TRUE]},
              !.report = {report}]

\* The marked copy is verified, the summary becomes its report, and it is
\* verified again.  Nobody else writes into the stage.
MarkFrozen ==
    LET stage == promoter.stage
        read == The(promoter.read)
        marked == Marked(stage, Summary(promoter.run, TRUE, TRUE, TRUE, "frozen", read.claims))
        reported == [marked EXCEPT !.report = {SummaryOf(marked, marked, "pre sentinel")}]
    IN  IF Verified(marked, marked, "pre sentinel") /\ Passes(reported, reported, "pre sentinel")
        THEN Moves([promoter EXCEPT !.at = "marked", !.stage = reported]) /\ UNCHANGED frozen
        ELSE Raises

Mark ==
    /\ promoter.at = "copied"
    /\ MarkFrozen
    /\ UNCHANGED <<repo, results, candidates, maker, signed, edits, reruns>>

\* Faulty variant: a target in the way is removed first, as reproduce does.
InstallableAlways(run) == TRUE

\* os.replace puts a directory where there is none; onto a bundle it raises.
Installable(run) == frozen[run] = {}

Install ==
    /\ promoter.at = "marked"
    /\ LET run == promoter.run IN
       IF Installable(run)
       THEN /\ frozen' = [frozen EXCEPT ![run] = {promoter.stage}]
            /\ Moves([promoter EXCEPT !.at = "placed", !.stage = NoStage])
       ELSE Raises
    /\ UNCHANGED <<repo, results, candidates, maker, signed, edits, reruns>>

SentinelPayload(b) == [manifest |-> b.manifest, report |-> b.report]

\* The target is verified where it stands, then gets the sentinel.
Seal ==
    /\ promoter.at = "placed"
    /\ LET run == promoter.run
           b == The(frozen[run])
       IN  IF Passes(b, b, "pre sentinel")
           THEN /\ frozen' = [frozen EXCEPT ![run] = {[b EXCEPT !.sentinel = {SentinelPayload(b)}]}]
                /\ Moves([promoter EXCEPT !.at = "sealed"])
           ELSE Raises
    /\ UNCHANGED <<repo, results, candidates, maker, signed, edits, reruns>>

\* Faulty variant: the last verification still in the mode before the sentinel.
ConfirmMode == "pre sentinel"

LastMode == "normal"

Confirm ==
    /\ promoter.at = "sealed"
    /\ LET b == The(frozen[promoter.run]) IN
       IF Passes(b, b, LastMode)
       THEN Moves([promoter EXCEPT !.at = "done"]) /\ UNCHANGED frozen
       ELSE Raises
    /\ UNCHANGED <<repo, results, candidates, maker, signed, edits, reruns>>

\* A promotion that is killed leaves what is there.
Kill ==
    /\ promoter.at \in {"copied", "marked", "placed", "sealed"}
    /\ edits < Edits /\ edits' = edits + 1
    /\ Moves([promoter EXCEPT !.at = "killed", !.stage = NoStage])
    /\ UNCHANGED <<repo, results, candidates, frozen, maker, signed, reruns>>

\* Another promotion of the same candidate, seen from this one.
PeerPromotes(run) ==
    /\ edits < Edits /\ edits' = edits + 1
    /\ frozen[run] = {}
    /\ \E b \in candidates[run] :
          LET placed == Marked(b, Summary(run, TRUE, TRUE, TRUE, "frozen", b.claims)) IN
          /\ Passes(b, b, "normal") /\ Passes(placed, placed, "pre sentinel")
          /\ frozen' = [frozen EXCEPT ![run] = {[placed EXCEPT !.sentinel = {SentinelPayload(placed)}]}]
    /\ UNCHANGED <<repo, results, candidates, maker, promoter, signed, reruns>>

-----------------------------------------------------------------------------
Reproduce ==
    \/ StartRun \/ BuildPublicationReport \/ StageHandoff
    \/ WriteCandidate \/ ClearCandidate \/ PlaceCandidate

Promote ==
    \/ Judge \/ StartCopy \/ EndCopy \/ Mark \/ Install \/ Seal \/ Confirm

FreezeNext ==
    \/ Reproduce
    \/ \E run \in Revisions : Sign(run) \/ Complete(run) \/ EditCandidate(run)
    \/ Commit
    \/ \E run \in Revisions : Load(run) \/ PeerPromotes(run)
    \/ Promote \/ Kill

\* A promotion that was started runs on.
FreezeSpec == FreezeInit /\ [][FreezeNext]_freezeVars /\ WF_freezeVars(Promote)

-----------------------------------------------------------------------------
(* Properties *)

\* A bundle under the frozen root with a sentinel holds exactly what an
\* independent reviewer signed for its run: the claims, the publication and the
\* handoff, however the candidate was edited or replaced while it was promoted.
FrozenAsReviewed ==
    \A run \in Revisions : \A b \in frozen[run] :
        b.sentinel # {} =>
            \E r \in signed : /\ r.basis = "independent" /\ r.run = run
                              /\ r.claims = b.claims /\ r.pub = b.pub /\ r.handoff = b.handoff

\* A sealed bundle is taken away only by the promotion that sealed it and then
\* failed to confirm it; the bundle of another promotion never is.
FrozenStays ==
    [][\A run \in Revisions : \A b \in frozen[run] :
           b.sentinel # {} /\ frozen'[run] # frozen[run] =>
               promoter.at = "sealed" /\ promoter.run = run]_freezeVars

\* A candidate that passes as it was loaded is frozen with its sentinel once the
\* edits, commits, kills, reruns and other promotions are spent: no step of a
\* promotion makes its own later verifications fail.
Ready ==
    /\ promoter.at = "loaded" /\ maker.at = "idle"
    /\ candidates[promoter.run] = promoter.read /\ frozen[promoter.run] = {}
    /\ LET b == The(promoter.read) IN
          Passes(b, b, "normal") /\ The(b.manifest).state = "candidate"

Sealed == promoter.at = "done" /\ \E b \in frozen[promoter.run] : b.sentinel # {}

ReadyCandidateFreezes ==
    (Ready /\ edits = Edits /\ reruns = Reruns) ~> Sealed
=============================================================================
