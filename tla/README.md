# PoI-MPP verification project

TLA+ models of the Proof-of-Intelligence protocol of this repository and of the evidence
pipeline around it, the TLC configurations that check them on small instances, and TLAPS
proofs for every value of the constants. `PROJECT.json` holds the correspondence of
definitions to source lines, the runs, the mutated definitions each property was seen to
reject, the hazards and the findings; this file says how they hang together.

To check a module: `tlc -config MCLifecycle.cfg MCContracts.tla`; to check proofs:
`tlapm PoIProtocol_proofs.tla`. A definition commented "Faulty variant" is a plausible bug
of the definition that follows it, used to see that a property can fail, and by nothing else.

## 1. The system

A worker runs a model once on a task, commits to the response, is audited on a sample drawn
after the commitment is final, and, if the audit accepts, the data is available and nobody
disputes it in time, earns a receipt. A matured receipt turns into credit, credit bounded by
collateral and a cap turns into authority of the *next* epoch, and authority decides who
sits on a committee. The protocol exists twice, as seven Solidity contracts and as a Python
kernel; around them are auditors, eight experiments, and an evidence pipeline that freezes
results and reports on them.

| Component | State it keeps | Operations | Talks to | Hard behaviours | What makes it correct |
|---|---|---|---|---|---|
| `PolicyRegistry.sol` | roles, four parameters, epoch clock | grant, revoke, set policy | read by all contracts | parameters change under running audits | a change never reaches back into a round |
| `ModelRegistry.sol` | model root → descriptor, active | register, deactivate | `TaskManager`, `CommitmentHub` | a root returns under another descriptor | a commitment keeps the descriptor it named |
| `TaskManager.sol` | tasks, workers, ids | register worker, create task | reads policy, models | epoch boundary in a transaction | task is immutable |
| `CommitmentHub.sol`, `ProtocolHashing.sol` | one commitment per task | commit; finality | reads tasks, models, policy | finality against a moving policy | audit strictly after finality |
| `AuditManager.sol` | one round per task | open, decision, availability, challenge, slash | reads commitments; read by receipts | challenge against activation | a disputed task activates nothing |
| `ReceiptManager.sol` | receipts, two nullifier tables, active counter | mint, activate, mark challenged, slash | reads rounds and tasks | order of transactions at the deadline, epochs passing | gates, single use, exact counter |
| `CreditEngine.sol` | credit, collateral, settled tasks | set collateral, allocate, weight | reads receipts and counter | four clocks, division remainder, late settlement | conservation, next-epoch only |
| `orchestration/run_mpp.py` | node process, files of one run | one scripted journey over three tasks | all contracts, reference machine, kernel | shared port, blocks between two calls, lost calls, kills | results are of the journey they describe, no node is left |
| `reference_machine.py` | none (receipts are values) | `transition` for six events | semantic verifier | unvalidated copies, mixed-up events | every copy valid, decisions final |
| `auditor/semantic`, `evidence/claim_spec.py` | none (frozen inputs) | fit thresholds, verify, record | reference machine | nineteen inputs of different ages, outcomes folded together | accepts only what is grounded and authorised |
| `credit.py`, `committee.py`, `e8_consensus.py` | local to one derivation | allocate, weigh, sample | consume receipts | repeated receipts, rounding, cumulative draw | paid once, conserved, proportional |
| `availability.py`, `auditor/availability` | shard files, certificates | store, sample, verify | E4 | files changed between two reads | what is VERIFIED was there |
| `e4_execution.py` | a bundle directory | build, promote, validate, reproduce | availability | two executors, kills, edits | a bundle stays and reproduces |
| `attacks/execution.py`, `e2_tamper.py` | bundles, rows | attack, audit, summarise | `reporting/e2.py` | what leaves the denominators | a claim rests on real attacks |
| `e5_watcher.py`, `e6_sybil.py` | generators, rows | simulate | drivers | order of draws, shared seeds | means what the closed form says |
| drivers of E1, E5, E6, multi-seed, `e8_multiepoch.py` | inputs and outputs on disk | load, close, simulate, publish, replay | registry, report | files edited between reads, overlapping runs | published is as contracted |
| `evidence/registry.py` | a directory shared by processes; entries in memory | open, recover, publish, read | experiments publish through it | concurrent publishers, crashes, interrupts | published stays, callers are told the truth |
| `reporting/` | an output root | build, validate | reads every experiment's files | parsed in one read and hashed in the next, kills, overlaps | a valid report is of its inputs |
| `scripts/reproduce.py`, `verify_bundle.py` | candidates, frozen bundles | stage, promote, verify | git, report, reviewer | edits between read and copy, kills, five verifications | frozen is what was reviewed |
| exact and algebraic auditors, worker, E3 and E7 tooling, remaining scripts | files | capture, compare, package | | mostly numerical, or one pass without state | values trace to records |

`PROJECT.json` "components" lists every part with its sources and status.

## 2. Modules

```
PolicyRegistry <- ModelRegistry <- TaskManager <- CommitmentHub <- AuditManager
  <- ReceiptManager <- CreditEngine <- PoIProtocol <- PoIProperties   (MCLifecycle,
                                          |             |- ReceiptLifecycle   MCGovernance,
                                          |             `- CreditLedger       MCCredit)
                                          `- LocalMPP                       (MCLocalMPP)
ArtifactRegistry -- FrozenStore                                             (MCRegistry)
OperatorWeights                                                             (MCWeights)
ReferenceMachine; GroundedVerification -> ClaimAdjudication, Calibration    (MCReference)
Availability; E4Bundle; TamperEvaluation; SybilSchedule; WatcherGame        (MCExperiments)
SimulationRun; SeedSensitivity; CostMeasurement; CommitteePublication;
  PublicationReport                                                         (MCPublication)
FreezePromotion                                                             (MCFreezePromotion)
```

A name in parentheses is a TLC configuration; `MCContracts.tla` instantiates the contracts for
the first three, every other one has a module of its own name. The theorems stand apart:
`PoIProtocol_proofs` (the contracts), `LocalMPP_proofs` (the local run, on top of them),
`Evidence_proofs` (registry, freezing, report), `OperatorWeights_proofs`, `Reference_proofs` (machine,
verifier, calibration), `Experiments_proofs` (availability, E4 bundle, tampering, identity
splitting, watchers) and `Publication_proofs` (drivers, sensitivity, cost, committee). `SumTheorems` is the library of
facts about sums, ranks, counting up and least elements that they share.

`MCReference`, `MCExperiments` and `MCPublication` put modules that share no state into one
run: a variable `moving`, chosen in the initial state, names the module that takes steps, and
the others rest. This saves runs and hides no interaction, for there is none between them.

### The contracts

One module per contract, each extending those it reads, in the order of deployment
(`PoIProtocol` composes them). Contracts call each other only to read, so a transaction
writes the storage of exactly one contract: each action is one external function, guarded
by the negation of its revert conditions, and `PoIProtocol!Next` interleaves them with the
production of blocks. Any number of transactions share a height, which is what makes the
deadline block interesting.

- **Who sends.** `Authorized(role)` says that some account holds the role. Accounts are told
  apart nowhere else in the contracts, except a worker committing its own task.
- **Time.** `blockNumber` only grows; epochs are computed from it as in `epochAt`.
- **Hashes** are collision-free and modelled by the tuple they bind. A task commitment stands
  for the task id (tasks are immutable), a model commitment for root *and descriptor at commit
  time*.
- **`allocateCredit`** takes ascending ids, so a call that succeeds is determined by the set;
  an id's position is its rank. A call for a non-creditable task succeeds without effect.
- **Integers.** Solidity's checked arithmetic reverts on overflow and so changes nothing;
  the models use `Nat`.
- **Left out.** The six dependency pointers of the policy registry (no contract reads them),
  the task deadline (stored, never read), audit ids and seed hashes (opaque).

`ReceiptLifecycle` states what the receipt contract promises without blocks, epochs, audits
and roles: a nullifier serves one receipt for ever, activation and challenge exclude each
other, nothing becomes active once its task is disputed. `CreditLedger` states what the
credit contract promises: a task pays all it offers, once, into the epoch after its own, not
before that epoch has begun. `PoIProperties` instantiates both with refinement mappings;
`Reference_proofs` instantiates `ReceiptLifecycle` for the Python machine.

### One local run

`LocalMPP` extends the contracts with the program that drives them. The calls of the
synthetic journey are the steps of `Script`, in order; each call that writes is a contract action in a block of its own,
each view is read one block below, and what a later call uses is kept in `memo`, as the code
keeps it in local variables. A peer run may have seen the port free too, bind it first and mine
blocks on the shared chain; calls are lost; the process is killed. All of `MCLocalMPP`'s
parameters are the constants of the code (`BlocksPerEpoch = 50`, window 5, budget 90 and so on).

### The frozen artifact registry

`ArtifactRegistry` models processes over one directory. A step is one access to the
directory, so two processes interleave between the listing, the reads, the look at a temporary
file and its removal, the write, the link and the verification. A file is named by the call
that created it; `target` maps a file name to the file linked there, `temps` holds the
temporary names still present, `content` the bytes. `entries` is what a process remembers and
may be stale. Interrupts strike before the link, between the link and its return (`Link` to
"excepted"), and crashes strike anywhere. Reading a directory while others publish returns any
subset of what appears meanwhile. `FrozenStore` is the store it implements: artifacts are
added, one per id, each after its parents.

Left out: faults while reading a file back, loss of power and `fsync`, symbolic links and
permissions (the checks that refuse them raise before anything is done), the bytes of the
encoding.

### The Python receipt machine and the semantic verifier

`ReferenceMachine` models `transition` on receipts held by a caller that offers any event with
any context. `VerificationMatches` is the chain of comparisons between receipt, event and
verification result; a *binding* stands for the task root, response hash and commitment that are
compared together. `transition` returns `model_copy` results, which pydantic does not
validate: `ValidState`, the validator of `types.py`, is therefore a property and not an
assumption.

`Calibration` is the fit of thresholds over its candidate grid; `ClaimAdjudication` a claim's
supported and refuted rules and their feasibility; `GroundedVerification` the verifier: a hash
is the set of inputs it covers, two tasks differ in one input, and a caller may hand over some
inputs of either. The verifier's checks, per-claim outcomes, their aggregation and the policy
follow in the code's order, and an accepted verdict becomes the receipt's `RecordAudit` event.

### Operator weights and committee

`OperatorWeights` models `derive_operator_weights` (E8) with the `allocate_credit`,
`derive_active_weight` and `sample_committee` it calls. Instead of fixing a scenario first, each
step reads the next batch or receipt, any the sort order and validators allow; this explores
all scenarios within the bounds. The hash behind a roll is replaced by every value below the
remaining weight. The committee is kept as a set, since nothing reads the order.

### Experiments

- `Availability`: shard store, certificate, one step per file the verifier reads, the damage of
  the seven scenarios, and a meddler between reads. `E4Bundle`: check of the root, build, removal
  of an empty root, rename, kill, edit, validation, replay with its second read.
- `TamperEvaluation`: an attack changes a surface of a request's evidence; detection compares what
  is shown with what is committed through the family's own path; `Summarize` is E2's verdict.
- `SybilSchedule`: two lanes of one seed, in lockstep as long as their generators answered the
  same calls. Whether they still do is part of the state, so a draw too many is visible.
- `WatcherGame`: the walk of a trial over the *whole* distribution, in integer weights, so that
  the simulation's mean is compared exactly with the closed forms.

### Publication

`SimulationRun` is the E5/E6 driver with its reads, closure, authority check, gate, frozen record
and three output files; `SeedSensitivity` the fourteen readings of the multi-seed drivers;
`CostMeasurement` E1's timing loop on a machine that warms up, and its claim;
`CommitteePublication` E8's plan closure, artifact, multi-epoch artifact and replay;
`PublicationReport` a report build as a list of readings and writes per experiment
(`Twice` is a file parsed in one reading and hashed in the next) and the validation of its
manifest; `FreezePromotion` `reproduce.py` and `verify_bundle.py`, a bundle being eight groups of
files that a verification relates.

## 3. Runs

Bounds are the constants of each `.cfg`; a bound that is a guard or a constraint is commented
as such in its module.

| Run | Question | Bounds and why they are enough |
|---|---|---|
| `lifecycle` | gates, nullifiers, counter, refinement of the life cycle, liveness | 1 task, 2 receipts (two can differ in state and compete for nullifiers), window 2, epochs of 4 blocks, 9 blocks: the deadline falls inside, on and after the activation epoch |
| `governance` | do policy, role and model changes reach back? | 2 policies that differ in depth and window, 2 descriptors, 2 responses, 1 role revoked and granted, 7 blocks |
| `credit` | conservation, settlement, refinement of the ledger | 2 tasks, 2 workers, 3 receipts on a budget of 3 (shares 3, 2+1, 1+1+1), epochs of 2 blocks; constraints leave out disputes and rejected audits (covered by `lifecycle`) and order independent set-up steps |
| `registry` | publication, recovery and opening by several processes | 2 processes with 2 calls each; two versions of one artifact and a child of one of them: same name with same and with other bytes, and a parent relation |
| `reference` | the Python machine, and the verifier whose verdicts it records | machine: 1 receipt (receipts are independent values), 2 bindings, window 2, heights 0..6, epochs 0..4. Verifier: fractions over 4, samples of one row per decision (every combination of low, middle and high), every pair of swapped inputs, one or two claims of up to two citations under three partitions, every rule pair over one metric with values 0..2, authority dates at, inside and outside their ends |
| `weights` | paid once, conservation, earned authority, committee | 3 batches of at most 3 receipts and nullifiers over 3 operators, one without usable collateral, and a worker without operator; budget 5 leaves a remainder for 2 and 3 receipts |
| `orchestration` | does one run do what its result file says? | the code's own constants; a peer that may mine 2, 25 or 50 blocks (inside an epoch, half of one, a whole one); 2 disturbances |
| `freeze` | is what is frozen what was reviewed? | 2 revisions, 2 results (one lacking an artifact), 1 signature, 3 edits, 2 reruns |
| `experiments` | E2, E4, E5, E6 | E4: 3 shards with threshold 2 or 3 and 4 with 2, sampled with and without replacement, 2 changes by a meddler, 2 executors, 2 edits. E2: 2 requests, a tensor attack (which the audit may miss) and a replay, 2 seeds that hit one of 2 places or both, 3 attacks (two to count and a third whose bundle a caller mixes up with them), 3 rows. E6: 2 identities against 2 operators over 2 tasks and 2 simulations, all capacity models. E5: 2 watchers of different cost, probabilities none, half or certain, every family with and without bribe and subsidy |
| `publication` | are published records and reports of the inputs they name? | 2 drivers, processes and builders; E5/E6 and reports with one edit between reads, sensitivity with 2, E8 with 1 rewrite; E1 with 4 speeds, a fixture clock that runs back or stands still, 3 pairs resampled as the code's generator draws, at most one reason not to freeze (with one, or a fixture clock, on a warm machine) |
| `dispute_race`, `da_counts` | one statement of the documentation or code each, which TLC refutes | see section 6 |

Deadlock is checked in `registry`, where a closed process can always open again. The other
systems stop by design at their bounds or when nothing is left to do, and their `.cfg` says so.

Symmetry is used only for sets that occur in no ordering and in no liveness property:
descriptors and responses (`governance`), nullifiers and workers (`credit`), processes
(`registry`, `publication`), drivers and builders (`publication`), bindings (`reference`),
nullifiers (`weights`), requests, seeds and places (`experiments`).

### Fairness

- **Contracts** (`lifecycle`): weak fairness of the receipt operator's `markChallenged` and
  `slash` for each receipt and of the credit operator's `allocateCredit` for each task, because
  these are the duties of roles the owner appoints, and once possible they stay possible:
  neither has a deadline. Nothing is assumed of workers, auditors, admins, `activate` (missing
  its epoch is legal), or of blocks. Two facts the code guarantees only together follow: a
  pending receipt of a slashed task is slashed in the end, and a creditable task with an active
  receipt pays its whole budget.
- **Local run** (`orchestration`): the process's next step, its node's start-up, and the failure
  of a call on a dead node. Nothing is asked of the peer or of disturbances. Readiness is polled
  with a limit in the code, so start-up ends in `Attach` or `NotReady`.
- **Promotion** (`freeze`): a promotion that was started runs on. Nothing is asked of reviewers
  and owners; `ReadyCandidateFreezes` starts from the state in which their changes are spent.

The other modules promise nothing that needs fairness.

## 4. Proofs

The proof modules prove, for every value of the constants that satisfies the named
assumptions, the theorems listed in `PROJECT.json`. The assumptions say what the code's
validators and constructors say: ranges are not empty, zero values are distinct, deployment is
not later than the last block of interest (`StartBlock <= MaxBlock`) and
`EpochAt(MaxBlock) < MaxEpoch`; requests, plans, policies and configurations are ones their
validators admit (`CasesAssumption`, `SensitivityAssumption`, `CostAssumption`,
`PublicationAssumption`, `ReportAssumption`).

**Sums without induction.** What a recursive sum computes would need an induction theorem that
takes a predicate, which the installed provers cannot instantiate. `SumTheorems` argues by a least
counterexample instead. That a non-empty set of naturals has a least element (`LeastNatural`), a
finite family of sets a minimal one (`MinimalSubset`), and that a family closed under adding an
element of a finite set contains that set (`GrowingSet`) are proved once, with *sets* in the place
of predicates. From them follow the theorems on the community
modules' `SumFunctionOnSet`: it does not depend on the order of summation (`AnyOrder`), is additive
(`SumOfOneMore`, `SumOfUnion`), agrees for functions that agree (`SumAgrees`), and even shares with
the remainder on the first ranks add up to the whole (`SumOfEvenShares`). A sum over pairs of a
product is a product of sums (`SumOfProducts`), and values gathered by where they lead to add up to
what leads there (`SumByFibres`).

- **Contracts.** `TypeCorrect` uses `TypeInv`: the types, and that an active task and a minted
  receipt point at real ids. The safety theorems share the strengthening `Support`:
  ids not yet handed out are unused (`IdsFresh`), a commitment names its task, worker and
  finality height (`CommitmentBinding`), a round copies its commitment (`RoundBinding`), a dispute
  has a round and a slash has a dispute, and an audit follows finality (`AuditsFollowFinality`).
  On it rest `ReceiptsBound`, `ActivationIsGated`, `NullifiersSpentOnce`,
  `ActiveReceiptsCounted` (with finite-set cardinality), `CreditIsBacked`, `DisputeRaceBounded`
  and the step simulation `ContractsImplementLifecycle`. The persistence lemmas (`TasksPersist`,
  `CommitmentsPersist`, `RoundsPersist`, `ReceiptsPersist`) say once what later steps may not
  rewrite. `BudgetConserved` shows that no task allocates more than its budget.
- **Credit.** `CreditInv` adds to the binding of receipts that a settled task's receipts hold its
  whole budget, that a receipt is credited only by the settlement of its task, and that an epoch's
  raw credit is the sum over the tasks that settle into it. A settlement touches one task, one epoch and one
  set of receipts; `CreditSettled` splits each sum there with `SumOfUnion`, and `SharesAddUp` shows
  with the ranks of ids that the contract's quotient and remainder lose nothing. Hence
  `CreditIsConserved`, `SettlementIsFull` and, step by step, `ContractsImplementLedger`.
- **Local run.** `MPPInv` follows the script: for each position it says what the calls before it
  have left on the chain (`TasksOK`, `ReceiptsOK`, `CreditOK`), in the client's memory (`MemoOK`,
  `WeightOK`) and in the output root (`FilesOK`). It is as weak as the code makes it: an id is read
  before the call that takes it, and that call may revert unnoticed, so the two happy lanes are known
  to have tasks of their own only when both have committed. Each part has a frame lemma (`TasksFrame`
  and so on) that says which positions disturb it; a call has a lemma only when it is at one of them.
  `Reverted` and `Replay` mention ENABLED, but what they change follows without it: a replay would
  overdraw the budget, so it is refused whatever refuses it (`ReplayInv`). Hence
  `ResultsAreGenuine` and `CommitteeMatches`. `NodeInv` says at which points of a run its node may be
  up; `EndedRunsAreClean`, the safety half of `RunEndsClean`, leaves to TLC only that a run ends.
  `LocalMPPAssumption` asks for a positive budget, a
  collateral worth some authority (`Collateral >= beta`) and room for the three tasks and receipts,
  as the constants of `run_mpp.py` have it (90, 900 and 10).
- **Registry.** Alone, none of the properties is inductive: that memory agrees with the disk
  needs to know where a call stands. `IInv` describes each process's current call (its
  temporary file, whether it is linked), what an unlinking process holds, that published
  artifacts are closed under parents, and the properties themselves. From it follow
  `EntriesAreFrozen`, `EntriesAreClosed`, `OutcomesAreTruthful`, `RecoveryIsSafe` and the
  refinement `RegistryImplementsStore`.
- **Python machine.** `Sound` adds to the validator what `transition` relies on: no digest
  without an audit, no reasons and no activation epoch while pending. Each event yields a
  receipt that is sound and revises nothing (`Good`), which gives `ReceiptsStayValid`,
  `ActivationEarned`, `AuditsAreOwn`, `OutcomesAreFinal`. The two implementations of a receipt's
  life are tied by one abstract specification: the contracts implement `ReceiptLifecycle`, and so,
  event by event, does `transition` (`TransitionsFollowLifecycle`), except that its `OpenChallenge`
  disputes the task and marks the receipt in one event (`DisputedAtOnce`). The mapping shows where
  they differ: a receipt Python rejects, abstains from, finds unavailable or expires is one the
  contract leaves pending; and since `transition` sees one receipt at a time, each is given a task
  and a registry of nullifiers of its own, so that a nullifier serves one receipt is proved of the
  contracts only.
- **Semantic verifier.** `GroundedInv` says what the record of a verification was made of.
  `NoAmbiguity`: rules that the constructor admits cannot both hold of one assignment, the
  argument being an interval per metric. `BoundTasks`: the hash comparisons, followed along the
  inputs each hash covers, leave one task. `EvaluationSpeaks` and `AggregateSpeaks` carry a verdict
  back through the fold over claims to a citation that exists once. `SelectionBest` shows that a
  maximum of the score's lexicographic order exists among the observed thresholds
  (`OutscoresTransitive`, `OutscoresTotal`), `Rounded` that any threshold can be rounded to an
  observed one without changing a row, so none at all beats the selection. Hence
  `AcceptanceIsEarned`, `ClaimsAreUnambiguous`, `CalibrationIsBest`.
- **Weights.** `ScanInv`: what was paid or is eligible has been seen, and nothing eligible was
  paid; `CommitteeInv`: a committee begins empty, from enough operators with weight. They give
  `ReceiptsPaidOnce` and `CommitteesAreSound`. `PayInv` accounts for every batch: what its
  receipts were paid is its budget or nothing. With the sums it gives `CreditIsConserved` and
  `AuthorityIsEarned`. `DrawIsProportional` is about one draw: the rolls up to an operator are as
  many as the weights before it (`UpToSplits`, `PassesEarlier`).
- **Availability.** While nobody puts a shard back, what is intact was intact when the
  verification began (`NothingBack`); the first pass has counted no more than the intact shards
  below its cursor (`Counted`, with finite-set cardinality), and a second pass that has noted
  nothing has met intact samples only (`Met`). Hence `VerifiedIsAvailable`.
- **E4 bundle.** `ReplayInv`: what a replay remembers lists what it holds, and a receipt is for a
  manifest some configuration produces; `Produced` fixes the files by the manifest. Hence
  `ReceiptsAreReproducible`; `BundlesStay` needs that a bundle is none of the entries an executor
  writes over.
- **Tampering.** `TamperInv` ties each row to the evidence and the attack it evaluates, whose target
  hashes differ, so a row counted as caught altered something; judged again, a replay is caught only
  by the nullifiers given now (`NormalizedRow`). `TwoApart` finds two manifests behind a count of
  two, and as mutations have no peer they differ in family, seed or material. What the mutations
  made is not shown to differ: two seeds may hit one place. Hence `TamperClaimIsEarned`.
- **Identity splitting.** In every capacity model but the scheduler that draws identities, the
  tickets of a roll are a run of the attacker's before a run of the others' (`TicketsAre`), and how
  many each has depends only on what the attacker's units achieve together; the shares of a split
  lose no unit (`SharesAre`) and the slices of the draws add up to the whole (`SliceTotal`,
  `SuccessesAre`). So one answer of the generator means one kind of winner in both lanes
  (`LanesStayTogether`). `SybilInv` adds what lanes in step have in common, `InStep`: the attacker's
  credit in sum, and each honest operator's. Hence `SplitsAreNeutral`, for any number of
  identities, units, operators and tasks. `Eligible` is an ascending enumeration and not a
  `SelectSeq`, which the provers cannot expand.
- **Watchers.** `Walked(w)` gives the whole weight of six regions of a trial's states after `w`
  watchers (all, not silenced, and of the silenced and the others the unchallenged and the
  unstopped) as products of powers, with the utility earned so far. A turn multiplies the weight of each
  region by the chance of the events that do not leave it, because the states that lead into a region
  are always a rectangle, some region times some events (`TurnRegions`, `MassComesFrom`); what it
  pays depends only on such a rectangle (`EarnedByRegion`, `PaidByRegion`). The bribed watchers come
  first, so one more is one more factor of either kind (`MixedPowers`), one more mean gain
  (`GrossGrows`) and one more cost. Hence `WalksMatchClosedForms`, for any number of watchers, any
  probabilities with a common denominator, costs and amounts. `Power` is a recursive function,
  the provers knowing nothing of `^`; that its recursion has a solution is `PowerIs`.
- **Simulations E5 and E6.** `Good` follows one driver: from the closure of the plan on, its
  contract and plan are those its configuration binds; from the judgement on, its rows are what
  they are called; from the freeze on, its report is the registered one. The files, temporary ones
  of other drivers included, hold only such reports. Hence `RecordsFrozenAsContracted` and
  `OutputFilesTruthful`.
- **Sensitivity, cost, committee.** `SeedInv`: while nobody edits, each of the fourteen readings is
  what the file says (`ReadingsHeld`), an attempt is of those readings and an artifact of a
  complete attempt; hence `SensitivityIsBound`. `CostInv`: the rows so far are
  the pairs so far, each timed on a machine no slower than before (`NoSlower`). If no pair's overhead
  were small, what a pair loses in the plain order it would lose again with any later reversed one
  (`PairsCancel`): a resample whose draws cancel out has no positive sum (`SumsCancel`), and with
  seven of them the bound is not positive. Hence `CostClaimIsEarned`, under two assumptions: the machine
  only gets faster, which is a premise about the measurement and nothing the code establishes, and
  seven of the 256 resamples cancel out (`BootstrapAssumption`). The resamples depend on the number
  of pairs alone; enumerated from `random.Random(1)`, it is so for 2 to 40 pairs and no longer for
  41; the configurations of E1 measure 2 and 8. `CommitteeInv`: what a process holds at each
  point is storable and, past the closure, authentic; hence `ReplaysAreAuthoritative`.
- **Freezing.** `IInv` says which bundle is whose: what stands under a run id, and what is copied
  from there, names that run; a copy has no sentinel before it is sealed, and a promotion between
  its rename and its end finds its bundle in place. With what a passing verification of an
  undisturbed bundle says (`VerifiedReviewed`) it gives `SealedIsReviewed` and `SealedStays`.
- **Report.** A build follows `StepsOf`, a `FlattenSeq` of what each configured experiment reads,
  checks and writes. `FlattenExists` and `FlattenInARow` say what the flattened sequence is (a
  least counterexample again, `CountingUp`): every part stands in it, in a row. From this follow
  `LoadsOrdered` (a source is parsed and hashed, parsed before it is compared or used, and a torn
  file is generated next) and the order of what is written after the readings (`WriteOrder`), for
  any configuration. `ReportInvariant` is about the builds that are steady, meaning that no source
  changed and no other build ran since they began: such a build is the only one (`Alone`), what it
  parsed and hashed is what the sources still are (`TakenWell`), its comparisons have held
  (`CheckedWell`), what it remembers to have written is right (`WroteWell`), and so is each generated
  file it is past (`MadeWell`); and the manifest of a steady build is right about the inputs it names
  (`ManifestsWell`). A validation compares the disk with that manifest, which carries the claim over
  to whatever builds came later. Hence `ReportsAreFaithful`.

`AuditsFollowFinality`, `ActivationIsGated`, `CreditIsBacked`, `DisputeRaceBounded`,
`EntriesAreClosed` and `OutcomesAreFinal` are proved and no run checks them again.

`TransitionsFollowLifecycle` and `EndedRunsAreClean` state properties of their own, next to those
the runs check.

Only model-checked: liveness (`DisputedReceiptSlashed`, `MaturedTaskSettles`, `QuietRunCompletes`,
`RunEndsClean`, `ReadyCandidateFreezes`), which needs ENABLED. Every other property of a run is
also a theorem.

## 5. What is not modelled, and why

- **Numerical code**: finite fields, floating-point checks, tensor capture, inference, bootstrap
  (but for E1's, by its resamples) and Wilson intervals, hypergeometric probabilities. TLC has integers; where a decision hangs
  on an estimate the models take the decision's inputs from a small set.
- **Canonical encodings and hashes**: assumed injective, so a hash is the value it is taken of.
- **E7** measures gas of the contracts; the contracts are modelled, their gas is not.
- **E3's worksheets, authority requests and attestations**: files signed and passed on by people
  outside the program; each script checks its inputs in one pass and keeps no state. The v1
  semantic verifier never accepts.
- **Writing in pieces**: an E5/E6 driver's temporary file is written in one step, where the code
  truncates it first; it is read again before anything is recorded.
- **Report**: the path of E4's stored bundle and the build-environment hash of a manifest.
- **Sensitivity**: `SensitivityBound` says what an artifact is about when the files stood still
  while it was made. A file put back between two readings passes the code's hashes and its rows may
  be of the version in between; the model has the behaviour, the property excludes it.
- **Rendering** of tables and figures, vector witnesses, packaging scripts.

## 6. Findings

1. **`dispute_race`.** `openChallenge` and `activate` are both allowed in the block of the
   challenge deadline. Activated first, a receipt of a task that is then challenged and slashed
   stays active and creditable, against "A successful challenge produces a slashed
   disposition". `DisputeRaceBounded` proves that no other height has this race.
2. **`da_counts`.** Samples drawn with replacement are counted per draw and compared with a count of
   distinct shards: the result's own validator raises where a verdict of WITHHELD was due.

## 7. Observations

What the models led to and no run states as a violated property.

*Protocol.* `EXPIRED` is documented as the fate of a receipt not activated in time; the contract
never assigns it, and the Python machine refuses it for an accepted and available receipt, which
then is pending for ever. `allocateCredit` settles a task once, over the receipts active then: one
activated later is never credited. A scenario of E8 may hold two batches of one task, each paid
the whole budget, against "Per task, sum(credit) <= D_j". A receipt is remembered before it is
found eligible, so an ineligible one hides a later one of its nullifier.

*Registry.* A publisher that loses the race to identical bytes reports success and leaves its
temporary file, no link to the target and so not the "recoverable residue" of the docstring; like
the orphan of a crash before the link, it makes every later open raise until it is deleted by hand.

*Candidates and freezing.* `reproduce.py` removes a candidate of the same run before its new one
is in place, a reviewed one too. A publication build that failed leaves the handoff to raise. A
promotion killed before the sentinel leaves a target that blocks every later promotion of the
run. The claim matrix's dispositions are not compared with the publication's.

*Experiments.* E2 documents a changed nullifier without membership as excluded from replay
detection and counts it undetected in the denominator; its claim can be supported without an
honest control. E5 compares its draws with `>` in one place and `<` in others. E6 draws the honest
winner twice and measures the sybil's advantage in credit, so the weight-only ablations show none.
E8's seeds of two scenarios may coincide across epochs. E2's count
of unique attack seeds is one of attack instances, whose ids contain family, seed and material: two
seeds that hit one cell or byte and so made one mutation count as two, as do two families under one
seed. E1's bootstrap is an order statistic of means: for two pairs its lower bound is the least
difference, but of three the second is drawn alone six times in 256 and its loss is no obstacle.

*Publication.* Temporary names are fixed per output root, so two drivers may mix their outputs.
Several inputs are parsed in one reading and hashed in the next; contracts are read twice (E5, E6)
or three times (E8). The multi-seed drivers read their sources a fourth time, unchecked, to use
them. E4's metadata is compared with the summary's claim and constants only. The report's output
root is never cleaned; generated files of E3 and E7 are written while loading, and E7's raw bundle is
hashed again from disk, where an overlapping build may have changed it. E8 hashes its sources from
disk although they were imported before.

*Semantic verifier.* Claims, metrics, statement and date are bound to no hash; a snapshot of the
authority registry is never compared with a later one, so a revoked authority stays usable with
an older one. The policy's partition of outcomes is free: one that accepts NUMERICAL_ERROR accepts
wrong numbers, and a refused claim it calls acceptable hides a partial one. The options
`require_output_trace_agreement` (false) and `inconclusive_rule` change nothing. Most of the
forty hash comparisons are implied by the others.

## 8. Plan

E3's import of an attested result, on top of `GroundedVerification`.
