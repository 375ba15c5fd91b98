-------------------------- MODULE Experiments_proofs --------------------------
(***************************************************************************)
(* Proofs about the experiments.  Availability, for any layouts, scenarios  *)
(* and amount of meddling: what the verifier has counted and seen so far   *)
(* was intact when it began, unless somebody put a shard back.  E4Bundle,   *)
(* for any configurations and any number of edits: a bundle is a bundle    *)
(* whatever was edited, and a replay remembers one whose manifest lists    *)
(* what it held when it was read.  TamperEvaluation, for any requests,     *)
(* seeds, families and numbers of attacks and rows: a row is a control or  *)
(* binds an attack that altered what was committed.  SybilSchedule, for    *)
(* any numbers of identities, units, operators and tasks: two lanes of one *)
(* seed stay in step, because what a roll draws from depends on what the   *)
(* attacker's units do together, and what they record is the same.         *)
(* WatcherGame, for any number of watchers and any amounts: the weights of *)
(* the walk are products of powers after each watcher, so it ends in the   *)
(* closed forms of the row.                                                *)
(***************************************************************************)
EXTENDS Availability, E4Bundle, TamperEvaluation, SybilSchedule, WatcherGame, SumTheorems, SequenceTheorems

-----------------------------------------------------------------------------
(* Availability *)

Untouched == {"init", "stored", "issued"}
Verifying == {"counting", "checking"}

StoreTypeOK ==
    /\ model \in Models /\ model.total > 1
    /\ DOMAIN store = Shards
    /\ history \in [intact : SUBSET Shards, restored : BOOLEAN, meddled : Nat]
    /\ DOMAIN tally = {"total", "verified", "missing", "corrupt"} /\ tally.total \in Nat
    /\ cursor \in Nat
    /\ phase \in {"issued"} \cup Verifying => sample \in Seq(Shards)

Beginning ==
    /\ phase \in Untouched => cursor = 0 /\ tally = NoTally /\ ~history.restored
    /\ phase \in Untouched \cup Verifying => status = None

\* While nothing is put back, what is intact was intact from the beginning.
NothingBack ==
    phase \in Verifying /\ ~history.restored => Intact \subseteq history.intact

Below(s, bound) == {i \in s : i < bound}

\* The first pass counts no shard that was not intact.
Counted ==
    /\ phase = "counting" =>
          /\ cursor \in Shards
          /\ ~history.restored => tally.total <= Cardinality(Below(history.intact, cursor))
    /\ phase = "checking" /\ ~history.restored => tally.total <= Cardinality(history.intact)

\* A second pass that has noted nothing has met intact samples only.
Met ==
    phase = "checking" /\ ~history.restored /\ tally.missing = {} /\ tally.corrupt = {} =>
        \A i \in DOMAIN sample : i < cursor /\ sample[i] \in served => sample[i] \in history.intact

StoreInv == StoreTypeOK /\ Beginning /\ NothingBack /\ Counted /\ Met /\ VerifiedWasAvailable

LEMMA ModelTyped ==
    ASSUME StoreTypeOK
    PROVE  model.total \in Nat /\ model.threshold \in Nat /\ model.samples \in Nat
  <1>1. model \in [total : Nat, threshold : Nat, samples : Nat, replacement : BOOLEAN]
    BY AvailabilityAssumption DEF StoreTypeOK
  <1> QED
    BY <1>1

LEMMA ShardsFinite ==
    ASSUME NEW total \in Nat, NEW s \in SUBSET (0..(total - 1)), NEW bound
    PROVE  /\ IsFiniteSet(s) /\ Cardinality(s) \in Nat
           /\ IsFiniteSet(Below(s, bound)) /\ Cardinality(Below(s, bound)) \in Nat
  <1>1. IsFiniteSet(0..(total - 1))
    BY FS_Interval
  <1>2. Below(s, bound) \in SUBSET (0..(total - 1))
    BY DEF Below
  <1> QED
    BY <1>1, <1>2, FS_Subset, FS_CardinalityType

\* Counting one more shard raises the bound by one.
LEMMA CountOneMore ==
    ASSUME NEW total \in Nat, NEW s \in SUBSET (0..(total - 1)), NEW i \in s
    PROVE  Cardinality(Below(s, i + 1)) = Cardinality(Below(s, i)) + 1
  <1>1. IsFiniteSet(Below(s, i))
    BY ShardsFinite
  <1>2. ~(i < i) /\ \A j \in s : j < i + 1 <=> j < i \/ j = i
    OBVIOUS
  <1>3. Below(s, i + 1) = Below(s, i) \cup {i} /\ i \notin Below(s, i)
    BY <1>2, Zenon DEF Below
  <1> QED
    BY <1>1, <1>3, FS_AddElement

LEMMA CountNoneMore ==
    ASSUME NEW total \in Nat, NEW s \in SUBSET (0..(total - 1)), NEW i \in Nat, i \notin s
    PROVE  Below(s, i + 1) = Below(s, i)
  <1>1. \A j \in s : j < i + 1 <=> j < i
    OBVIOUS
  <1> QED
    BY <1>1 DEF Below

LEMMA StoreInitInv == StoreInit => StoreInv
  <1> SUFFICES ASSUME StoreInit PROVE StoreInv
    OBVIOUS
  <1>1. history = [intact |-> {}, restored |-> FALSE, meddled |-> 0] /\ tally = NoTally
    BY DEF StoreInit
  <1>2. StoreTypeOK
    BY <1>1 DEF StoreInit, ValidModel, StoreTypeOK, NoTally, Verifying
  <1> QED
    BY <1>1, <1>2 DEF StoreInit, StoreInv, Beginning, NothingBack, Counted, Met,
                      VerifiedWasAvailable, Untouched, Verifying, None

LEMMA InitializeInv ==
    ASSUME StoreInv, Initialize
    PROVE  StoreInv'
  <1>1. DOMAIN store' = Shards'
    BY DEF Initialize, Shards
  <1>2. UNCHANGED <<model, Shards, sample, served, cursor, tally, status, history>>
        /\ phase = "init" /\ phase' = "stored"
    BY DEF Initialize, Shards
  <1>3. StoreTypeOK'
    BY <1>1, <1>2 DEF StoreInv, StoreTypeOK, Verifying
  <1> QED
    BY <1>2, <1>3 DEF StoreInv, Beginning, NothingBack, Counted, Met, VerifiedWasAvailable,
                      Untouched, Verifying, None

LEMMA IssueInv ==
    ASSUME StoreInv, IssueCertificate
    PROVE  StoreInv'
  <1>1. UNCHANGED <<model, Shards, store, cursor, tally, status, history>>
        /\ phase = "stored" /\ phase' = "issued"
    BY DEF IssueCertificate, Shards
  <1>2. sample' \in [1..model.samples -> Shards]
    BY DEF IssueCertificate, Samples
  <1>3. sample' \in Seq(Shards)
    BY <1>2, ModelTyped, SeqDef DEF StoreInv
  <1>4. StoreTypeOK'
    BY <1>1, <1>3 DEF StoreInv, StoreTypeOK
  <1> QED
    BY <1>1, <1>4 DEF StoreInv, Beginning, NothingBack, Counted, Met, VerifiedWasAvailable,
                      Untouched, Verifying, None

\* The damage fixes what counts as intact from then on.
LEMMA DamageInv ==
    ASSUME StoreInv, Damage
    PROVE  StoreInv'
  <1>1. UNCHANGED <<model, Shards, sample, cursor, tally, status>> /\ phase = "issued"
    BY DEF Damage, Shards
  <1>2. CASE Undamageable
    BY <1>1, <1>2 DEF Damage, StoreInv, StoreTypeOK, Beginning, NothingBack, Counted, Met,
                      VerifiedWasAvailable, Untouched, Verifying, None
  <1>3. CASE ~Undamageable
    <2>1. /\ store' \in DamagedStore /\ phase' = "counting"
          /\ history' = [history EXCEPT !.intact = {i \in Shards : store'[i] = i}]
      BY <1>3 DEF Damage
    <2>2. DOMAIN store' = Shards
      BY <2>1 DEF DamagedStore, StoreInv, StoreTypeOK
    <2>3. Intact' = history'.intact /\ history'.intact \subseteq Shards
      BY <1>1, <2>1 DEF StoreInv, StoreTypeOK, Intact
    <2>4. StoreTypeOK'
      BY <1>1, <2>1, <2>2, <2>3 DEF StoreInv, StoreTypeOK, Verifying
    <2>5. cursor' = 0 /\ tally'.total = 0 /\ ~history'.restored /\ status' = None
      BY <1>1, <2>1 DEF StoreInv, StoreTypeOK, Beginning, Untouched, NoTally
    <2>6. Counted'
      <3>1. 0 \in Shards'
        BY <1>1, ModelTyped DEF StoreInv, StoreTypeOK, Shards
      <3>2. Cardinality(Below(history'.intact, 0)) \in Nat
        BY <2>3, ModelTyped, ShardsFinite DEF StoreInv, Shards
      <3> QED
        BY <2>1, <2>5, <3>1, <3>2 DEF Counted
    <2> QED
      BY <2>1, <2>3, <2>4, <2>5, <2>6
         DEF StoreInv, Beginning, NothingBack, Met, VerifiedWasAvailable, Untouched, Verifying, None
  <1> QED
    BY <1>2, <1>3

-----------------------------------------------------------------------------
(* The verifier and those who change the store under it *)

\* What one read yields of a shard nobody put back.
LEMMA ReadIntact ==
    ASSUME StoreInv, phase \in Verifying, ~history.restored,
           NEW i \in Shards, NEW seen \in Reads(i), seen = i
    PROVE  i \in history.intact
  <1>1. i \in Nat
    BY ModelTyped DEF StoreInv, Shards
  <1>2. store[i] = i
    BY <1>1 DEF Reads, Absent
  <1> QED
    BY <1>2 DEF StoreInv, NothingBack, Intact

LEMMA NoticedKeeps ==
    ASSUME StoreTypeOK, NEW i, NEW seen, Noticed(i, seen)
    PROVE  /\ history' \in [intact : SUBSET Shards, restored : BOOLEAN, meddled : Nat]
           /\ history'.intact = history.intact /\ history'.restored = history.restored
  BY DEF Noticed, StoreTypeOK

LEMMA CountShardInv ==
    ASSUME StoreInv, CountShard
    PROVE  StoreInv'
  <1>1. PICK seen \in Reads(cursor) :
           /\ Noticed(cursor, seen)
           /\ tally' = [tally EXCEPT !.total = @ + (IF seen = cursor THEN 1 ELSE 0)]
    BY DEF CountShard
  <1>2. /\ UNCHANGED <<model, Shards, store, Intact, sample, served, status>>
        /\ phase = "counting" /\ phase' \in Verifying /\ cursor \in Shards
        /\ model.total \in Nat /\ cursor \in Nat
    BY ModelTyped DEF CountShard, Shards, Intact, Verifying, StoreInv, Counted
  <1>3. /\ history' \in [intact : SUBSET Shards, restored : BOOLEAN, meddled : Nat]
        /\ history'.intact = history.intact /\ history'.restored = history.restored
    BY <1>1, NoticedKeeps DEF StoreInv
  <1>4. /\ DOMAIN tally' = {"total", "verified", "missing", "corrupt"} /\ tally'.total \in Nat
        /\ tally'.total = tally.total + (IF seen = cursor THEN 1 ELSE 0)
    BY <1>1 DEF StoreInv, StoreTypeOK
  <1>5. cursor' \in Nat /\ (phase' = "checking" => cursor' = 1)
        /\ (phase' = "counting" => cursor' = cursor + 1 /\ cursor + 1 # model.total)
        /\ (phase' = "checking" => cursor + 1 = model.total)
    BY <1>2 DEF CountShard
  <1>6. StoreTypeOK'
    BY <1>2, <1>3, <1>4, <1>5 DEF StoreInv, StoreTypeOK, Verifying
  <1>7. history.intact \in SUBSET (0..(model.total - 1))
    BY DEF StoreInv, StoreTypeOK, Shards
  <1>8. ~history.restored => tally'.total <= Cardinality(Below(history.intact, cursor + 1))
    <2> SUFFICES ASSUME ~history.restored
                 PROVE  tally'.total <= Cardinality(Below(history.intact, cursor + 1))
      OBVIOUS
    <2>1. /\ tally.total <= Cardinality(Below(history.intact, cursor)) /\ tally.total \in Nat
          /\ Cardinality(Below(history.intact, cursor)) \in Nat
      BY <1>2, <1>7, ShardsFinite DEF StoreInv, StoreTypeOK, Counted
    <2>2. CASE cursor \in history.intact
      <3>1. Cardinality(Below(history.intact, cursor + 1))
              = Cardinality(Below(history.intact, cursor)) + 1
        BY <1>2, <1>7, <2>2, CountOneMore
      <3> QED
        BY <1>4, <2>1, <3>1
    <2>3. CASE cursor \notin history.intact
      <3>1. seen # cursor
        BY <1>1, <1>2, <2>3, ReadIntact DEF Verifying
      <3>2. Below(history.intact, cursor + 1) = Below(history.intact, cursor)
        BY <1>2, <1>7, <2>3, CountNoneMore
      <3> QED
        BY <1>4, <2>1, <3>1, <3>2
    <2> QED
      BY <2>2, <2>3
  <1>9. phase' = "checking" => Below(history.intact, cursor + 1) = history.intact
    BY <1>2, <1>5, <1>7 DEF Below
  <1>10. Counted'
    <2>1. phase' = "counting" => cursor' \in Shards'
      BY <1>2, <1>5 DEF Shards
    <2> QED
      BY <1>3, <1>5, <1>8, <1>9, <2>1 DEF Counted
  <1>11. Met'
    <2>1. phase' = "checking" => \A i \in DOMAIN sample' : ~(i < cursor')
      <3>1. phase \in Verifying /\ sample \in Seq(Shards)
        BY <1>2 DEF StoreInv, StoreTypeOK, Verifying
      <3>2. \A i \in DOMAIN sample : i \in Nat /\ i >= 1
        BY <3>1
      <3> QED
        BY <1>2, <1>5, <3>2
    <2> QED
      BY <2>1 DEF Met
  <1> QED
    BY <1>2, <1>3, <1>6, <1>10, <1>11
       DEF StoreInv, Beginning, NothingBack, VerifiedWasAvailable, Untouched, Verifying, None

LEMMA CheckSampleInv ==
    ASSUME StoreInv, CheckSample
    PROVE  StoreInv'
  <1>1. /\ UNCHANGED <<model, Shards, phase, store, Intact, sample, served, status>>
        /\ phase = "checking" /\ cursor' = cursor + 1 /\ cursor \in Nat
        /\ sample \in Seq(Shards) /\ cursor <= Len(sample)
    BY DEF CheckSample, Shards, Intact, StoreInv, StoreTypeOK, Verifying
  <1> DEFINE i == sample[cursor]
  <1>2. \/ i \notin served /\ UNCHANGED <<tally, history>>
        \/ \E seen \in Reads(i) : Noticed(i, seen) /\ tally' = Checked(i, seen)
    BY DEF CheckSample
  <1>3. /\ history' \in [intact : SUBSET Shards, restored : BOOLEAN, meddled : Nat]
        /\ history'.intact = history.intact /\ history'.restored = history.restored
    BY <1>2, NoticedKeeps DEF StoreInv, StoreTypeOK
  <1>4. /\ DOMAIN tally' = {"total", "verified", "missing", "corrupt"}
        /\ tally'.total = tally.total /\ tally'.total \in Nat
        /\ tally'.missing = {} => tally.missing = {}
        /\ tally'.corrupt = {} => tally.corrupt = {}
    BY <1>2 DEF Checked, StoreInv, StoreTypeOK
  <1>5. StoreTypeOK'
    BY <1>1, <1>3, <1>4 DEF StoreInv, StoreTypeOK
  <1>6. Counted'
    BY <1>1, <1>3, <1>4 DEF StoreInv, Counted
  <1>7. Met'
    <2> SUFFICES ASSUME ~history.restored, tally'.missing = {}, tally'.corrupt = {},
                        NEW j \in DOMAIN sample, j < cursor + 1, sample[j] \in served
                 PROVE  sample[j] \in history.intact
      BY <1>1, <1>3 DEF Met
    <2>1. j \in Nat /\ sample[j] \in Shards
      BY <1>1
    <2>2. CASE j < cursor
      BY <1>1, <1>4, <2>2 DEF StoreInv, Met
    <2>3. CASE j = cursor
      <3>1. PICK seen \in Reads(i) : Noticed(i, seen) /\ tally' = Checked(i, seen)
        BY <1>2, <2>3
      <3>2. seen = i
        BY <3>1 DEF Checked, StoreInv, StoreTypeOK
      <3> QED
        BY <1>1, <2>1, <2>3, <3>1, <3>2, ReadIntact DEF Verifying
    <2> QED
      BY <1>1, <2>1, <2>2, <2>3
  <1> QED
    BY <1>1, <1>3, <1>5, <1>6, <1>7
       DEF StoreInv, Beginning, NothingBack, VerifiedWasAvailable, Untouched, Verifying, None

\* The verdict is the only step that can say VERIFIED.
LEMMA ConcludeInv ==
    ASSUME StoreInv, Conclude
    PROVE  StoreInv'
  <1>1. /\ UNCHANGED <<model, Shards, store, sample, served, cursor, tally, history>>
        /\ phase = "checking" /\ phase' \in {"raised", "concluded"}
        /\ sample \in Seq(Shards) /\ cursor > Len(sample) /\ cursor \in Nat
    BY DEF Conclude, Shards, StoreInv, StoreTypeOK, Verifying
  <1>2. StoreTypeOK'
    BY <1>1 DEF StoreInv, StoreTypeOK, Verifying
  <1>3. VerifiedWasAvailable'
    <2> SUFFICES ASSUME status' = "VERIFIED", ~history.restored
                 PROVE  /\ Cardinality(history.intact) >= model.threshold
                        /\ \A i \in DOMAIN sample :
                               sample[i] \in served => sample[i] \in history.intact
      BY <1>1 DEF VerifiedWasAvailable
    <2>1. status = None
      BY <1>1 DEF StoreInv, Beginning, Verifying
    <2>2. Verdict = "VERIFIED"
      BY <2>1 DEF Conclude, None
    <2>3. tally.corrupt = {} /\ tally.missing = {} /\ ~(tally.total < model.threshold)
      BY <2>2 DEF Verdict
    <2>4. \A i \in DOMAIN sample : i < cursor
      BY <1>1
    <2>5. history.intact \in SUBSET (0..(model.total - 1)) /\ model.total \in Nat
          /\ model.threshold \in Nat /\ tally.total \in Nat
      BY ModelTyped DEF StoreInv, StoreTypeOK, Shards
    <2>6. Cardinality(history.intact) \in Nat
      BY <2>5, ShardsFinite
    <2> QED
      BY <1>1, <2>3, <2>4, <2>5, <2>6 DEF StoreInv, Counted, Met
  <1> QED
    BY <1>1, <1>2, <1>3 DEF StoreInv, Beginning, NothingBack, Counted, Met, Untouched, Verifying

\* Deleting and spoiling files adds nothing intact; restoring one is remembered.
LEMMA MeddleInv ==
    ASSUME StoreInv, Meddle
    PROVE  StoreInv'
  <1>0. PICK i \in Shards : \E file \in {Absent, Junk, i} :
           /\ store' = [store EXCEPT ![i] = file]
           /\ history' = [history EXCEPT !.meddled = @ + 1, !.restored = @ \/ file = i]
    BY DEF Meddle
  <1>1. PICK file \in {Absent, Junk, i} :
           /\ store' = [store EXCEPT ![i] = file]
           /\ history' = [history EXCEPT !.meddled = @ + 1, !.restored = @ \/ file = i]
    BY <1>0
  <1>2. /\ UNCHANGED <<model, Shards, phase, sample, served, cursor, tally, status>>
        /\ phase \in Verifying
    BY DEF Meddle, Shards, Verifying
  <1>3. /\ history' \in [intact : SUBSET Shards, restored : BOOLEAN, meddled : Nat]
        /\ history'.intact = history.intact
        /\ ~history'.restored => (~history.restored /\ file # i)
    <2>1. history'.restored = (history.restored \/ file = i)
      BY <1>1, Zenon DEF StoreInv, StoreTypeOK
    <2>2. DOMAIN history' = {"intact", "restored", "meddled"}
          /\ history'.intact = history.intact /\ history'.meddled \in Nat
      BY <1>1 DEF StoreInv, StoreTypeOK
    <2>3. history' = [intact |-> history.intact, restored |-> history'.restored,
                      meddled |-> history'.meddled]
      BY <1>1, <2>2 DEF StoreInv, StoreTypeOK
    <2>4. history'.restored \in BOOLEAN /\ history.intact \in SUBSET Shards
      BY <2>1 DEF StoreInv, StoreTypeOK
    <2>5. ~history'.restored => (~history.restored /\ file # i)
      BY <2>1
    <2> HIDE <2>1
    <2> QED
      BY <2>2, <2>3, <2>4, <2>5
  <1>4. StoreTypeOK'
    BY <1>1, <1>2, <1>3 DEF StoreInv, StoreTypeOK
  <1>5. NothingBack'
    BY <1>1, <1>2, <1>3 DEF StoreInv, StoreTypeOK, NothingBack, Intact
  <1> QED
    BY <1>2, <1>3, <1>4, <1>5
       DEF StoreInv, Beginning, Counted, Met, VerifiedWasAvailable, Untouched, Verifying, None

LEMMA StoreNextInv == StoreInv /\ [StoreNext]_storeVars => StoreInv'
  <1> SUFFICES ASSUME StoreInv, [StoreNext]_storeVars PROVE StoreInv'
    OBVIOUS
  <1>1. CASE UNCHANGED storeVars
    BY <1>1 DEF storeVars, Shards, Intact, StoreInv, StoreTypeOK, Beginning, NothingBack, Counted, Met,
                VerifiedWasAvailable
  <1> QED
    BY <1>1, InitializeInv, IssueInv, DamageInv, CountShardInv, CheckSampleInv, ConcludeInv,
       MeddleInv DEF StoreNext

\* VERIFIED means that enough shards, and every sample that was served, were intact
\* when the verification began, for every layout and every order in which files
\* are deleted or spoiled while it reads (LocalAvailabilityStore.verify_reconstruction).
THEOREM VerifiedIsAvailable == StoreSpec => []VerifiedWasAvailable
  BY StoreInitInv, StoreNextInv, PTL DEF StoreSpec, StoreInv

-----------------------------------------------------------------------------
(* E4Bundle *)

Bundles == [snapshot : Contents, files : Contents, manifest : Contents \X Contents]

BundleTypeOK ==
    /\ target \in Vacant \cup Bundles
    /\ edits \in Nat
    /\ executor \in [Executors -> [at : {"idle", "building", "built", "removed", "done", "failed", "killed"},
                                   config : Configs, existed : BOOLEAN]]

ReplayInv ==
    /\ replay.at \in {"validated", "receipt"} => replay.seen \in Bundles /\ ValidManifest(replay.seen)
    /\ replay.at = "receipt" => \E c \in Configs : Produced(c).manifest = replay.seen.manifest

BundleInv == BundleTypeOK /\ ReplayInv

LEMMA ProducedBundle ==
    ASSUME NEW c \in Configs
    PROVE  Produced(c) \in Bundles
  BY DEF Produced, Bundles, Contents

\* A bundle is none of the entries an executor may write over.
LEMMA BundleNotVacant ==
    ASSUME NEW b \in Bundles
    PROVE  b \notin Vacant
  <1>1. b.snapshot \in Contents /\ DOMAIN b = {"snapshot", "files", "manifest"}
    BY DEF Bundles
  <1>2. DOMAIN NoDirectory = {"entry"} /\ DOMAIN Empty = {"entry"}
    BY DEF NoDirectory, Empty
  <1> QED
    BY <1>1, <1>2 DEF Vacant

LEMMA BundleInitInv == BundleInit => BundleInv
  <1> SUFFICES ASSUME BundleInit PROVE BundleInv
    OBVIOUS
  <1>1. executor \in [Executors -> [at : {"idle", "building", "built", "removed", "done", "failed", "killed"},
                                     config : Configs, existed : BOOLEAN]]
    BY DEF BundleInit
  <1>2. ReplayInv
    BY DEF BundleInit, ReplayInv
  <1> QED
    BY <1>1, <1>2 DEF BundleInit, BundleInv, BundleTypeOK

\* A step of an executor moves it along and leaves the replay and the edits alone.
LEMMA ExecutorStep ==
    ASSUME BundleInv, NEW e \in Executors,
           CheckRoot(e) \/ Build(e) \/ RemoveRoot(e) \/ Promote(e) \/ Kill(e)
    PROVE  BundleInv' /\ (target \notin Vacant => target' = target)
  <1> USE DEF BundleInv, BundleTypeOK
  <1>1. UNCHANGED <<replay, edits>>
    BY DEF CheckRoot, Build, RemoveRoot, Promote, Kill
  <1>2. ReplayInv'
    BY <1>1 DEF ReplayInv, ValidManifest, Produced
  <1>3. target' = target \/ (target \in Vacant /\ target' \in {NoDirectory, Produced(executor[e].config)})
    BY DEF CheckRoot, Build, RemoveRoot, Promote, Kill, Removable, Vacant
  <1>4. target' \in Vacant \cup Bundles
    BY <1>3, ProducedBundle DEF Vacant
  <1>5. executor' \in [Executors -> [at : {"idle", "building", "built", "removed", "done", "failed", "killed"},
                                     config : Configs, existed : BOOLEAN]]
    BY DEF CheckRoot, Build, RemoveRoot, Promote, Kill, Goes, Abandoned
  <1> QED
    BY <1>1, <1>2, <1>3, <1>4, <1>5

LEMMA EditStep ==
    ASSUME BundleInv, Edit
    PROVE  BundleInv' /\ edits' # edits
  <1> USE DEF BundleInv, BundleTypeOK
  <1>1. target \in Bundles
    BY DEF Edit
  <1>2. PICK c \in Contents :
           \/ target' = [target EXCEPT !.snapshot = c]
           \/ target' = [target EXCEPT !.files = c]
           \/ target' = [target EXCEPT !.manifest = <<target.snapshot, target.files>>]
    BY DEF Edit
  <1>3. target' \in Bundles
    BY <1>1, <1>2 DEF Bundles
  <1>4. UNCHANGED <<executor, replay>> /\ edits' = edits + 1
    BY DEF Edit
  <1>5. ReplayInv'
    BY <1>4 DEF ReplayInv, ValidManifest, Produced
  <1> QED
    BY <1>3, <1>4, <1>5

LEMMA ReplayStep ==
    ASSUME BundleInv, Validate \/ Reproduce
    PROVE  BundleInv' /\ target' = target
  <1> USE DEF BundleInv, BundleTypeOK
  <1>1. UNCHANGED <<target, executor, edits>>
    BY DEF Validate, Reproduce
  <1>2. CASE Validate
    BY <1>1, <1>2 DEF Validate, ReplayInv, ValidManifest
  <1>3. CASE Reproduce
    <2>1. replay.seen \in Bundles /\ ValidManifest(replay.seen)
      BY <1>3 DEF Reproduce, ReplayInv
    <2>2. replay'.at = "receipt" =>
             target.snapshot \in Configs /\ Produced(target.snapshot).manifest = replay.seen.manifest
      BY <1>3 DEF Reproduce, Reproduced
    <2>3. replay'.seen = replay.seen /\ ValidManifest(replay.seen)'
      BY <1>3, <2>1 DEF Reproduce, ValidManifest
    <2> QED
      BY <1>1, <2>1, <2>2, <2>3 DEF ReplayInv, Produced
  <1> QED
    BY <1>2, <1>3

LEMMA BundleNextInv == BundleInv /\ [BundleNext]_bundleVars => BundleInv'
  <1> SUFFICES ASSUME BundleInv, [BundleNext]_bundleVars PROVE BundleInv'
    OBVIOUS
  <1>1. CASE UNCHANGED bundleVars
    BY <1>1 DEF bundleVars, BundleInv, BundleTypeOK, ReplayInv, ValidManifest, Produced
  <1>2. CASE BundleNext
    BY <1>2, ExecutorStep, EditStep, ReplayStep DEF BundleNext
  <1> QED
    BY <1>1, <1>2

\* A bundle that was put in place is only ever changed by an edit, whichever
\* executors start, fail, are killed or lose the race for the root.
THEOREM BundlesStay == BundleSpec => BundleStays
  <1> DEFINE A == (target \notin Vacant /\ edits' = edits) => target' = target
  <1>1. BundleInv /\ [BundleNext]_bundleVars => [A]_bundleVars
    BY ExecutorStep, EditStep, ReplayStep DEF BundleNext
  <1> QED
    BY BundleInitInv, BundleNextInv, <1>1, PTL DEF BundleSpec, BundleStays

\* A replay receipt is only given for a bundle its configuration produces, for any
\* edits before, between and after the two readings.
THEOREM ReceiptsAreReproducible == BundleSpec => []ReceiptIsReproducible
  <1>1. BundleInv => ReceiptIsReproducible
    <2> SUFFICES ASSUME BundleInv, replay.at = "receipt"
                 PROVE  \E c \in Configs : replay.seen = Produced(c)
      BY DEF ReceiptIsReproducible
    <2>1. replay.seen \in Bundles /\ replay.seen.manifest = <<replay.seen.snapshot, replay.seen.files>>
      BY DEF BundleInv, ReplayInv, ValidManifest
    <2>2. PICK c \in Configs : <<c, c>> = replay.seen.manifest
      BY DEF BundleInv, ReplayInv, Produced
    <2>3. replay.seen = [snapshot |-> c, files |-> c, manifest |-> <<c, c>>]
      BY <2>1, <2>2 DEF Bundles
    <2> QED
      BY <2>3 DEF Produced
  <1> QED
    BY BundleInitInv, BundleNextInv, <1>1, PTL DEF BundleSpec

-----------------------------------------------------------------------------
(* TamperEvaluation *)

\* What a surface can show: a committed value, mutated in places, or an
\* unsupported kernel.
Values == Seq(Requests \cup Places \cup {"shared", "unsupported"})

Evidenced(b) ==
    /\ b = [request |-> b.request, receipt |-> b.receipt, shown |-> b.shown]
    /\ b.request \in Requests
    /\ b.shown \in [Surfaces -> Values]

Replayable(m) ==
    /\ m = [family |-> m.family, seed |-> m.seed, of |-> m.of, peer |-> m.peer,
            original |-> m.original, attacked |-> m.attacked]
    /\ m.family \in AttackFamily
    /\ SeedSensitive(m.family) => m.peer = NoPeer

IsControl(row) == \E b : Evidenced(b) /\ row = Control(b)

IsAttack(row) ==
    \E b, m, validation : \E accepted \in BOOLEAN :
        /\ Evidenced(b) /\ Replayable(m) /\ Binds(b, m)
        /\ row = AttackRow(b, m, accepted, validation)

TamperInv ==
    /\ \A b \in bundles : Evidenced(b)
    /\ \A m \in manifests : Replayable(m)
    /\ IsFiniteSet(rows) /\ \A row \in rows : IsControl(row) \/ IsAttack(row)
    /\ TamperClaimEarned

LEMMA TargetSurfaces ==
    /\ \A f \in AttackFamily : Target[f] \subseteq Surfaces
    /\ "response" \in Surfaces /\ "nullifier" \in Surfaces
    /\ "REPLAY_NULLIFIER" \in AttackFamily /\ Unset \notin AttackFamily
  <1>1. \A f \in AttackFamily : Target[f] \subseteq Surfaces
    BY Zenon DEF Surfaces
  <1>2. {"CROSS_REQUEST_SPLICE", "REPLAY_NULLIFIER"} \subseteq AttackFamily /\ Unset \notin AttackFamily
    BY DEF AttackFamily, Target, Unset
  <1>3. Target["CROSS_REQUEST_SPLICE"] = {"response", "trace"} /\ Target["REPLAY_NULLIFIER"] = {"nullifier"}
    BY DEF Target
  <1> QED
    BY <1>1, <1>2, <1>3

LEMMA CommittedValues ==
    ASSUME NEW r \in Requests
    PROVE  Committed(r) \in [Surfaces -> Values]
  <1>1. <<"shared">> \in Values /\ <<r>> \in Values
    BY DEF Values
  <1> QED
    BY <1>1 DEF Committed

LEMMA TamperInitInv == TamperInit => TamperInv
  <1> SUFFICES ASSUME TamperInit PROVE TamperInv
    OBVIOUS
  <1>1. \A b \in bundles : Evidenced(b)
    BY CommittedValues DEF TamperInit, Evidenced
  <1>2. IsFiniteSet(rows) /\ rows = {} /\ manifests = {}
    BY FS_EmptySet DEF TamperInit
  <1>3. TamperClaimEarned
    BY DEF TamperInit, TamperClaimEarned, Unset
  <1> QED
    BY <1>1, <1>2, <1>3 DEF TamperInv

LEMMA ApplyAttackInv ==
    ASSUME TamperInv, NEW b \in bundles, NEW peer \in bundles, NEW family \in Families,
           NEW seed \in Seeds, NEW place \in Places, ApplyAttack(b, family, seed, place, peer)
    PROVE  TamperInv'
  <1> DEFINE attacked == [b EXCEPT !.shown = Overlay(Altered(b, family, place, peer), b.shown)]
             m == [family |-> family, seed |-> seed, of |-> b.request,
                   peer |-> IF family \in Paired THEN peer.receipt ELSE NoPeer,
                   original |-> Shown(b, family), attacked |-> Shown(attacked, family)]
  <1>1. /\ manifests' = manifests \cup {m} /\ bundles' = bundles \cup {attacked}
        /\ UNCHANGED <<rows, summary>>
    BY DEF ApplyAttack
  <1>2. family \in AttackFamily /\ Evidenced(b) /\ Evidenced(peer)
    BY TamperAssumption DEF TamperInv
  <1>3. \A s \in Target[family] : s \in Surfaces /\ b.shown[s] \in Values /\ peer.shown[s] \in Values
    BY <1>2, TargetSurfaces DEF Evidenced
  <1>4. \A s \in Target[family] : Append(b.shown[s], place) \in Values
    BY <1>3 DEF Values
  <1>5. <<"unsupported">> \in Values
    BY DEF Values
  <1> DEFINE Fits == \A s \in DOMAIN Altered(b, family, place, peer) : Altered(b, family, place, peer)[s] \in Values
  <1>6. Fits
    <2>1. CASE family \in Paired
      <3>1. Altered(b, family, place, peer) = [s \in Target[family] |-> peer.shown[s]]
        BY <2>1 DEF Altered, Paired
      <3> QED
        BY <3>1, <1>3
    <2>2. CASE family = "UNSUPPORTED_KERNEL"
      BY <2>2, <1>5 DEF Altered, Paired
    <2>3. CASE family = "RESPONSE_BINDING_MISMATCH"
      <3>1. Target[family] = {"response", "trace"}
        BY <2>3 DEF Target
      <3> QED
        BY <2>3, <3>1, <1>4 DEF Altered, Paired
    <2>4. CASE ~(family \in Paired) /\ family # "UNSUPPORTED_KERNEL" /\ family # "RESPONSE_BINDING_MISMATCH"
      BY <2>4, <1>4 DEF Altered
    <2> HIDE DEF Fits
    <2> QED
      BY <2>1, <2>2, <2>3, <2>4, Zenon
  <1>7. Evidenced(attacked)
    <2>1. Overlay(Altered(b, family, place, peer), b.shown) \in [Surfaces -> Values]
      BY <1>2, <1>6 DEF Overlay, Evidenced
    <2>2. /\ attacked = [request |-> b.request, receipt |-> b.receipt,
                         shown |-> Overlay(Altered(b, family, place, peer), b.shown)]
      BY <1>2 DEF Evidenced
    <2> QED
      BY <1>2, <2>1, <2>2 DEF Evidenced
  <1>8. Replayable(m)
    BY <1>2 DEF Replayable, SeedSensitive
  <1>9. TamperClaimEarned'
    BY <1>1 DEF TamperInv, TamperClaimEarned, Denominator, Attacks, Shown, Committed
  <1> HIDE DEF m, attacked
  <1> QED
    BY <1>1, <1>7, <1>8, <1>9 DEF TamperInv, IsControl, IsAttack

\* Evaluating adds one row, of one of the two kinds.
LEMMA EvaluateInv ==
    ASSUME TamperInv, EvaluateReceipt
    PROVE  TamperInv'
  <1>1. UNCHANGED <<bundles, manifests, summary>>
    BY DEF EvaluateReceipt
  <1>2. PICK row : (IsControl(row) \/ IsAttack(row)) /\ rows' = rows \cup {row}
    <2>1. PICK b \in bundles :
             \/ rows' = rows \cup {Control(b)}
             \/ \E m \in manifests, receipt \in {b.receipt, Append(b.receipt, "attack")}, known \in Contexts :
                   /\ Binds(b, m)
                   /\ \E accepted \in AuditOutcomes(b, m.family) :
                         rows' = rows \cup {AttackRow([b EXCEPT !.receipt = receipt], m, accepted,
                                               Validation(b.shown["nullifier"], known))}
      BY DEF EvaluateReceipt
    <2>2. Evidenced(b)
      BY DEF TamperInv
    <2>3. CASE rows' = rows \cup {Control(b)}
      BY <2>2, <2>3 DEF IsControl
    <2>4. CASE rows' # rows \cup {Control(b)}
      <3>1. PICK m \in manifests, receipt \in {b.receipt, Append(b.receipt, "attack")}, known \in Contexts :
               /\ Binds(b, m)
               /\ \E accepted \in AuditOutcomes(b, m.family) :
                     rows' = rows \cup {AttackRow([b EXCEPT !.receipt = receipt], m, accepted,
                                           Validation(b.shown["nullifier"], known))}
        BY <2>1, <2>4
      <3>2. PICK accepted \in AuditOutcomes(b, m.family) :
               rows' = rows \cup {AttackRow([b EXCEPT !.receipt = receipt], m, accepted,
                                     Validation(b.shown["nullifier"], known))}
        BY <3>1
      <3>3. accepted \in BOOLEAN
        BY DEF AuditOutcomes
      <3> DEFINE own == [b EXCEPT !.receipt = receipt]
      <3>4. own = [request |-> b.request, receipt |-> receipt, shown |-> b.shown]
        BY <2>2 DEF Evidenced
      <3>5. Evidenced(own)
        BY <2>2, <3>4 DEF Evidenced
      <3>6. Binds(own, m)
        BY <3>1, <3>4 DEF Binds, CommittedTarget, Shown
      <3>7. Replayable(m)
        BY DEF TamperInv
      <3> HIDE DEF own
      <3>8. IsAttack(AttackRow(own, m, accepted, Validation(b.shown["nullifier"], known)))
        BY <3>3, <3>5, <3>6, <3>7 DEF IsAttack
      <3> QED
        BY <3>2, <3>8 DEF own
    <2> QED
      BY <2>3, <2>4
  <1>3. IsFiniteSet(rows)' /\ \A r \in rows' : IsControl(r) \/ IsAttack(r)
    BY <1>2, FS_AddElement DEF TamperInv
  <1>4. TamperClaimEarned'
    BY <1>1 DEF TamperInv, TamperClaimEarned, Denominator, Attacks, Shown, Committed
  <1> QED
    BY <1>1, <1>3, <1>4 DEF TamperInv, IsControl, IsAttack

\* What a row says of its evidence; the judgement of a replay by the context given.
LEMMA ControlRow ==
    ASSUME NEW row, IsControl(row)
    PROVE  /\ row.family = Unset
           /\ ~row.falsePositive =>
                 row.bundle.shown["response"] = Committed(row.bundle.request)["response"]
  <1>1. PICK b : row = Control(b)
    BY DEF IsControl
  <1>2. row.family = Unset /\ row.bundle = b
        /\ row.falsePositive = (b.shown["response"] # Committed(b.request)["response"])
    BY <1>1 DEF Control
  <1> QED
    BY <1>2

LEMMA AttackRowFacts ==
    ASSUME NEW row, IsAttack(row)
    PROVE  /\ row.family \in AttackFamily /\ row.family = row.manifest.family
           /\ Evidenced(row.bundle) /\ Replayable(row.manifest) /\ Binds(row.bundle, row.manifest)
           /\ row.accepted \in BOOLEAN
           /\ row.family # "REPLAY_NULLIFIER" => (row.detected => ~row.accepted)
  <1>1. PICK b, m, validation : \E accepted \in BOOLEAN :
            /\ Evidenced(b) /\ Replayable(m) /\ Binds(b, m)
            /\ row = AttackRow(b, m, accepted, validation)
    BY DEF IsAttack
  <1>2. PICK accepted \in BOOLEAN : row = AttackRow(b, m, accepted, validation)
    BY <1>1
  <1>3. /\ row.family = m.family /\ row.bundle = b /\ row.manifest = m /\ row.accepted = accepted
        /\ row.detected = (/\ AnalysisSurface(m.family) # "UNSUPPORTED"
                           /\ Detected(m.family, accepted, validation))
    BY <1>2 DEF AttackRow
  <1>4. row.family # "REPLAY_NULLIFIER" => (row.detected => ~row.accepted)
    BY <1>3 DEF Detected
  <1> QED
    BY <1>1, <1>3, <1>4 DEF Replayable

\* Judging a replay again keeps its evidence and takes the caller's context.
LEMMA NormalizedRow ==
    ASSUME NEW row, NEW known, IsControl(row) \/ IsAttack(row)
    PROVE  LET judged == Normalized(row, known)
           IN  /\ IsControl(judged) \/ IsAttack(judged)
               /\ judged.family = "REPLAY_NULLIFIER" /\ judged.detected =>
                     judged.bundle.shown["nullifier"] \in UNION known
  <1> DEFINE judged == Normalized(row, known)
  <1>1. CASE row.family # "REPLAY_NULLIFIER"
    <2>1. judged = row
      BY <1>1 DEF Normalized
    <2> HIDE DEF judged
    <2> QED
      BY <1>1, <2>1 DEF judged
  <1>2. CASE row.family = "REPLAY_NULLIFIER"
    <2>1. IsAttack(row)
      BY <1>2, ControlRow, TargetSurfaces
    <2>2. /\ Evidenced(row.bundle) /\ Replayable(row.manifest) /\ Binds(row.bundle, row.manifest)
          /\ row.accepted \in BOOLEAN /\ row.manifest.family = "REPLAY_NULLIFIER"
      BY <2>1, <1>2, AttackRowFacts
    <2> DEFINE verdict == Validation(row.bundle.shown["nullifier"], known)
    <2>3. judged = AttackRow(row.bundle, row.manifest, row.accepted, verdict)
      BY <1>2 DEF Normalized
    <2>4. judged.bundle = row.bundle
          /\ judged.detected = (/\ AnalysisSurface(row.manifest.family) # "UNSUPPORTED"
                                /\ Detected(row.manifest.family, row.accepted, verdict))
      BY <2>3 DEF AttackRow
    <2>5. judged.detected => verdict = "CONFIRMED_REPLAY"
      BY <2>2, <2>4 DEF Detected
    <2>6. verdict = "CONFIRMED_REPLAY" => row.bundle.shown["nullifier"] \in UNION known
      BY DEF Validation
    <2> HIDE DEF verdict
    <2>7. IsAttack(judged)
      BY <2>2, <2>3 DEF IsAttack
    <2> HIDE DEF judged
    <2> QED
      BY <2>4, <2>5, <2>6, <2>7 DEF judged
  <1> QED
    BY <1>1, <1>2

LEMMA TwoApart ==
    ASSUME NEW S, IsFiniteSet(S), Cardinality(S) >= 2
    PROVE  \E x, y \in S : x # y
  <1> SUFFICES ASSUME \A x, y \in S : x = y PROVE FALSE
    OBVIOUS
  <1>1. PICK x : x \in S
    BY FS_EmptySet
  <1>2. S = {x}
    BY <1>1
  <1> QED
    BY <1>2, FS_Singleton

\* Rows that earn a claim of what a caller knows to be used.
ClaimBacked(counted, known) ==
    /\ \A row \in Denominator(counted) :
          /\ row.bundle.shown # Committed(row.bundle.request)
          /\ IF row.family = "REPLAY_NULLIFIER"
             THEN row.bundle.shown["nullifier"] \in UNION known
             ELSE ~row.accepted
    /\ \E p, q \in Attacks(counted) :
          /\ SeedSensitive(p.family) /\ SeedSensitive(q.family) /\ p.receipt # q.receipt
          /\ <<p.family, p.manifest.seed, p.manifest.original>>
                # <<q.family, q.manifest.seed, q.manifest.original>>
    /\ \A row \in counted \ Attacks(counted) :
          row.bundle.shown["response"] = Committed(row.bundle.request)["response"]

\* A claim is supported by rows that earn it.
LEMMA SupportedIsEarned ==
    ASSUME NEW counted, NEW known, IsFiniteSet(counted),
           \A row \in counted :
              /\ IsControl(row) \/ IsAttack(row)
              /\ row.family = "REPLAY_NULLIFIER" /\ row.detected =>
                    row.bundle.shown["nullifier"] \in UNION known,
           CountedOnce(counted), Disposition(counted) = "SUPPORTED"
    PROVE  ClaimBacked(counted, known)
  <1>1. /\ ~(Cardinality(SeedInstances(counted)) < 2)
        /\ \A row \in Denominator(counted) : row.detected
        /\ \A row \in counted : ~row.falsePositive
    BY DEF Disposition
  <1>2. \A row \in Attacks(counted) : row \in counted /\ IsAttack(row)
    BY ControlRow DEF Attacks
  <1>3. \A row \in counted \ Attacks(counted) : IsControl(row)
    BY AttackRowFacts, TargetSurfaces DEF Attacks
  <1>4. ASSUME NEW row \in Denominator(counted)
        PROVE  /\ row.bundle.shown # Committed(row.bundle.request)
               /\ IF row.family = "REPLAY_NULLIFIER"
                  THEN row.bundle.shown["nullifier"] \in UNION known
                  ELSE ~row.accepted
    <2>1. row \in counted /\ IsAttack(row) /\ row.detected
      BY <1>1, <1>2 DEF Denominator
    <2>2. Binds(row.bundle, row.manifest)
      BY <2>1, AttackRowFacts
    <2>3. row.bundle.shown # Committed(row.bundle.request)
      BY <2>2 DEF Binds, Shown, CommittedTarget
    <2> QED
      BY <2>1, <2>3, AttackRowFacts
  <1> DEFINE sensitive == {a \in Attacks(counted) : SeedSensitive(a.family)}
             Made == {row.manifest : row \in sensitive}
  <1>5. IsFiniteSet(sensitive)
    BY FS_Subset DEF Attacks
  <1>6. IsFiniteSet(Made)
    <2>1. [row \in sensitive |-> row.manifest] \in Surjection(sensitive, Made)
      BY DEF Surjection
    <2> HIDE DEF sensitive, Made
    <2> QED
      BY <1>5, <2>1, FS_Surjection
  <1>7. PICK p \in sensitive, q \in sensitive : p.manifest # q.manifest
    <2>1. Made = SeedInstances(counted)
      BY DEF SeedInstances
    <2>2. Cardinality(Made) >= 2
      <3> HIDE DEF Made
      <3> QED
        BY <1>1, <1>6, <2>1, FS_CardinalityType
    <2>3. \E x, y \in Made : x # y
      <3> HIDE DEF Made
      <3> QED
        BY <1>6, <2>2, TwoApart
    <2> QED
      BY <2>3
  <1>8. /\ p.receipt # q.receipt
        /\ <<p.family, p.manifest.seed, p.manifest.original>>
              # <<q.family, q.manifest.seed, q.manifest.original>>
    <2>1. /\ p.receipt # q.receipt
          /\ <<p.family, p.manifest.seed, p.manifest.original, p.manifest.peer>>
                # <<q.family, q.manifest.seed, q.manifest.original, q.manifest.peer>>
      BY <1>7 DEF CountedOnce, Attacks
    <2>2. p.manifest.peer = NoPeer /\ q.manifest.peer = NoPeer
      BY <1>2, AttackRowFacts DEF Replayable
    <2> QED
      BY <2>1, <2>2
  <1> QED
    BY <1>1, <1>3, <1>4, <1>8, ControlRow DEF ClaimBacked

\* A summary judges every row again and keeps none that is not evidence.
LEMMA SummarizeInv ==
    ASSUME TamperInv, NEW known \in Contexts, SummarizeRows(known)
    PROVE  TamperInv'
  <1> DEFINE judged(row) == Normalized(row, known)
             counted == {judged(row) : row \in rows}
  <1>1. /\ UNCHANGED <<bundles, manifests, rows>> /\ CountedOnce(counted)
        /\ summary' = [disposition |-> Disposition(counted), rows |-> counted, known |-> known]
    BY DEF SummarizeRows
  <1>2. IsFiniteSet(counted)
    <2>1. [row \in rows |-> judged(row)] \in Surjection(rows, counted)
      BY DEF Surjection
    <2> HIDE DEF counted
    <2> QED
      BY <2>1, FS_Surjection DEF TamperInv
  <1>3. \A row \in counted :
           /\ IsControl(row) \/ IsAttack(row)
           /\ row.family = "REPLAY_NULLIFIER" /\ row.detected =>
                 row.bundle.shown["nullifier"] \in UNION known
    <2> TAKE row \in counted
    <2>1. PICK was \in rows : row = Normalized(was, known)
      OBVIOUS
    <2>2. IsControl(was) \/ IsAttack(was)
      BY DEF TamperInv
    <2> HIDE DEF counted, judged
    <2> QED
      BY <2>1, <2>2, NormalizedRow
  <1> HIDE DEF counted, judged
  <1>4. TamperClaimEarned'
    <2> SUFFICES ASSUME Disposition(counted) = "SUPPORTED"
                 PROVE  TamperClaimEarned'
      BY <1>1 DEF TamperClaimEarned
    <2>1. summary'.rows = counted /\ summary'.known = known
      BY <1>1
    <2>2. ClaimBacked(counted, known)
      BY <1>1, <1>2, <1>3, SupportedIsEarned
    <2>3. ClaimBacked(summary'.rows, summary'.known)
      BY <2>1, <2>2
    <2> QED
      BY <2>3 DEF TamperClaimEarned, ClaimBacked, Denominator, Attacks, Committed
  <1> QED
    BY <1>1, <1>4 DEF TamperInv, IsControl, IsAttack

LEMMA TamperNextInv == TamperInv /\ [TamperNext]_tamperVars => TamperInv'
  <1> SUFFICES ASSUME TamperInv, [TamperNext]_tamperVars PROVE TamperInv'
    OBVIOUS
  <1>1. CASE UNCHANGED tamperVars
    BY <1>1 DEF tamperVars, TamperInv, IsControl, IsAttack, TamperClaimEarned, Denominator, Attacks,
                Shown, Committed
  <1>2. CASE TamperNext
    BY <1>2, ApplyAttackInv, EvaluateInv, SummarizeInv DEF TamperNext
  <1> QED
    BY <1>1, <1>2

\* Claim C2 is supported by evidence that earns it, for any requests, seeds, places a
\* mutation hits, attack families, number of rows and nullifiers the caller knows.
THEOREM TamperClaimIsEarned == TamperSpec => []TamperClaimEarned
  <1>1. TamperInv => TamperClaimEarned
    BY DEF TamperInv
  <1> QED
    BY TamperInitInv, TamperNextInv, <1>1, PTL DEF TamperSpec

-----------------------------------------------------------------------------
(* SybilSchedule: totals *)

LEMMA FirstFinite == \A k \in Nat : IsFiniteSet(1..k) /\ Cardinality(1..k) = k
<1> SUFFICES ASSUME NEW k \in Nat PROVE IsFiniteSet(1..k) /\ Cardinality(1..k) = k
    OBVIOUS
<1>1. IsFiniteSet(1..k) /\ Cardinality(1..k) = IF 1 > k THEN 0 ELSE k - 1 + 1
    BY FS_Interval
<1>2. (IF 1 > k THEN 0 ELSE k - 1 + 1) = k
    OBVIOUS
<1> QED
    BY <1>1, <1>2

\* What FoldSeq makes of addition is a sum over the positions.
LEMMA TotalIs == \A s : Total(s) = SumFunctionOnSet(s, DOMAIN s)
  BY DEF Total, FoldSeq, FoldFunction, SumFunctionOnSet

LEMMA TotalIsNat ==
    ASSUME NEW n \in Nat, NEW s \in [1..n -> Nat]
    PROVE  Total(s) \in Nat /\ Total(s) = SumFunctionOnSet(s, 1..n)
<1>1. DOMAIN s = 1..n /\ IsFiniteSet(1..n) /\ \A x \in 1..n : s[x] \in Nat
    BY FirstFinite
<1>2. SumFunctionOnSet(s, 1..n) \in Nat
    BY <1>1, SumIsNat
<1> QED
    BY <1>1, <1>2, TotalIs

LEMMA TotalOfNone ==
    ASSUME NEW n \in Nat, NEW s \in [1..n -> Nat], \A i \in 1..n : s[i] = 0
    PROVE  Total(s) = 0
<1> DEFINE all == 1..n
           zero == 0
           none == {}
<1>1. IsFiniteSet(all) /\ zero \in Nat /\ \A i \in all : s[i] = zero + (IF i \in none THEN 1 ELSE 0)
    BY FirstFinite
<1>2. Cardinality(all) \in Nat /\ Cardinality(all \cap none) = 0
  <2>1. all \cap none = {}
    OBVIOUS
  <2> QED
    BY <2>1, FirstFinite, FS_EmptySet
<1> HIDE DEF all, zero, none
<1>3. SumFunctionOnSet(s, all) = zero * Cardinality(all) + Cardinality(all \cap none)
    BY <1>1, SumOfEvenShares
<1>4. SumFunctionOnSet(s, all) = 0
    BY <1>2, <1>3 DEF zero
<1> QED
    BY <1>4, TotalIsNat DEF all

Credited(s, i, b) == [s EXCEPT ![i] = @ + b]
Grown(next, s, n, b) == next \in [1..n -> Nat] /\ Total(next) = Total(s) + b

LEMMA TotalGrows ==
    ASSUME NEW n \in Nat, NEW s \in [1..n -> Nat], NEW i \in 1..n, NEW b \in Nat
    PROVE  Grown(Credited(s, i, b), s, n, b)
<1> DEFINE t == [s EXCEPT ![i] = @ + b]
           rest == (1..n) \ {i}
<1>1. t \in [1..n -> Nat] /\ t[i] = s[i] + b /\ \A k \in rest : t[k] = s[k]
    OBVIOUS
<1>2. IsFiniteSet(rest) /\ i \notin rest /\ rest \cup {i} = 1..n
  <2>1. IsFiniteSet(rest)
    <3>1. IsFiniteSet(1..n)
      BY FirstFinite
    <3> QED
      BY <3>1, FS_Subset
  <2> QED
    BY <2>1
<1> HIDE DEF t, rest
<1>3. SumFunctionOnSet(t, rest) = SumFunctionOnSet(s, rest)
    BY <1>1, <1>2, SumAgrees
<1>4. SumFunctionOnSet(s, rest) \in Int
  <2>1. \A k \in rest : s[k] \in Int
    BY <1>2
  <2> QED
    BY <1>2, <2>1, SumIsInt
<1>5. SumFunctionOnSet(s, 1..n) = SumFunctionOnSet(s, rest) + s[i]
  <2>1. \A k \in rest \cup {i} : s[k] \in Int
    BY <1>2
  <2>2. SumFunctionOnSet(s, rest \cup {i}) = SumFunctionOnSet(s, rest) + s[i]
    BY <1>2, <2>1, SumOfOneMore
  <2> QED
    BY <1>2, <2>2
<1>6. SumFunctionOnSet(t, 1..n) = SumFunctionOnSet(t, rest) + t[i]
  <2>1. \A k \in rest \cup {i} : t[k] \in Int
    BY <1>1, <1>2
  <2>2. SumFunctionOnSet(t, rest \cup {i}) = SumFunctionOnSet(t, rest) + t[i]
    BY <1>2, <2>1, SumOfOneMore
  <2> QED
    BY <1>2, <2>2
<1>7. Total(t) = SumFunctionOnSet(t, 1..n) /\ Total(s) = SumFunctionOnSet(s, 1..n)
    BY <1>1, TotalIsNat
<1>8. Total(t) = Total(s) + b
    BY <1>1, <1>3, <1>4, <1>5, <1>6, <1>7
<1> QED
    BY <1>1, <1>8 DEF Grown, Credited, t

\* The sum of the first k.
UpTo(f, k) == SumFunctionOnSet(f, 1..k)

LEMMA UpToGrows ==
    ASSUME NEW n \in Nat, NEW f \in [1..n -> Nat]
    PROVE  /\ UpTo(f, 0) = 0
           /\ \A k \in 0..n : UpTo(f, k) \in Nat
           /\ \A k \in 0..n : k < n => UpTo(f, k + 1) = UpTo(f, k) + f[k + 1]
<1>1. UpTo(f, 0) = 0
  <2>1. 1..0 = {}
    OBVIOUS
  <2> QED
    BY <2>1, SumOfNone DEF UpTo
<1>2. ASSUME NEW k \in 0..n PROVE UpTo(f, k) \in Nat
  <2>0. k \in Nat /\ 1..k \subseteq 1..n
    OBVIOUS
  <2>1. IsFiniteSet(1..k) /\ \A x \in 1..k : f[x] \in Nat
    BY <2>0, FirstFinite
  <2> QED
    BY <2>1, SumIsNat DEF UpTo
<1>3. ASSUME NEW k \in 0..n, k < n PROVE UpTo(f, k + 1) = UpTo(f, k) + f[k + 1]
  <2> DEFINE first == 1..k
             x == k + 1
  <2>0. IsFiniteSet(first)
    BY FirstFinite
  <2>1. x \notin first /\ 1..x = first \cup {x}
    OBVIOUS
  <2>2. \A y \in first \cup {x} : f[y] \in Int
    BY <1>3
  <2> HIDE DEF first, x
  <2>3. SumFunctionOnSet(f, first \cup {x}) = SumFunctionOnSet(f, first) + f[x]
    BY <2>0, <2>1, <2>2, SumOfOneMore
  <2> QED
    BY <2>1, <2>3 DEF UpTo, first, x
<1> QED
    BY <1>1, <1>2, <1>3

\* What the l places after the a-th add up to.
Slice(f, a, l) == Total(SubSeq(f, a + 1, a + l))

\* A slice adds up to the difference of what its ends reach.
LEMMA SliceTotal ==
    ASSUME NEW n \in Nat, NEW f \in [1..n -> Nat], NEW a \in Nat, NEW l \in Nat, a + l <= n
    PROVE  Slice(f, a, l) \in Nat /\ UpTo(f, a + l) = UpTo(f, a) + Slice(f, a, l)
<1> DEFINE s == SubSeq(f, a + 1, a + l)
           g == [i \in 1..l |-> a + i]
           reach == (a + 1)..(a + l)
<1>1. f \in Seq(Nat) /\ Len(f) = n
    OBVIOUS
<1>2. s \in [1..l -> Nat] /\ \A i \in 1..l : s[i] = f[a + i]
  <2>1. /\ s \in Seq(Nat) /\ Len(s) = IF a + 1 <= a + l THEN (a + l) - (a + 1) + 1 ELSE 0
        /\ \A i \in 1..((a + l) - (a + 1) + 1) : s[i] = f[(a + 1) + i - 1]
    <3> DEFINE low == a + 1
               high == a + l
    <3>1. low \in Int /\ high \in Int /\ \A i \in low..high : f[i] \in Nat
      OBVIOUS
    <3> HIDE DEF low, high, s
    <3>2. /\ SubSeq(f, low, high) \in Seq(Nat)
          /\ Len(SubSeq(f, low, high)) = IF low <= high THEN high - low + 1 ELSE 0
          /\ \A i \in 1..(high - low + 1) : SubSeq(f, low, high)[i] = f[low + i - 1]
      BY <3>1, SubSeqProperties
    <3> QED
      BY <3>2 DEF low, high, s
  <2>2. Len(s) = l /\ DOMAIN s = 1..l
    BY <2>1
  <2>3. \A i \in 1..l : (a + 1) + i - 1 = a + i /\ i \in 1..((a + l) - (a + 1) + 1)
    OBVIOUS
  <2>4. \A i \in 1..l : s[i] = f[a + i]
    BY <2>1, <2>3
  <2> HIDE DEF s
  <2>5. s = [i \in 1..l |-> s[i]] /\ \A i \in 1..l : s[i] \in Nat
    BY <2>1, <2>2
  <2> QED
    BY <2>4, <2>5
<1> HIDE DEF s
<1>3. Total(s) \in Nat /\ Total(s) = SumFunctionOnSet(s, 1..l)
    BY <1>2, TotalIsNat
<1>4. SumFunctionOnSet(f, reach) = SumFunctionOnSet(s, 1..l)
  <2>1. \A x, y \in 1..l : g[x] = g[y] => x = y
    OBVIOUS
  <2>2. \A x \in 1..l : s[x] = f[g[x]] /\ s[x] \in Int
    BY <1>2
  <2>3. {g[x] : x \in 1..l} = reach
    <3>1. ASSUME NEW y \in reach PROVE y \in {g[x] : x \in 1..l}
      <4>1. y - a \in 1..l /\ g[y - a] = y
        OBVIOUS
      <4> QED
        BY <4>1
    <3>2. \A x \in 1..l : g[x] \in reach
      OBVIOUS
    <3> QED
      BY <3>1, <3>2
  <2> DEFINE places == 1..l
  <2>5. IsFiniteSet(places)
    BY FirstFinite
  <2> HIDE DEF g, reach, places
  <2>4. SumFunctionOnSet(f, {g[x] : x \in places}) = SumFunctionOnSet(s, places)
    <3>1. \A x, y \in places : g[x] = g[y] => x = y
      BY <2>1 DEF places
    <3>2. \A x \in places : s[x] = f[g[x]] /\ s[x] \in Int
      BY <2>2 DEF places
    <3> QED
      BY <2>5, <3>1, <3>2, SumOfImage
  <2> QED
    BY <2>3, <2>4 DEF places
<1>5. SumFunctionOnSet(f, (1..a) \cup reach) = SumFunctionOnSet(f, 1..a) + SumFunctionOnSet(f, reach)
  <2>1. IsFiniteSet(1..a) /\ IsFiniteSet(reach)
    BY FirstFinite, FS_Interval
  <2>3. (1..a) \cap reach = {}
    OBVIOUS
  <2>2. \A x \in (1..a) \cup reach : f[x] \in Int
    OBVIOUS
  <2> HIDE DEF reach
  <2> QED
    BY <2>1, <2>2, <2>3, SumOfUnion
<1>6. (1..a) \cup reach = 1..(a + l)
    OBVIOUS
<1> QED
    BY <1>3, <1>4, <1>5, <1>6 DEF UpTo, Slice, s

\* _split_evenly: nothing is lost.
LEMMA SharesAre ==
    ASSUME NEW total \in Nat, NEW parts \in Nat \ {0}
    PROVE  /\ SplitEvenly(total, parts) \in [1..parts -> Nat]
           /\ UpTo(SplitEvenly(total, parts), parts) = total
<1> DEFINE share == SplitEvenly(total, parts)
           base == total \div parts
           left == total % parts
<1>1. base \in Nat /\ left \in Nat /\ left < parts /\ base * parts + left = total
    BY DivisionParts
<1>2. share = [i \in 1..parts |-> base + IF i <= left THEN 1 ELSE 0]
    BY DEF SplitEvenly
<1> HIDE DEF base, left, share
<1>3. share \in [1..parts -> Nat]
    BY <1>1, <1>2
<1>4. SumFunctionOnSet(share, 1..parts) = base * Cardinality(1..parts) + Cardinality((1..parts) \cap (1..left))
  <2>1. \A x \in 1..parts : share[x] = base + (IF x \in 1..left THEN 1 ELSE 0)
    BY <1>1, <1>2
  <2> DEFINE all == 1..parts
             more == 1..left
  <2>2. IsFiniteSet(all)
    BY FirstFinite
  <2> HIDE DEF all, more
  <2>3. SumFunctionOnSet(share, all) = base * Cardinality(all) + Cardinality(all \cap more)
    <3>1. \A x \in all : share[x] = base + (IF x \in more THEN 1 ELSE 0)
      BY <2>1 DEF all, more
    <3> QED
      BY <1>1, <2>2, <3>1, SumOfEvenShares
  <2> QED
    BY <2>3 DEF all, more
<1>5. Cardinality(1..parts) = parts /\ Cardinality((1..parts) \cap (1..left)) = left
  <2>1. (1..parts) \cap (1..left) = 1..left
    BY <1>1
  <2> QED
    BY <1>1, <2>1, FirstFinite
<1> QED
    BY <1>1, <1>3, <1>4, <1>5 DEF share, UpTo

\* A lane's identities have as many successes together as the units they share.
LEMMA SuccessesAre ==
    ASSUME NEW units \in [1..Units -> {0, 1}], NEW lane \in Lanes
    PROVE  /\ IdentitySuccesses(units, lane) \in [1..Count(lane) -> Nat]
           /\ Total(IdentitySuccesses(units, lane)) = Total(units)
<1> DEFINE n == Units
           c == Count(lane)
           share == SplitEvenly(Units, c)
           s == IdentitySuccesses(units, lane)
           U(k) == UpTo(units, k)
           P(k) == UpTo(share, k)
<1>1. n \in Nat /\ c \in Nat \ {0} /\ units \in [1..n -> Nat]
    BY SybilAssumption DEF SybilScenario, Lanes, Count
<1>2. share \in [1..c -> Nat] /\ P(c) = n
    BY <1>1, SharesAre
<1>3. s = [i \in 1..c |-> LET before == Total(SubSeq(share, 1, i - 1))
                          IN  Total(SubSeq(units, before + 1, before + share[i]))]
    BY DEF IdentitySuccesses
<1> HIDE DEF n, c, share, s
<1>4. ASSUME NEW k \in 0..c PROVE P(k) \in 0..n
  <2>1. P(k) \in Nat
    BY <1>1, <1>2, UpToGrows
  <2>2. P(k) <= P(c)
    <3> DEFINE all == 1..c
               first == 1..k
    <3>1. IsFiniteSet(all) /\ first \in SUBSET all /\ \A x \in all : share[x] \in Nat
      BY <1>1, <1>2, FirstFinite
    <3> HIDE DEF all, first
    <3>2. SumFunctionOnSet(share, first) <= SumFunctionOnSet(share, all)
      BY <3>1, SumOfPart
    <3> QED
      BY <3>2 DEF all, first, UpTo
  <2> HIDE DEF P
  <2> QED
    BY <1>1, <1>2, <2>1, <2>2
<1>5. ASSUME NEW i \in 1..c PROVE Total(SubSeq(share, 1, i - 1)) = P(i - 1)
  <2> DEFINE a == 0
             l == i - 1
  <2>1. a \in Nat /\ l \in Nat /\ a + l <= c
    BY <1>1
  <2>4. a + 1 = 1 /\ a + l = i - 1
    BY <1>1
  <2>3. UpTo(share, a) = 0
    BY <1>1, <1>2, UpToGrows
  <2>5. Slice(share, a, l) = Total(SubSeq(share, 1, i - 1))
    BY <2>4 DEF Slice
  <2> HIDE DEF a, l
  <2>2. Slice(share, a, l) \in Nat /\ UpTo(share, a + l) = UpTo(share, a) + Slice(share, a, l)
    <3>1. c \in Nat /\ share \in [1..c -> Nat]
      BY <1>1, <1>2
    <3> HIDE DEF P, U
    <3> QED
      BY <3>1, <2>1, SliceTotal
  <2> QED
    BY <2>2, <2>3, <2>4, <2>5
<1>6. ASSUME NEW i \in 1..c
      PROVE  s[i] \in Nat /\ P(i) \in 0..n /\ P(i - 1) \in 0..n /\ U(P(i)) = U(P(i - 1)) + s[i]
  <2>1. i - 1 \in 0..c /\ i \in 0..c /\ i - 1 < c /\ (i - 1) + 1 = i
    BY <1>1
  <2>2. P(i) \in 0..n /\ P(i - 1) \in 0..n
    BY <1>4, <2>1
  <2>3. share[i] \in Nat
    BY <1>2
  <2>4. P(i) = P(i - 1) + share[i]
    <3>1. P((i - 1) + 1) = P(i - 1) + share[(i - 1) + 1]
      BY <1>1, <1>2, <2>1, UpToGrows
    <3> HIDE DEF P
    <3> QED
      BY <2>1, <3>1
  <2>5. s[i] = Total(SubSeq(units, P(i - 1) + 1, P(i - 1) + share[i]))
    BY <1>3, <1>5
  <2> DEFINE a == P(i - 1)
             l == share[i]
  <2>6. a \in Nat /\ l \in Nat /\ a + l <= n
    <3> HIDE DEF P
    <3> QED
      BY <1>1, <2>2, <2>3, <2>4
  <2>8. s[i] = Slice(units, a, l) /\ P(i) = a + l
    BY <2>4, <2>5 DEF Slice
  <2> HIDE DEF a, l
  <2>7. s[i] \in Nat /\ UpTo(units, a + l) = UpTo(units, a) + s[i]
    BY <1>1, <2>6, <2>8, SliceTotal
  <2>9. U(P(i)) = UpTo(units, a + l) /\ U(P(i - 1)) = UpTo(units, a)
    BY <2>8 DEF a
  <2> QED
    BY <2>2, <2>7, <2>9
<1>7. s \in [1..c -> Nat]
    BY <1>3, <1>6
<1> DEFINE Good == {m \in 1..c : UpTo(s, m) = U(P(m))}
<1>8. UpTo(s, 0) = U(P(0))
  <2>1. UpTo(s, 0) = 0 /\ UpTo(units, 0) = 0 /\ UpTo(share, 0) = 0
    BY <1>1, <1>2, <1>7, UpToGrows
  <2> QED
    BY <2>1
<1>9. ASSUME NEW m \in 0..c, m < c, UpTo(s, m) = U(P(m)) PROVE m + 1 \in Good
  <2>1. m + 1 \in 1..c /\ (m + 1) - 1 = m
    BY <1>1, <1>9
  <2>2. UpTo(s, m + 1) = UpTo(s, m) + s[m + 1]
    BY <1>1, <1>7, <1>9, UpToGrows
  <2>3. U(P(m + 1)) = U(P((m + 1) - 1)) + s[m + 1]
    BY <1>6, <2>1
  <2> HIDE DEF U, P
  <2>4. UpTo(s, m + 1) = U(P(m + 1))
    BY <1>9, <2>1, <2>2, <2>3
  <2> QED
    BY <2>1, <2>4
<1>10. c \in Good
  <2>1. 1 \in Good
    <3>1. 0 \in 0..c /\ 0 < c /\ 0 + 1 = 1
      BY <1>1
    <3> HIDE DEF Good, U, P
    <3> QED
      BY <1>8, <1>9, <3>1
  <2>2. \A m \in Good : m < c => m + 1 \in Good
    <3> SUFFICES ASSUME NEW m \in Good, m < c PROVE m + 1 \in Good
      OBVIOUS
    <3>1. m \in 0..c /\ UpTo(s, m) = U(P(m))
      OBVIOUS
    <3> HIDE DEF Good, U, P
    <3> QED
      BY <1>9, <3>1
  <2>3. Good \in SUBSET (1..c) /\ c \in Nat /\ c \in 1..c
    BY <1>1
  <2> HIDE DEF Good
  <2> QED
    BY <2>1, <2>2, <2>3, CountingUp
<1>11. UpTo(s, c) = UpTo(units, n)
    BY <1>2, <1>10
<1>12. Total(s) = UpTo(s, c) /\ Total(units) = UpTo(units, n)
    BY <1>1, <1>7, TotalIsNat DEF UpTo
<1> QED
    BY <1>7, <1>11, <1>12 DEF s, c

\* The members of a set of numbers, in ascending order.
Ranked(S) == [n \in 1..Cardinality(S) |-> CHOOSE i \in S : Cardinality({j \in S : j < i}) = n - 1]

\* The eligible, in ascending order, are members, and there is one unless all have nothing.
LEMMA EligibleAre ==
    ASSUME NEW n \in Nat, NEW s \in [1..n -> Nat]
    PROVE  Eligible(s) \in Seq(1..n) /\ (Total(s) = 0 <=> Len(Eligible(s)) = 0)
<1> DEFINE some == {i \in 1..n : s[i] > 0}
           size == Cardinality(some)
           key == [i \in some |-> i]
           Rank(x) == Cardinality({j \in some : j < x})
           First(k) == {x \in some : Cardinality({y \in some : key[y] < key[x]}) < k}
<1>1. IsFiniteSet(some) /\ size \in Nat
  <2>1. IsFiniteSet(1..n)
    BY FirstFinite
  <2> QED
    BY <2>1, FS_Subset, FS_CardinalityType
<1>2. Eligible(s) = [m \in 1..size |-> CHOOSE i \in some : Rank(i) = m - 1]
  <2> DEFINE held == {i \in DOMAIN s : s[i] > 0}
  <2>1. held = some
    OBVIOUS
  <2>2. Eligible(s) = Ranked(held)
    BY DEF Eligible, Ranked
  <2> HIDE DEF held, some
  <2>3. Eligible(s) = Ranked(some)
    BY <2>1, <2>2
  <2> QED
    BY <2>3 DEF Ranked
<1>3. key \in [some -> Nat] /\ \A x, y \in some : key[x] = key[y] => x = y
    OBVIOUS
<1>4. ASSUME NEW k \in Nat, k <= size PROVE Cardinality(First(k)) = k /\ First(k) \subseteq some
    BY <1>1, <1>3, <1>4, FirstOfRank
<1>5. ASSUME NEW m \in 1..size PROVE \E i \in some : Rank(i) = m - 1
  <2>1. m \in Nat /\ m - 1 \in Nat /\ m <= size /\ m - 1 <= size
    BY <1>1
  <2>2. Cardinality(First(m)) = m /\ Cardinality(First(m - 1)) = m - 1
    BY <1>4, <2>1
  <2>3. IsFiniteSet(First(m - 1))
    BY <1>1, FS_Subset
  <2>4. ~(First(m) \subseteq First(m - 1))
    <3> HIDE DEF First
    <3> SUFFICES ASSUME First(m) \subseteq First(m - 1) PROVE FALSE
      OBVIOUS
    <3>1. Cardinality(First(m)) <= Cardinality(First(m - 1))
      BY <2>3, FS_Subset
    <3> QED
      BY <2>1, <2>2, <3>1
  <2>5. PICK x \in First(m) : x \notin First(m - 1)
    BY <2>4
  <2>6. x \in some /\ {y \in some : key[y] < key[x]} = {j \in some : j < x}
    OBVIOUS
  <2>7. IsFiniteSet({j \in some : j < x})
    BY <1>1, FS_Subset
  <2>8. Rank(x) \in Nat
    BY <2>7, FS_CardinalityType
  <2>9. Rank(x) < m /\ ~(Rank(x) < m - 1)
    BY <2>5, <2>6
  <2> HIDE DEF Rank
  <2>10. Rank(x) = m - 1
    BY <2>1, <2>8, <2>9
  <2> QED
    BY <2>6, <2>10
<1>6. \A m \in 1..size : Eligible(s)[m] \in some
  <2> HIDE DEF some, size, Rank
  <2> SUFFICES ASSUME NEW m \in 1..size PROVE Eligible(s)[m] \in some
    OBVIOUS
  <2>1. Eligible(s)[m] = CHOOSE i \in some : Rank(i) = m - 1
    BY <1>2
  <2> QED
    BY <1>5, <2>1
<1>7. Eligible(s) \in Seq(1..n) /\ Len(Eligible(s)) = size
  <2>1. \A m \in 1..size : Eligible(s)[m] \in 1..n
    BY <1>6
  <2>2. Eligible(s) = [m \in 1..size |-> Eligible(s)[m]]
    <3> HIDE DEF some, size, Rank
    <3> QED
      BY <1>2
  <2> HIDE DEF size
  <2> QED
    BY <1>1, <2>1, <2>2
<1>8. CASE some = {}
  <2>1. size = 0 /\ \A i \in 1..n : s[i] = 0
    BY <1>8, FS_EmptySet
  <2>2. Total(s) = 0
    BY <2>1, TotalOfNone
  <2> QED
    BY <1>7, <2>1, <2>2
<1>9. CASE some # {}
  <2>1. PICK i \in some : TRUE
    BY <1>9
  <2>2. size # 0
    BY <1>1, <1>9, FS_EmptySet
  <2>3. SumFunctionOnSet(s, {i}) = s[i]
    <3>1. IsFiniteSet({}) /\ i \notin {} /\ \A y \in {} \cup {i} : s[y] \in Int
      BY FS_EmptySet
    <3>2. SumFunctionOnSet(s, {} \cup {i}) = SumFunctionOnSet(s, {}) + s[i]
      BY <3>1, SumOfOneMore
    <3>3. {} \cup {i} = {i} /\ s[i] \in Nat
      OBVIOUS
    <3> QED
      BY <3>2, <3>3, SumOfNone
  <2>4. SumFunctionOnSet(s, {i}) <= SumFunctionOnSet(s, 1..n)
    <3> DEFINE all == 1..n
    <3>1. IsFiniteSet(all) /\ {i} \in SUBSET all /\ \A x \in all : s[x] \in Nat
      BY FirstFinite
    <3> HIDE DEF all, some
    <3> QED
      BY <3>1, SumOfPart DEF all
  <2>5. Total(s) # 0
    BY <2>3, <2>4, TotalIsNat
  <2> QED
    BY <1>7, <2>2, <2>5
<1> QED
    BY <1>8, <1>9

LEMMA RepeatedIs ==
    ASSUME NEW x, NEW n \in Nat
    PROVE  /\ Repeated(x, n) \in Seq({x}) /\ Len(Repeated(x, n)) = n
           /\ \A i \in 1..n : Repeated(x, n)[i] = x
  BY DEF Repeated

LEMMA RepeatedOnceMore ==
    ASSUME NEW x, NEW n \in Nat
    PROVE  Repeated(x, n) \o <<x>> = Repeated(x, n + 1)
<1> DEFINE s == Repeated(x, n)
           e == <<x>>
<1>1. s \in Seq({x}) /\ Len(s) = n /\ \A i \in 1..n : s[i] = x
    BY RepeatedIs
<1>2. e \in Seq({x}) /\ Len(e) = 1 /\ e[1] = x
    OBVIOUS
<1> HIDE DEF s, e
<1>3. /\ s \o e \in Seq({x}) /\ Len(s \o e) = n + 1
      /\ \A i \in 1..(n + 1) : (s \o e)[i] = IF i <= n THEN s[i] ELSE e[i - n]
  <2>1. /\ s \o e \in Seq({x}) /\ Len(s \o e) = Len(s) + Len(e)
        /\ \A i \in 1..(Len(s) + Len(e)) : (s \o e)[i] = IF i <= Len(s) THEN s[i] ELSE e[i - Len(s)]
    BY <1>1, <1>2, ConcatProperties
  <2>2. Len(s) = n /\ Len(s) + Len(e) = n + 1
    BY <1>1, <1>2
  <2> QED
    BY <2>1, <2>2
<1>4. \A i \in 1..(n + 1) : (s \o e)[i] = x
    BY <1>1, <1>2, <1>3
<1> DEFINE c == s \o e
<1>5. c = [i \in 1..(n + 1) |-> x]
  <2> HIDE DEF c
  <2>1. c \in Seq({x}) /\ Len(c) = n + 1 /\ \A i \in 1..(n + 1) : c[i] = x
    BY <1>3, <1>4 DEF c
  <2> QED
    BY <2>1
<1> QED
    BY <1>5 DEF Repeated, s, e

\* As many copies of a sequence of one, flattened, as there are of its element.
LEMMA FlattenRepeated ==
    ASSUME NEW x, NEW n \in Nat
    PROVE  FlattenSeq(Repeated(<<x>>, n)) = Repeated(x, n)
<1> DEFINE s == Repeated(<<x>>, n)
           Step(f) == [i \in 1..n |-> IF i = 1 THEN s[i] ELSE f[i - 1] \o s[i]]
           g == [i \in 1..n |-> Repeated(x, i)]
           flat == CHOOSE f : f = Step(f)
<1>1. Len(s) = n /\ \A i \in 1..n : s[i] = <<x>>
    BY RepeatedIs
<1>2. CASE n = 0
  <2>1. s = <<>> /\ Repeated(x, n) = <<>>
    BY <1>2 DEF Repeated
  <2> HIDE DEF s
  <2>2. FlattenSeq(s) = s
    BY <1>1, <1>2 DEF FlattenSeq
  <2> QED
    BY <2>1, <2>2 DEF s
<1>3. CASE n # 0
  <2>1. Repeated(x, 1) = <<x>>
    BY DEF Repeated
  <2>2. g = Step(g)
    <3>1. ASSUME NEW i \in 1..n, i # 1 PROVE Repeated(x, i) = Repeated(x, i - 1) \o <<x>>
      <4>1. i - 1 \in Nat /\ (i - 1) + 1 = i
        BY <3>1
      <4>2. Repeated(x, i - 1) \o <<x>> = Repeated(x, (i - 1) + 1)
        BY <4>1, RepeatedOnceMore
      <4> QED
        BY <4>1, <4>2
    <3>2. ASSUME NEW i \in 1..n PROVE g[i] = IF i = 1 THEN s[i] ELSE g[i - 1] \o s[i]
      <4>1. i # 1 => i - 1 \in 1..n
        OBVIOUS
      <4>2. CASE i = 1
        BY <1>1, <2>1, <4>2
      <4>3. CASE i # 1
        <5>1. g[i] = Repeated(x, i) /\ g[i - 1] = Repeated(x, i - 1) /\ s[i] = <<x>>
          BY <1>1, <4>1, <4>3
        <5> HIDE DEF g, s
        <5> QED
          BY <3>1, <4>3, <5>1
      <4> QED
        BY <4>2, <4>3
    <3> HIDE DEF s
    <3>3. DOMAIN g = 1..n /\ g = [i \in 1..n |-> g[i]]
      OBVIOUS
    <3> HIDE DEF g
    <3> QED
      BY <3>2, <3>3
  <2>3. flat = Step(flat)
    <3> HIDE DEF g, Step
    <3> QED
      BY <2>2
  <2>4. FlattenSeq(s) = flat[n]
    <3> HIDE DEF s
    <3> QED
      BY <1>1, <1>3 DEF FlattenSeq
  <2>5. \A i \in 1..n : flat[i] = IF i = 1 THEN s[i] ELSE flat[i - 1] \o s[i]
    <3> HIDE DEF flat, s
    <3> QED
      BY <2>3
  <2> DEFINE Good == {i \in 1..n : flat[i] = Repeated(x, i)}
  <2>0. 1 \in 1..n /\ n \in 1..n
    BY <1>3
  <2> HIDE DEF flat
  <2>6. 1 \in Good
    <3>1. flat[1] = s[1]
      BY <2>0, <2>5
    <3> QED
      BY <1>1, <2>0, <2>1, <3>1
  <2>7. ASSUME NEW m \in Good, m < n PROVE m + 1 \in Good
    <3>1. m + 1 \in 1..n /\ m + 1 # 1 /\ (m + 1) - 1 = m /\ m \in Nat
      BY <2>7
    <3>2. flat[m] = Repeated(x, m)
      OBVIOUS
    <3> HIDE DEF s, Good
    <3>3. flat[m + 1] = flat[m] \o <<x>>
      BY <1>1, <2>5, <3>1
    <3>4. flat[m + 1] = Repeated(x, m + 1)
      BY <3>1, <3>2, <3>3, RepeatedOnceMore
    <3> QED
      BY <3>1, <3>4 DEF Good
  <2>8. n \in Good
    <3>1. Good \in SUBSET (1..n) /\ n \in 1..n
      BY <2>0
    <3> HIDE DEF Good
    <3> QED
      BY <2>6, <2>7, <3>1, CountingUp
  <2> HIDE DEF flat, s
  <2> QED
    BY <2>4, <2>8 DEF s
<1> QED
    BY <1>2, <1>3

\* How many tickets the attacker and the honest operators weigh, in the models that
\* weigh the attacker as one operator.
Attempts(total) == IF capacityModel = "OPERATOR_SLOT" THEN IF total = 0 THEN 0 ELSE 1 ELSE total
Rivals(honest) == IF capacityModel = "OPERATOR_SLOT" THEN Len(Eligible(honest)) ELSE Total(honest)

\* As many of one thing, then as many of another.
Runs(a, m, b, k) == Repeated(a, m) \o Repeated(b, k)

LEMMA HonestIsNoAttacker == \A i : Attacker(i) # Honest
<1> SUFFICES ASSUME NEW i, Attacker(i) = Honest PROVE FALSE
    OBVIOUS
<1>1. Attacker(i).kind = "attacker" /\ Honest.kind = "honest"
    BY DEF Attacker, Honest
<1> QED
    BY <1>1

\* One ticket when an identity succeeded, none otherwise.
LEMMA SomeIs ==
    ASSUME NEW n \in Nat, NEW s \in [1..n -> Nat]
    PROVE  /\ Total(s) = 0 => Some(s) = <<>>
           /\ Total(s) # 0 => Eligible(s)[1] \in 1..n /\ Some(s) = <<Attacker(Eligible(s)[1])>>
<1> DEFINE e == Eligible(s)
<1>1. e \in Seq(1..n) /\ (Total(s) = 0 <=> Len(e) = 0)
    BY EligibleAre
<1>2. Some(s) = IF e = <<>> THEN <<>> ELSE <<Attacker(e[1])>>
    BY DEF Some
<1> HIDE DEF e
<1>3. Len(e) \in Nat /\ (e = <<>> <=> Len(e) = 0)
    BY <1>1
<1>4. e # <<>> => e[1] \in 1..n
    BY <1>1, <1>3
<1> QED
    BY <1>1, <1>2, <1>3, <1>4 DEF e

LEMMA OperatorsAreNat == Operators \in Nat
    BY SybilAssumption DEF SybilScenario

\* The tickets of the attacker, all for one identity, before those of the others: how
\* many depends on the successes of its units together.
LEMMA TicketsAre ==
    ASSUME capacityModel \in CapacityModels, capacityModel # "IDENTITY_UNIFORM",
           NEW n \in Nat, NEW s \in [1..n -> Nat], NEW honest \in [1..Operators -> Nat]
    PROVE  /\ Attempts(Total(s)) \in Nat /\ Rivals(honest) \in Nat
           /\ \E x : /\ Attempts(Total(s)) > 0 => x \in 1..n
                     /\ Tickets(s, honest) = Runs(Attacker(x), Attempts(Total(s)), Honest, Rivals(honest))
<1> DEFINE x == Eligible(s)[1]
           total == Total(s)
           others == Total(honest)
           e == Eligible(honest)
<1>1. total \in Nat /\ others \in Nat
    BY TotalIsNat, OperatorsAreNat
<1>2. Len(e) \in Nat
  <2>1. e \in Seq(1..Operators)
    BY EligibleAre, OperatorsAreNat
  <2> HIDE DEF e
  <2> QED
    BY <2>1
<1>3. /\ total = 0 => Some(s) = <<>>
      /\ total # 0 => x \in 1..n /\ Some(s) = <<Attacker(x)>>
    BY SomeIs
<1>4. HonestTickets(honest) = Repeated(Honest, Len(e))
    BY DEF HonestTickets, Repeated
<1> HIDE DEF x, total, others, e
<1>5. CASE capacityModel = "OPERATOR_SLOT"
  <2>1. Tickets(s, honest) = Some(s) \o HonestTickets(honest)
    BY <1>5 DEF Tickets
  <2>2. Attempts(total) = (IF total = 0 THEN 0 ELSE 1) /\ Rivals(honest) = Len(e)
    BY <1>5 DEF Attempts, Rivals, e
  <2>3. Repeated(Attacker(x), 0) = <<>> /\ Repeated(Attacker(x), 1) = <<Attacker(x)>>
    BY DEF Repeated
  <2>4. Some(s) = Repeated(Attacker(x), Attempts(total))
    BY <1>3, <2>2, <2>3
  <2>5. Attempts(total) \in Nat /\ Rivals(honest) \in Nat /\ (Attempts(total) > 0 => x \in 1..n)
    BY <1>1, <1>2, <1>3, <2>2
  <2>6. Tickets(s, honest) = Runs(Attacker(x), Attempts(total), Honest, Rivals(honest))
    BY <1>4, <2>1, <2>2, <2>4 DEF Runs
  <2> QED
    BY <2>5, <2>6 DEF total
<1>6. CASE capacityModel # "OPERATOR_SLOT"
  <2>1. Tickets(s, honest) = FlattenSeq(Repeated(Some(s), total)) \o Repeated(Honest, others)
    BY <1>6 DEF Tickets, total, others
  <2>2. Attempts(total) = total /\ Rivals(honest) = others
    BY <1>6 DEF Attempts, Rivals, others
  <2>3. FlattenSeq(Repeated(Some(s), total)) = Repeated(Attacker(x), total)
    <3>1. CASE total = 0
      <4>1. Repeated(Some(s), total) = <<>> /\ Repeated(Attacker(x), total) = <<>>
        BY <3>1 DEF Repeated
      <4>2. Len(<<>>) = 0
        OBVIOUS
      <4>3. FlattenSeq(<<>>) = <<>>
        BY <4>2 DEF FlattenSeq
      <4> QED
        BY <4>1, <4>3
    <3>2. CASE total # 0
      <4> DEFINE a == Attacker(x)
      <4>1. Some(s) = <<a>>
        BY <1>3, <3>2
      <4> HIDE DEF a
      <4>2. FlattenSeq(Repeated(<<a>>, total)) = Repeated(a, total)
        BY <1>1, FlattenRepeated
      <4> QED
        BY <4>1, <4>2 DEF a
    <3> QED
      BY <3>1, <3>2
  <2>5. Attempts(total) \in Nat /\ Rivals(honest) \in Nat /\ (Attempts(total) > 0 => x \in 1..n)
    BY <1>1, <1>3, <2>2
  <2>6. Tickets(s, honest) = Runs(Attacker(x), Attempts(total), Honest, Rivals(honest))
    BY <2>1, <2>2, <2>3 DEF Runs
  <2> QED
    BY <2>5, <2>6 DEF total
<1> QED
    BY <1>5, <1>6

\* One after the other: which of the two a place holds.
AreRuns(t, a, m, b, k) ==
    /\ t \in Seq({a, b}) /\ Len(t) = m + k
    /\ \A r \in 1..(m + k) : t[r] = IF r <= m THEN a ELSE b

LEMMA TwoRuns == \A a, b : \A m, k \in Nat : AreRuns(Runs(a, m, b, k), a, m, b, k)
<1> SUFFICES ASSUME NEW a, NEW b, NEW m \in Nat, NEW k \in Nat
    PROVE  AreRuns(Runs(a, m, b, k), a, m, b, k)
    OBVIOUS
<1> DEFINE s == Repeated(a, m)
           t == Repeated(b, k)
<1>1. s \in Seq({a, b}) /\ Len(s) = m /\ \A i \in 1..m : s[i] = a
    BY DEF Repeated
<1>2. t \in Seq({a, b}) /\ Len(t) = k /\ \A i \in 1..k : t[i] = b
    BY DEF Repeated
<1> HIDE DEF s, t
<1>3. /\ s \o t \in Seq({a, b}) /\ Len(s \o t) = Len(s) + Len(t)
      /\ \A i \in 1..(Len(s) + Len(t)) : (s \o t)[i] = IF i <= Len(s) THEN s[i] ELSE t[i - Len(s)]
    BY <1>1, <1>2, ConcatProperties
<1>4. \A r \in 1..(m + k) : (s \o t)[r] = IF r <= m THEN a ELSE b
  <2> SUFFICES ASSUME NEW r \in 1..(m + k) PROVE (s \o t)[r] = IF r <= m THEN a ELSE b
    OBVIOUS
  <2>1. (s \o t)[r] = IF r <= m THEN s[r] ELSE t[r - m]
    BY <1>1, <1>2, <1>3
  <2>2. (r <= m => r \in 1..m) /\ (~(r <= m) => r - m \in 1..k)
    OBVIOUS
  <2> QED
    BY <1>1, <1>2, <2>1, <2>2
<1> QED
    BY <1>1, <1>2, <1>3, <1>4 DEF AreRuns, Runs, s, t

TicketsOf(n) == {Honest} \cup {Attacker(i) : i \in 1..n}

\* Every ticket is for an honest operator or for an identity of the lane.
LEMMA TicketsTyped ==
    ASSUME capacityModel \in CapacityModels,
           NEW n \in Nat, NEW s \in [1..n -> Nat], NEW honest \in [1..Operators -> Nat]
    PROVE  Tickets(s, honest) \in Seq(TicketsOf(n))
<1> DEFINE kinds == TicketsOf(n)
<1>1. Honest \in kinds /\ \A i \in 1..n : Attacker(i) \in kinds
    BY DEF TicketsOf
<1>2. CASE capacityModel = "IDENTITY_UNIFORM"
  <2> DEFINE e == Eligible(s)
             own == [i \in 1..Len(e) |-> Attacker(e[i])]
             rest == HonestTickets(honest)
  <2>1. Tickets(s, honest) = own \o rest
    BY <1>2 DEF Tickets
  <2>2. e \in Seq(1..n)
    BY EligibleAre
  <2>3. own \in Seq(kinds)
    <3> HIDE DEF kinds, e
    <3>1. Len(e) \in Nat /\ \A i \in 1..Len(e) : e[i] \in 1..n
      BY <2>2
    <3>2. \A i \in 1..Len(e) : Attacker(e[i]) \in kinds
      BY <1>1, <3>1
    <3> QED
      BY <3>1, <3>2
  <2>4. rest \in Seq(kinds)
    <3> DEFINE c == Len(Eligible(honest))
    <3>1. Eligible(honest) \in Seq(1..Operators)
      BY EligibleAre, OperatorsAreNat
    <3>2. c \in Nat
      BY <3>1
    <3>3. rest = [i \in 1..c |-> Honest]
      BY DEF HonestTickets
    <3> HIDE DEF rest, kinds, c
    <3> QED
      BY <1>1, <3>2, <3>3
  <2> HIDE DEF own, rest, kinds
  <2>5. own \o rest \in Seq(kinds)
    BY <2>3, <2>4, ConcatProperties
  <2> QED
    BY <2>1, <2>5 DEF kinds
<1>3. CASE capacityModel # "IDENTITY_UNIFORM"
  <2> DEFINE m == Attempts(Total(s))
             k == Rivals(honest)
             t == Tickets(s, honest)
  <2>1. m \in Nat /\ k \in Nat
    BY <1>3, TicketsAre
  <2>2. PICK x : (m > 0 => x \in 1..n) /\ t = Runs(Attacker(x), m, Honest, k)
    BY <1>3, TicketsAre
  <2> DEFINE a == Attacker(x)
             b == Honest
  <2>3. (m > 0 => a \in kinds) /\ b \in kinds /\ t = Runs(a, m, b, k)
    BY <1>1, <2>2
  <2> HIDE DEF m, k, t, a, b, kinds
  <2>4. t \in Seq({a, b}) /\ Len(t) = m + k /\ \A r \in 1..(m + k) : t[r] = IF r <= m THEN a ELSE b
    <3>1. AreRuns(t, a, m, b, k)
      BY <2>1, <2>3, TwoRuns
    <3> QED
      BY <3>1 DEF AreRuns
  <2>5. \A r \in 1..(m + k) : t[r] \in kinds
    BY <2>1, <2>3, <2>4
  <2> QED
    BY <2>1, <2>4, <2>5 DEF t, kinds
<1> QED
    BY <1>2, <1>3

\* Whoever wins is of the lane, and nobody does when there is no ticket.
LEMMA OutcomeTyped ==
    ASSUME capacityModel \in CapacityModels,
           NEW n \in Nat, NEW s \in [1..n -> Nat], NEW honest \in [1..Operators -> Nat],
           NEW o \in Outcomes(s, honest)
    PROVE  /\ o.winner \in {"nobody", "attacker", "honest"}
           /\ o.winner = "attacker" => o.identity \in 1..n
           /\ o.winner = "honest" => o.operator \in 1..Operators
           /\ o.winner = "nobody" <=> Tickets(s, honest) = <<>>
           /\ o.winner # "nobody" =>
                 /\ o.of = Len(Tickets(s, honest)) /\ o.roll \in 1..o.of
                 /\ o.winner = "attacker" <=> Tickets(s, honest)[o.roll] # Honest
<1> DEFINE t == Tickets(s, honest)
           e == Eligible(honest)
<1>1. t \in Seq(TicketsOf(n))
    BY TicketsTyped
<1>2. e \in Seq(1..Operators)
    BY EligibleAre, OperatorsAreNat
<1>3. o \in IF t = <<>> THEN {[winner |-> "nobody", calls |-> 0]}
            ELSE {[winner |-> "attacker", identity |-> t[r].identity, roll |-> r, of |-> Len(t)] :
                     r \in {p \in DOMAIN t : t[p] # Honest}}
                 \cup
                 {[winner |-> "honest", operator |-> e[second], roll |-> r, of |-> Len(t)] :
                     r \in {p \in DOMAIN t : t[p] = Honest}, second \in DOMAIN e}
    BY DEF Outcomes
<1> HIDE DEF t, e
<1>4. DOMAIN t = 1..Len(t) /\ \A p \in DOMAIN t : t[p] \in TicketsOf(n)
    BY <1>1
<1>5. DOMAIN e = 1..Len(e) /\ \A p \in DOMAIN e : e[p] \in 1..Operators
  <2> DEFINE operators == 1..Operators
  <2>1. e \in Seq(operators)
    BY <1>2
  <2> HIDE DEF operators
  <2>2. DOMAIN e = 1..Len(e) /\ \A p \in DOMAIN e : e[p] \in operators
    BY <2>1
  <2> QED
    BY <2>2 DEF operators
<1>6. CASE t = <<>>
  <2>1. o.winner = "nobody"
    BY <1>3, <1>6
  <2> QED
    BY <1>6, <2>1 DEF t
<1>7. CASE t # <<>>
  <2>1. CASE \E r \in {p \in DOMAIN t : t[p] # Honest} :
                o = [winner |-> "attacker", identity |-> t[r].identity, roll |-> r, of |-> Len(t)]
    <3>1. PICK r \in DOMAIN t :
                  /\ t[r] # Honest
                  /\ o = [winner |-> "attacker", identity |-> t[r].identity, roll |-> r, of |-> Len(t)]
      BY <2>1
    <3>2. o.winner = "attacker" /\ o.identity = t[r].identity /\ o.roll = r /\ o.of = Len(t)
      BY <3>1
    <3>3. t[r] \in TicketsOf(n) /\ t[r] # Honest
      BY <1>4, <3>1
    <3>4. PICK i \in 1..n : t[r] = Attacker(i)
      BY <3>3 DEF TicketsOf
    <3>5. t[r].identity = i
      BY <3>4 DEF Attacker
    <3>6. r \in 1..Len(t)
      BY <1>4, <3>1
    <3> QED
      BY <1>7, <3>1, <3>2, <3>5, <3>6 DEF t
  <2>2. CASE \E r \in {p \in DOMAIN t : t[p] = Honest}, second \in DOMAIN e :
                o = [winner |-> "honest", operator |-> e[second], roll |-> r, of |-> Len(t)]
    <3>1. PICK r \in DOMAIN t, second \in DOMAIN e :
                  /\ t[r] = Honest
                  /\ o = [winner |-> "honest", operator |-> e[second], roll |-> r, of |-> Len(t)]
      BY <2>2
    <3>2. o.winner = "honest" /\ o.operator = e[second] /\ o.roll = r /\ o.of = Len(t)
      BY <3>1
    <3>3. r \in 1..Len(t) /\ e[second] \in 1..Operators
      BY <1>4, <1>5, <3>1
    <3> QED
      BY <1>7, <3>1, <3>2, <3>3 DEF t
  <2> QED
    BY <1>3, <1>7, <2>1, <2>2
<1> QED
    BY <1>6, <1>7

\* From one seed, two lanes whose units succeed as often together have the same kind
\* of winner, in every model but the scheduler that draws identities.
LEMMA LanesStayTogether ==
    ASSUME capacityModel \in CapacityModels, capacityModel # "IDENTITY_UNIFORM",
           NEW n \in Nat, NEW s \in [1..n -> Nat],
           NEW p \in Nat, NEW q \in [1..p -> Nat], Total(s) = Total(q),
           NEW honest \in [1..Operators -> Nat],
           NEW a \in Outcomes(s, honest), NEW b \in Outcomes(q, honest), Agree(a, b)
    PROVE  SameCalls(a, b)
<1> DEFINE m == Attempts(Total(s))
           k == Rivals(honest)
           t == Tickets(s, honest)
           u == Tickets(q, honest)
<1>1. m \in Nat /\ k \in Nat
    BY TicketsAre
<1>2. PICK x : t = Runs(Attacker(x), m, Honest, k)
    BY TicketsAre
<1>3. PICK y : u = Runs(Attacker(y), m, Honest, k)
  <2>1. \E y : u = Runs(Attacker(y), Attempts(Total(q)), Honest, k)
    BY TicketsAre
  <2>2. Attempts(Total(q)) = m
    OBVIOUS
  <2> HIDE DEF m
  <2> QED
    BY <2>1, <2>2
<1> HIDE DEF m, k
<1>4. Len(t) = m + k /\ \A r \in 1..(m + k) : t[r] # Honest <=> r <= m
  <2> DEFINE c == Attacker(x)
  <2>1. c # Honest
    BY HonestIsNoAttacker
  <2>2. t = Runs(c, m, Honest, k)
    BY <1>2
  <2> HIDE DEF c
  <2>3. AreRuns(Runs(c, m, Honest, k), c, m, Honest, k)
    BY <1>1, TwoRuns
  <2> HIDE DEF t
  <2>4. Len(t) = m + k /\ \A r \in 1..(m + k) : t[r] = IF r <= m THEN c ELSE Honest
    BY <2>2, <2>3 DEF AreRuns
  <2> QED
    BY <2>1, <2>4
<1>5. Len(u) = m + k /\ \A r \in 1..(m + k) : u[r] # Honest <=> r <= m
  <2> DEFINE c == Attacker(y)
  <2>1. c # Honest
    BY HonestIsNoAttacker
  <2>2. u = Runs(c, m, Honest, k)
    BY <1>3
  <2> HIDE DEF c
  <2>3. AreRuns(Runs(c, m, Honest, k), c, m, Honest, k)
    BY <1>1, TwoRuns
  <2> HIDE DEF u
  <2>4. Len(u) = m + k /\ \A r \in 1..(m + k) : u[r] = IF r <= m THEN c ELSE Honest
    BY <2>2, <2>3 DEF AreRuns
  <2> QED
    BY <2>1, <2>4
<1>6. /\ a.winner \in {"nobody", "attacker", "honest"}
      /\ a.winner # "nobody" => /\ a.of = Len(t) /\ a.roll \in 1..a.of
                                /\ a.winner = "attacker" <=> t[a.roll] # Honest
    BY OutcomeTyped
<1>7. /\ b.winner \in {"nobody", "attacker", "honest"}
      /\ b.winner # "nobody" => /\ b.of = Len(u) /\ b.roll \in 1..b.of
                                /\ b.winner = "attacker" <=> u[b.roll] # Honest
    BY OutcomeTyped
<1> HIDE DEF t, u
<1>8. CASE a.winner = "nobody"
    BY <1>8 DEF SameCalls
<1>9. CASE a.winner # "nobody"
  <2>1. b.winner # "nobody"
    BY <1>9 DEF Agree
  <2>2. a.of = b.of /\ a.of = m + k
    BY <1>4, <1>5, <1>6, <1>7, <1>9, <2>1
  <2>3. a.roll = b.roll
    BY <1>9, <2>1, <2>2 DEF Agree
  <2>4. a.roll \in 1..(m + k) /\ b.roll \in 1..(m + k)
    BY <1>6, <1>7, <1>9, <2>1, <2>2
  <2>5. (a.winner = "attacker" <=> a.roll <= m) /\ (b.winner = "attacker" <=> b.roll <= m)
    BY <1>4, <1>5, <1>6, <1>7, <1>9, <2>1, <2>4
  <2>6. a.winner = b.winner
    BY <1>6, <1>7, <1>9, <2>1, <2>3, <2>5
  <2> QED
    BY <1>9, <2>2, <2>6 DEF SameCalls
<1> QED
    BY <1>8, <1>9

-----------------------------------------------------------------------------
(* SybilSchedule: the invariant *)

Whole(t) == Len(t) \in Nat /\ t = [i \in 1..Len(t) |-> t[i]]

\* What two lanes in step have in common.
InStep ==
    /\ Total(byIdentity["single"]) = Total(byIdentity["split"])
    /\ byOperator["single"] = byOperator["split"]
    /\ allocated["single"] = allocated["split"]

SybilInv ==
    /\ capacityModel \in CapacityModels /\ lockstep \in BOOLEAN
    /\ DOMAIN byIdentity = Lanes /\ DOMAIN byOperator = Lanes /\ DOMAIN allocated = Lanes
    /\ DOMAIN trials = Lanes
    /\ \A l \in Lanes : byIdentity[l] \in [1..Count(l) -> Nat] /\ Whole(trials[l])
    /\ Len(trials["single"]) = Len(trials["split"])
    /\ lockstep => InStep
    /\ SplitNeutral

LEMMA CountIs == \A l \in Lanes : Count(l) \in Nat
    BY SybilAssumption DEF SybilScenario, Lanes, Count

LEMMA FreshIs ==
    /\ DOMAIN Fresh.byIdentity = Lanes /\ DOMAIN Fresh.byOperator = Lanes /\ DOMAIN Fresh.allocated = Lanes
    /\ \A l \in Lanes : Fresh.byIdentity[l] \in [1..Count(l) -> Nat] /\ Total(Fresh.byIdentity[l]) = 0
    /\ Fresh.byOperator["single"] = Fresh.byOperator["split"]
    /\ Fresh.allocated["single"] = Fresh.allocated["split"]
<1>1. ASSUME NEW l \in Lanes
      PROVE  Fresh.byIdentity[l] \in [1..Count(l) -> Nat] /\ \A i \in 1..Count(l) : Fresh.byIdentity[l][i] = 0
    BY DEF Fresh
<1>2. ASSUME NEW l \in Lanes PROVE Total(Fresh.byIdentity[l]) = 0
    BY <1>1, CountIs, TotalOfNone
<1>3. /\ DOMAIN Fresh.byIdentity = Lanes /\ DOMAIN Fresh.byOperator = Lanes /\ DOMAIN Fresh.allocated = Lanes
      /\ Fresh.byOperator["single"] = Fresh.byOperator["split"]
      /\ Fresh.allocated["single"] = Fresh.allocated["split"]
    BY DEF Fresh, Lanes
<1> QED
    BY <1>1, <1>2, <1>3

LEMMA SybilInitInv == SybilInit => SybilInv
<1> SUFFICES ASSUME SybilInit PROVE SybilInv
    OBVIOUS
<1>1. /\ capacityModel \in CapacityModels /\ lockstep = TRUE
      /\ byIdentity = Fresh.byIdentity /\ byOperator = Fresh.byOperator /\ allocated = Fresh.allocated
      /\ trials = [l \in Lanes |-> <<>>]
    BY DEF SybilInit
<1>2. DOMAIN trials = Lanes /\ \A l \in Lanes : trials[l] = <<>>
    BY <1>1
<1>3. Len(<<>>) = 0 /\ Whole(<<>>)
    BY DEF Whole
<1>4. "single" \in Lanes /\ "split" \in Lanes
    BY DEF Lanes
<1>5. InStep
    BY <1>1, <1>4, FreshIs DEF InStep
<1>6. SplitNeutral
  <2>1. 1..Len(trials["single"]) = {}
    BY <1>2, <1>3, <1>4
  <2> QED
    BY <1>1, <2>1 DEF SplitNeutral
<1>7. \A l \in Lanes : byIdentity[l] \in [1..Count(l) -> Nat] /\ Whole(trials[l])
    BY <1>1, <1>2, <1>3, FreshIs
<1> QED
    BY <1>1, <1>2, <1>4, <1>5, <1>6, <1>7, FreshIs DEF SybilInv

\* What an outcome does to the credit of a lane.
LEMMA CreditGrows ==
    ASSUME capacityModel \in CapacityModels,
           NEW n \in Nat, NEW s \in [1..n -> Nat], NEW honest \in [1..Operators -> Nat],
           NEW o \in Outcomes(s, honest), NEW credit \in [1..n -> Nat], NEW next,
           next = IF o.winner # "attacker" THEN credit ELSE Credited(credit, o.identity, Budget)
    PROVE  Grown(next, credit, n, IF o.winner = "attacker" THEN Budget ELSE 0)
<1>1. Budget \in Nat /\ Total(credit) \in Nat
    BY SybilAssumption, TotalIsNat DEF SybilScenario
<1>2. CASE o.winner = "attacker"
  <2> DEFINE i == o.identity
             more == Credited(credit, i, Budget)
  <2>1. i \in 1..n
    BY <1>2, OutcomeTyped
  <2>2. next = more
    BY <1>2
  <2> HIDE DEF i
  <2>3. Grown(more, credit, n, Budget)
    BY <1>1, <2>1, TotalGrows
  <2> HIDE DEF more
  <2> QED
    BY <1>2, <2>2, <2>3
<1>3. CASE o.winner # "attacker"
    BY <1>1, <1>3 DEF Grown
<1> QED
    BY <1>2, <1>3

LEMMA RunTaskKeeps == SybilInv /\ RunTask => SybilInv'
<1> SUFFICES ASSUME SybilInv, RunTask PROVE SybilInv'
    OBVIOUS
<1>1. PICK draw \in Draws :
         \E single \in Outcomes(IdentitySuccesses(draw.units, "single"), draw.honest),
            split \in Outcomes(IdentitySuccesses(draw.units, "split"), draw.honest) :
          LET won == [l \in Lanes |-> IF l = "single" THEN single ELSE split]
          IN  /\ Agree(single, split)
              /\ lockstep' = SameCalls(single, split)
              /\ byIdentity' = [l \in Lanes |->
                    IF won[l].winner # "attacker" THEN byIdentity[l]
                    ELSE [byIdentity[l] EXCEPT ![won[l].identity] = @ + Budget]]
              /\ byOperator' = [l \in Lanes |->
                    IF won[l].winner # "honest" THEN byOperator[l]
                    ELSE [byOperator[l] EXCEPT ![won[l].operator] = @ + Budget]]
              /\ allocated' = [l \in Lanes |->
                    IF won[l].winner = "nobody" THEN allocated[l] ELSE allocated[l] + 1]
    BY DEF RunTask
<1> DEFINE a == IdentitySuccesses(draw.units, "single")
           b == IdentitySuccesses(draw.units, "split")
           n == Count("single")
           p == Count("split")
           honest == draw.honest
<1>2. PICK single \in Outcomes(a, honest), split \in Outcomes(b, honest) :
          /\ Agree(single, split)
          /\ lockstep' = SameCalls(single, split)
          /\ LET won == [l \in Lanes |-> IF l = "single" THEN single ELSE split]
             IN  /\ byIdentity' = [l \in Lanes |->
                       IF won[l].winner # "attacker" THEN byIdentity[l]
                       ELSE [byIdentity[l] EXCEPT ![won[l].identity] = @ + Budget]]
                 /\ byOperator' = [l \in Lanes |->
                       IF won[l].winner # "honest" THEN byOperator[l]
                       ELSE [byOperator[l] EXCEPT ![won[l].operator] = @ + Budget]]
                 /\ allocated' = [l \in Lanes |->
                       IF won[l].winner = "nobody" THEN allocated[l] ELSE allocated[l] + 1]
    BY <1>1
<1>3. lockstep /\ capacityModel' = capacityModel /\ trials' = trials /\ InStep
      /\ capacityModel \in CapacityModels /\ SplitNeutral
    BY DEF RunTask, SybilInv
<1>4. draw.units \in [1..Units -> {0, 1}] /\ honest \in [1..Operators -> Nat]
  <2>1. draw.units \in [1..Units -> {0, 1}] /\ draw.honest \in [1..Operators -> {0, 1}]
    BY DEF Draws
  <2>2. {0, 1} \subseteq Nat
    OBVIOUS
  <2>3. \A f \in [1..Operators -> {0, 1}] : f \in [1..Operators -> Nat]
    BY <2>2
  <2> QED
    BY <2>1, <2>3
<1>5. "single" \in Lanes /\ "split" \in Lanes /\ "single" # "split"
    BY DEF Lanes
<1>6. n \in Nat /\ p \in Nat /\ a \in [1..n -> Nat] /\ b \in [1..p -> Nat] /\ Total(a) = Total(b)
    BY <1>4, <1>5, CountIs, SuccessesAre
<1> DEFINE one == byIdentity["single"]
           many == byIdentity["split"]
<1>7. one \in [1..n -> Nat] /\ many \in [1..p -> Nat]
    BY <1>5 DEF SybilInv
<1>8. /\ byIdentity'["single"] = IF single.winner # "attacker" THEN one
                                 ELSE Credited(one, single.identity, Budget)
      /\ byIdentity'["split"] = IF split.winner # "attacker" THEN many
                                ELSE Credited(many, split.identity, Budget)
      /\ byOperator'["single"] = IF single.winner # "honest" THEN byOperator["single"]
                                 ELSE [byOperator["single"] EXCEPT ![single.operator] = @ + Budget]
      /\ byOperator'["split"] = IF split.winner # "honest" THEN byOperator["split"]
                                ELSE [byOperator["split"] EXCEPT ![split.operator] = @ + Budget]
      /\ allocated'["single"] = IF single.winner = "nobody" THEN allocated["single"] ELSE allocated["single"] + 1
      /\ allocated'["split"] = IF split.winner = "nobody" THEN allocated["split"] ELSE allocated["split"] + 1
      /\ DOMAIN byIdentity' = Lanes /\ DOMAIN byOperator' = Lanes /\ DOMAIN allocated' = Lanes
    BY <1>2, <1>5 DEF Credited
<1> HIDE DEF a, b, n, p, honest, one, many
<1>9. /\ byIdentity'["single"] \in [1..n -> Nat]
      /\ Total(byIdentity'["single"]) = Total(one) + IF single.winner = "attacker" THEN Budget ELSE 0
  <2> DEFINE next == byIdentity'["single"]
  <2>1. next = IF single.winner # "attacker" THEN one ELSE Credited(one, single.identity, Budget)
    BY <1>8
  <2> HIDE DEF next
  <2>2. Grown(next, one, n, IF single.winner = "attacker" THEN Budget ELSE 0)
    BY <1>3, <1>4, <1>6, <1>7, <2>1, CreditGrows
  <2> QED
    BY <2>2 DEF Grown, next
<1>10. /\ byIdentity'["split"] \in [1..p -> Nat]
       /\ Total(byIdentity'["split"]) = Total(many) + IF split.winner = "attacker" THEN Budget ELSE 0
  <2> DEFINE next == byIdentity'["split"]
  <2>1. next = IF split.winner # "attacker" THEN many ELSE Credited(many, split.identity, Budget)
    BY <1>8
  <2> HIDE DEF next
  <2>2. Grown(next, many, p, IF split.winner = "attacker" THEN Budget ELSE 0)
    BY <1>3, <1>4, <1>6, <1>7, <2>1, CreditGrows
  <2> QED
    BY <2>2 DEF Grown, next
<1>11. lockstep' \in BOOLEAN
    BY <1>2 DEF SameCalls
<1>12. capacityModel # "IDENTITY_UNIFORM" => lockstep'
    BY <1>2, <1>3, <1>4, <1>6, LanesStayTogether
<1>13. ASSUME lockstep' PROVE InStep'
  <2>1. SameCalls(single, split) /\ Agree(single, split)
    BY <1>2, <1>13
  <2>2. single.winner = split.winner
    BY <2>1 DEF SameCalls, Agree
  <2>3. single.winner = "honest" => single.operator = split.operator
    BY <2>1, <2>2 DEF SameCalls, Agree
  <2>4. Total(one) = Total(many) /\ byOperator["single"] = byOperator["split"]
        /\ allocated["single"] = allocated["split"]
    BY <1>3 DEF InStep, one, many
  <2>5. Total(byIdentity'["single"]) = Total(byIdentity'["split"])
    BY <1>9, <1>10, <2>2, <2>4
  <2>6. byOperator'["single"] = byOperator'["split"] /\ allocated'["single"] = allocated'["split"]
    BY <1>8, <2>2, <2>3, <2>4
  <2> QED
    BY <2>5, <2>6 DEF InStep
<1>14. SplitNeutral'
    BY <1>3, <1>12 DEF SplitNeutral
<1>15. \A l \in Lanes : byIdentity'[l] \in [1..Count(l) -> Nat] /\ Whole(trials'[l])
  <2>1. \A l \in Lanes : Whole(trials'[l])
    BY <1>3 DEF SybilInv
  <2>2. \A l \in Lanes : l = "single" \/ l = "split"
    BY DEF Lanes
  <2> QED
    BY <1>9, <1>10, <2>1, <2>2 DEF n, p
<1>16. DOMAIN trials' = Lanes /\ Len(trials'["single"]) = Len(trials'["split"])
    BY <1>3 DEF SybilInv
<1> QED
    BY <1>3, <1>8, <1>11, <1>13, <1>14, <1>15, <1>16 DEF SybilInv

LEMMA OneTrialMore ==
    ASSUME NEW t, Whole(t), NEW e
    PROVE  /\ Whole(Append(t, e)) /\ Len(Append(t, e)) = Len(t) + 1
           /\ Append(t, e)[Len(t) + 1] = e /\ \A i \in 1..Len(t) : Append(t, e)[i] = t[i]
<1> DEFINE k == Len(t)
           S == {t[i] : i \in 1..k} \cup {e}
<1>1. k \in Nat /\ t = [i \in 1..k |-> t[i]]
    BY DEF Whole
<1>2. t \in Seq(S) /\ e \in S
  <2>1. \A i \in 1..k : t[i] \in S
    OBVIOUS
  <2> HIDE DEF S, k
  <2> QED
    BY <1>1, <2>1 DEF S
<1> HIDE DEF S
<1> DEFINE u == Append(t, e)
<1>3. /\ u \in Seq(S) /\ Len(u) = Len(t) + 1
      /\ \A i \in 1..Len(t) : u[i] = t[i]
      /\ u[Len(t) + 1] = e
    BY <1>2, AppendProperties
<1> HIDE DEF u
<1>4. Whole(u)
    BY <1>3 DEF Whole
<1> QED
    BY <1>3, <1>4 DEF u

\* Two lanes in step end a simulation with the same figures, but for the weight in
\* the models that weigh identities apart.
LEMMA TrialsAgree ==
    ASSUME capacityModel \in CapacityModels, InStep
    PROVE  LET one == Trial("single")
               many == Trial("split")
           IN  /\ <<one.credit, one.honest, one.allocated>> = <<many.credit, many.honest, many.allocated>>
               /\ capacityModel \notin {"IDENTITY_UNIFORM", "CONCENTRATION_CAP_ABLATION"} => one = many
<1> DEFINE one == Trial("single")
           many == Trial("split")
           c == byIdentity["single"]
           d == byIdentity["split"]
<1>1. Total(c) = Total(d) /\ byOperator["single"] = byOperator["split"] /\ allocated["single"] = allocated["split"]
    BY DEF InStep
<1>2. one.credit = many.credit /\ one.honest = many.honest /\ one.allocated = many.allocated
    BY <1>1 DEF Trial
<1>3. ASSUME capacityModel \notin {"IDENTITY_UNIFORM", "CONCENTRATION_CAP_ABLATION"}
      PROVE  AttackerWeight(c) = AttackerWeight(d)
  <2> HIDE DEF c, d
  <2>1. CASE capacityModel = "TASK_BUDGET_ONLY_ABLATION"
    <3>1. AttackerWeight(c) = Total(c) /\ AttackerWeight(d) = Total(d)
      BY <2>1 DEF AttackerWeight
    <3> QED
      BY <1>1, <3>1
  <2>2. CASE capacityModel = "COLLATERAL_CAP_ABLATION"
    <3>1. /\ AttackerWeight(c) = LeastOf(Total(c), ConcentrationCap)
          /\ AttackerWeight(d) = LeastOf(Total(d), ConcentrationCap)
      BY <2>2 DEF AttackerWeight
    <3> QED
      BY <1>1, <3>1
  <2>3. CASE capacityModel \in {"CAPACITY_COMMITTED", "OPERATOR_SLOT"}
    <3>1. /\ AttackerWeight(c) = ActiveWeight(Total(c), AttackerCollateral)
          /\ AttackerWeight(d) = ActiveWeight(Total(d), AttackerCollateral)
      BY <2>3 DEF AttackerWeight
    <3> QED
      BY <1>1, <3>1
  <2> QED
    BY <1>3, <2>1, <2>2, <2>3 DEF CapacityModels
<1>4. ASSUME capacityModel \notin {"IDENTITY_UNIFORM", "CONCENTRATION_CAP_ABLATION"} PROVE one = many
    BY <1>1, <1>3, <1>4 DEF Trial
<1> HIDE DEF one, many
<1> QED
    BY <1>2, <1>4 DEF one, many

LEMMA EndSimulationKeeps == SybilInv /\ EndSimulation => SybilInv'
<1> SUFFICES ASSUME SybilInv, EndSimulation PROVE SybilInv'
    OBVIOUS
<1>1. /\ lockstep /\ capacityModel' = capacityModel /\ lockstep' = lockstep
      /\ byIdentity' = Fresh.byIdentity /\ byOperator' = Fresh.byOperator /\ allocated' = Fresh.allocated
      /\ trials' = [l \in Lanes |-> Append(trials[l], Trial(l))]
    BY DEF EndSimulation
<1>2. "single" \in Lanes /\ "split" \in Lanes
    BY DEF Lanes
<1>3. capacityModel \in CapacityModels /\ lockstep \in BOOLEAN /\ InStep /\ SplitNeutral
    BY <1>1 DEF SybilInv
<1>4. DOMAIN trials' = Lanes /\ \A l \in Lanes : trials'[l] = Append(trials[l], Trial(l))
    BY <1>1
<1> DEFINE s == trials["single"]
           t == trials["split"]
           k == Len(s)
<1>5. Whole(s) /\ Whole(t) /\ Len(t) = k
    BY <1>2 DEF SybilInv
<1>6. k \in Nat
    BY <1>5 DEF Whole
<1>7. /\ Len(trials'["single"]) = k + 1 /\ trials'["single"][k + 1] = Trial("single")
      /\ \A i \in 1..k : trials'["single"][i] = s[i]
    BY <1>2, <1>4, <1>5, OneTrialMore
<1>8. /\ Len(trials'["split"]) = k + 1 /\ trials'["split"][k + 1] = Trial("split")
      /\ \A i \in 1..k : trials'["split"][i] = t[i]
    BY <1>2, <1>4, <1>5, OneTrialMore
<1>9. \A l \in Lanes : Whole(trials'[l])
  <2> SUFFICES ASSUME NEW l \in Lanes PROVE Whole(trials'[l])
    OBVIOUS
  <2>1. Whole(trials[l]) /\ trials'[l] = Append(trials[l], Trial(l))
    BY <1>4 DEF SybilInv
  <2> QED
    BY <2>1, OneTrialMore
<1>10. InStep'
    BY <1>1, <1>2, FreshIs DEF InStep
<1> DEFINE Same(one, many) ==
               /\ <<one.credit, one.honest, one.allocated>> = <<many.credit, many.honest, many.allocated>>
               /\ capacityModel \notin {"IDENTITY_UNIFORM", "CONCENTRATION_CAP_ABLATION"} => one = many
<1>11. \A i \in 1..k : Same(s[i], t[i])
    BY <1>3 DEF SplitNeutral
<1>12. Same(Trial("single"), Trial("split"))
    BY <1>3, TrialsAgree
<1>13. SplitNeutral'
  <2> HIDE DEF s, t, k, Same
  <2>1. ASSUME NEW i \in 1..(k + 1) PROVE Same(trials'["single"][i], trials'["split"][i])
    <3>1. i \in 1..k \/ i = k + 1
      BY <1>6
    <3> QED
      BY <1>7, <1>8, <1>11, <1>12, <3>1
  <2> QED
    BY <1>1, <1>7, <2>1 DEF SplitNeutral, Same
<1> HIDE DEF s, t, k
<1>14. /\ DOMAIN byIdentity' = Lanes /\ DOMAIN byOperator' = Lanes /\ DOMAIN allocated' = Lanes
       /\ \A l \in Lanes : byIdentity'[l] \in [1..Count(l) -> Nat]
    BY <1>1, FreshIs
<1> QED
    BY <1>1, <1>3, <1>4, <1>7, <1>8, <1>9, <1>10, <1>13, <1>14 DEF SybilInv

LEMMA SybilNextInv == SybilInv /\ [SybilNext]_sybilVars => SybilInv'
<1> SUFFICES ASSUME SybilInv, [SybilNext]_sybilVars PROVE SybilInv'
    OBVIOUS
<1>1. CASE RunTask
    BY <1>1, RunTaskKeeps
<1>2. CASE EndSimulation
    BY <1>2, EndSimulationKeeps
<1>3. CASE UNCHANGED sybilVars
    BY <1>3 DEF sybilVars, SybilInv, InStep, SplitNeutral
<1> QED
    BY <1>1, <1>2, <1>3 DEF SybilNext

\* Splitting into identities changes nothing that the simulation records, in every
\* capacity model the reports claim it for: the tickets of a roll depend on the
\* successes of the attacker's units together, so runs from one seed stay in step,
\* and two that did end each simulation with the same figures.
THEOREM SplitsAreNeutral == SybilInit /\ [][SybilNext]_sybilVars => []SplitNeutral
<1>1. SybilInv => SplitNeutral
    BY DEF SybilInv
<1> QED
    BY <1>1, SybilInitInv, SybilNextInv, PTL

-----------------------------------------------------------------------------
(* WatcherGame: powers *)

\* The recursion that defines a power has a solution.
LEMMA PowerIs ==
    ASSUME NEW b \in Int, NEW n \in Nat
    PROVE  \E p : /\ DOMAIN p = 0..n /\ p[0] = 1 /\ \A k \in 1..n : p[k] = b * p[k - 1]
                  /\ \A k \in 0..n : p[k] \in Int
                  /\ Power(b, n) = p[n]
<1> DEFINE Rec(p, m) == p = [k \in 0..m |-> IF k = 0 THEN 1 ELSE b * p[k - 1]]
           Whole0(m) == \E p : Rec(p, m) /\ \A k \in 0..m : p[k] \in Int
           Good == {m \in 1..n : Whole0(m)}
<1>1. Whole0(0)
  <2> DEFINE p == [k \in 0..0 |-> 1]
  <2>1. Rec(p, 0) /\ \A k \in 0..0 : p[k] \in Int
    OBVIOUS
  <2> QED
    BY <2>1
<1>2. ASSUME NEW m \in Nat, Whole0(m) PROVE Whole0(m + 1)
  <2>1. PICK p : Rec(p, m) /\ \A k \in 0..m : p[k] \in Int
    BY <1>2
  <2> DEFINE q == [k \in 0..(m + 1) |-> IF k = 0 THEN 1 ELSE b * p[k - 1]]
  <2>2. \A k \in 0..m : q[k] = p[k]
    BY <2>1
  <2>3. \A k \in 0..(m + 1) : k # 0 => k - 1 \in 0..m
    OBVIOUS
  <2>4. \A k \in 0..(m + 1) : q[k] = (IF k = 0 THEN 1 ELSE b * p[k - 1]) /\ q[k] \in Int
    <3> SUFFICES ASSUME NEW k \in 0..(m + 1)
                 PROVE  q[k] = (IF k = 0 THEN 1 ELSE b * p[k - 1]) /\ q[k] \in Int
      OBVIOUS
    <3>1. k # 0 => p[k - 1] \in Int
      BY <2>1, <2>3
    <3>2. k # 0 => b * p[k - 1] \in Int
      BY <3>1
    <3>3. q[k] = IF k = 0 THEN 1 ELSE b * p[k - 1]
      OBVIOUS
    <3> HIDE DEF q
    <3> QED
      BY <3>2, <3>3
  <2>5. q = [k \in 0..(m + 1) |-> q[k]]
    OBVIOUS
  <2> HIDE DEF q
  <2>6. \A k \in 0..(m + 1) : q[k] = IF k = 0 THEN 1 ELSE b * q[k - 1]
    BY <2>2, <2>3, <2>4
  <2>7. Rec(q, m + 1)
    BY <2>5, <2>6
  <2> QED
    BY <2>4, <2>7
<1>3. Whole0(n)
  <2> HIDE DEF Whole0
  <2>1. n > 0 => 1 \in Good
    <3>1. Whole0(0 + 1)
      BY <1>1, <1>2
    <3>2. 0 + 1 = 1
      OBVIOUS
    <3>3. Whole0(1)
      BY <3>1, <3>2
    <3> QED
      BY <3>3
  <2>2. \A m \in Good : m < n => m + 1 \in Good
    BY <1>2
  <2>3. Good \in SUBSET (1..n)
    OBVIOUS
  <2> HIDE DEF Good
  <2>4. Good = 1..n
    BY <2>1, <2>2, <2>3, CountingUp
  <2> QED
    BY <1>1, <2>4 DEF Good
<1> DEFINE p == CHOOSE p : Rec(p, n)
<1>4. Rec(p, n) /\ Power(b, n) = p[n]
  <2>1. \E q : Rec(q, n)
    BY <1>3
  <2>2. Power(b, n) = p[n]
    BY DEF Power
  <2> HIDE DEF Rec
  <2> QED
    BY <2>1, <2>2
<1>5. PICK q : Rec(q, n) /\ \A k \in 0..n : q[k] \in Int
    BY <1>3
<1> HIDE DEF p
<1>6. /\ DOMAIN p = 0..n /\ p[0] = 1 /\ \A k \in 1..n : p[k] = b * p[k - 1]
  <2>1. DOMAIN p = 0..n /\ \A k \in 0..n : p[k] = IF k = 0 THEN 1 ELSE b * p[k - 1]
    BY <1>4
  <2> QED
    BY <2>1
<1>7. /\ q[0] = 1 /\ \A k \in 1..n : q[k] = b * q[k - 1]
  <2>1. DOMAIN q = 0..n /\ \A k \in 0..n : q[k] = IF k = 0 THEN 1 ELSE b * q[k - 1]
    BY <1>5
  <2> QED
    BY <2>1
<1>8. \A k \in 0..n : p[k] \in Int
  <2> DEFINE Same == {k \in 1..n : p[k] = q[k]}
  <2>1. p[0] = q[0]
    BY <1>6, <1>7
  <2>2. n > 0 => 1 \in Same
    <3>1. n > 0 => p[1] = b * p[1 - 1] /\ q[1] = b * q[1 - 1] /\ 1 - 1 = 0
      BY <1>6, <1>7
    <3> QED
      BY <2>1, <3>1
  <2>3. \A m \in Same : m < n => m + 1 \in Same
    <3> SUFFICES ASSUME NEW m \in Same, m < n PROVE m + 1 \in Same
      OBVIOUS
    <3>1. m + 1 \in 1..n /\ (m + 1) - 1 = m /\ p[m] = q[m]
      OBVIOUS
    <3>2. p[m + 1] = b * p[m] /\ q[m + 1] = b * q[m]
      BY <1>6, <1>7, <3>1
    <3> QED
      BY <3>1, <3>2
  <2>4. Same \in SUBSET (1..n)
    OBVIOUS
  <2> HIDE DEF Same
  <2>5. Same = 1..n
    BY <2>2, <2>3, <2>4, CountingUp
  <2>6. \A k \in 0..n : p[k] = q[k]
    BY <2>1, <2>5 DEF Same
  <2> QED
    BY <1>5, <2>6
<1> QED
    BY <1>4, <1>6, <1>8

\* A power by its recursion.
LEMMA PowersGrow ==
    ASSUME NEW b \in Int
    PROVE  /\ Power(b, 0) = 1
           /\ \A n \in Nat : Power(b, n) \in Int /\ Power(b, n + 1) = b * Power(b, n)
<1>1. Power(b, 0) = 1
  <2>1. PICK p : p[0] = 1 /\ Power(b, 0) = p[0]
    BY PowerIs
  <2> QED
    BY <2>1
<1>2. ASSUME NEW n \in Nat PROVE Power(b, n) \in Int /\ Power(b, n + 1) = b * Power(b, n)
  <2> DEFINE m == n + 1
  <2>1. PICK p : /\ p[0] = 1 /\ \A k \in 1..n : p[k] = b * p[k - 1]
                 /\ \A k \in 0..n : p[k] \in Int
                 /\ Power(b, n) = p[n]
    BY PowerIs
  <2>2. m \in Nat
    OBVIOUS
  <2>3. PICK q : /\ q[0] = 1 /\ \A k \in 1..m : q[k] = b * q[k - 1]
                 /\ Power(b, m) = q[m]
    <3> HIDE DEF m
    <3> QED
      BY <2>2, PowerIs
  <2> DEFINE Same == {k \in 1..n : p[k] = q[k]}
  <2>4. n > 0 => 1 \in Same
    <3>1. n > 0 => p[1] = b * p[1 - 1] /\ q[1] = b * q[1 - 1] /\ 1 - 1 = 0
      BY <2>1, <2>3
    <3> QED
      BY <2>1, <2>3, <3>1
  <2>5. \A k \in Same : k < n => k + 1 \in Same
    <3> SUFFICES ASSUME NEW k \in Same, k < n PROVE k + 1 \in Same
      OBVIOUS
    <3>1. k + 1 \in 1..n /\ k + 1 \in 1..m /\ (k + 1) - 1 = k /\ p[k] = q[k]
      OBVIOUS
    <3>2. p[k + 1] = b * p[k] /\ q[k + 1] = b * q[k]
      BY <2>1, <2>3, <3>1
    <3> QED
      BY <3>1, <3>2
  <2>6. Same \in SUBSET (1..n)
    OBVIOUS
  <2> HIDE DEF Same
  <2>7. Same = 1..n
    BY <2>4, <2>5, <2>6, CountingUp
  <2>8. p[n] = q[n]
    BY <2>1, <2>3, <2>7 DEF Same
  <2>9. q[m] = b * q[n]
    <3>1. m \in 1..m /\ m - 1 = n
      OBVIOUS
    <3> HIDE DEF m
    <3> QED
      BY <2>3, <3>1
  <2>10. p[n] \in Int
    BY <2>1
  <2> QED
    BY <2>1, <2>3, <2>8, <2>9, <2>10
<1> QED
    BY <1>1, <1>2

-----------------------------------------------------------------------------
(* WatcherGame: the invariant *)

\* The states of a walk by what is silenced, and of those what is not yet challenged
\* or stopped.
Open == {t \in Walk : ~t.silenced}
Quiet(silenced) == {t \in Walk : t.silenced = silenced /\ ~t.challenged}
Unstopped(silenced) == {t \in Walk : t.silenced = silenced /\ ~t.stopped}

\* Of w watchers, those who take the bribe and those who challenge.
Bribed(w) == IF w <= game.colluding THEN w ELSE game.colluding
Free(w) == w - Bribed(w)

\* What a spared watcher who takes the bribe earns on average, and one who does not.
BribeWorth == game.online * game.discovery * Square * game.bribe
ChallengeWorth == Attempt * (game.success * (Reward + game.subsidy) - (Scale - game.success) * Bond)

Gross(w) ==
    IF w = 0 THEN 0 ELSE Power(Full, w - 1) * (Spared * (Bribed(w) * BribeWorth + Free(w) * ChallengeWorth))

\* After w watchers.
Walked(w) ==
    /\ MassOf(Walk) = Square * Power(Full, w) /\ MassOf(Open) = Spared * Power(Full, w)
    /\ MassOf(Quiet(TRUE)) = (Square - Spared) * Power(Full, w)
    /\ MassOf(Unstopped(TRUE)) = (Square - Spared) * Power(Full, w)
    /\ MassOf(Quiet(FALSE)) = Spared * (Power(Full, Bribed(w)) * Power(Full - Attempt * Scale, Free(w)))
    /\ MassOf(Unstopped(FALSE)) = Spared * (Power(Full, Bribed(w)) * Power(Full - Attempt * game.success, Free(w)))
    /\ utility.watchers = Gross(w) - Square * (Power(Full, w) * SumFunctionOnSet(Costs, 1..w))
    /\ utility.auditor = 0

WatcherInv ==
    /\ game \in Scenarios /\ watched \in 0..(Watchers + 1) /\ mass \in [Walk -> Int]
    /\ watched <= Watchers => Walked(watched)
    /\ SimulatesClosedForm

-----------------------------------------------------------------------------
(* WatcherGame: where the weight of a walk goes *)

\* The sum over four members.
FourOf(a, b, c, d) == {a, b, c, d}

LEMMA SumOfFour ==
    ASSUME NEW f, NEW a, NEW b, NEW c, NEW d, a # b, a # c, a # d, b # c, b # d, c # d,
           \A x \in FourOf(a, b, c, d) : f[x] \in Int
    PROVE  SumFunctionOnSet(f, FourOf(a, b, c, d)) = f[a] + f[b] + f[c] + f[d]
<1>0. f[a] \in Int /\ f[b] \in Int /\ f[c] \in Int /\ f[d] \in Int
    BY DEF FourOf
<1>1. SumFunctionOnSet(f, {a}) = f[a]
  <2>1. IsFiniteSet({a}) /\ a \in {a} /\ \A y \in {a} \ {a} : f[y] = 0
    BY <1>0, FS_Singleton
  <2> QED
    BY <1>0, <2>1, SumOfOnly
<1> DEFINE A == {a}
           B == A \cup {b}
           C == B \cup {c}
           D == C \cup {d}
<1>2. IsFiniteSet(A) /\ b \notin A /\ \A y \in A \cup {b} : f[y] \in Int
    BY <1>0, FS_Singleton
<1>3. IsFiniteSet(B) /\ c \notin B /\ \A y \in B \cup {c} : f[y] \in Int
    BY <1>0, FS_Singleton, FS_Union
<1>4. IsFiniteSet(C) /\ d \notin C /\ \A y \in C \cup {d} : f[y] \in Int
    BY <1>0, <1>3, FS_Singleton, FS_Union
<1>6. SumFunctionOnSet(f, B) = SumFunctionOnSet(f, A) + f[b]
    BY <1>2, SumOfOneMore
<1>7. SumFunctionOnSet(f, C) = SumFunctionOnSet(f, B) + f[c]
    BY <1>3, SumOfOneMore
<1>8. SumFunctionOnSet(f, D) = SumFunctionOnSet(f, C) + f[d]
    BY <1>4, SumOfOneMore
<1>9. D = FourOf(a, b, c, d)
    BY DEF FourOf
<1>10. SumFunctionOnSet(f, D) = f[a] + f[b] + f[c] + f[d]
  <2> HIDE DEF B, C, D
  <2> QED
    BY <1>0, <1>1, <1>6, <1>7, <1>8 DEF A
<1> HIDE DEF D
<1> QED
    BY <1>9, <1>10

\* The events of a turn, by whether the watcher is online and discovers the fraud.
Turn(o, i, c, s) == [online |-> o, discovers |-> i, challenges |-> c, wins |-> s]
Block(o, i) == {d \in Turns : d.online = o /\ d.discovers = i}

LEMMA BlockIs ==
    \A o, i \in BOOLEAN :
        /\ Block(o, i) = {Turn(o, i, TRUE, TRUE), Turn(o, i, TRUE, FALSE),
                          Turn(o, i, FALSE, TRUE), Turn(o, i, FALSE, FALSE)}
        /\ IsFiniteSet(Block(o, i))
<1> SUFFICES ASSUME NEW o \in BOOLEAN, NEW i \in BOOLEAN
             PROVE  /\ Block(o, i) = {Turn(o, i, TRUE, TRUE), Turn(o, i, TRUE, FALSE),
                                      Turn(o, i, FALSE, TRUE), Turn(o, i, FALSE, FALSE)}
                    /\ IsFiniteSet(Block(o, i))
    OBVIOUS
<1> DEFINE four == {Turn(o, i, TRUE, TRUE), Turn(o, i, TRUE, FALSE), Turn(o, i, FALSE, TRUE), Turn(o, i, FALSE, FALSE)}
<1>1. four \subseteq Block(o, i)
    BY DEF Block, Turns, Turn
<1>2. ASSUME NEW d \in Block(o, i) PROVE d \in four
  <2>1. d = [online |-> d.online, discovers |-> d.discovers, challenges |-> d.challenges, wins |-> d.wins]
    BY DEF Block, Turns
  <2>2. d.online = o /\ d.discovers = i /\ d.challenges \in BOOLEAN /\ d.wins \in BOOLEAN
    BY DEF Block, Turns
  <2>3. d = Turn(o, i, d.challenges, d.wins)
    BY <2>1, <2>2 DEF Turn
  <2>4. (d.challenges = TRUE \/ d.challenges = FALSE) /\ (d.wins = TRUE \/ d.wins = FALSE)
    BY <2>2
  <2> QED
    BY <2>3, <2>4
<1>3. IsFiniteSet(four)
  <2> DEFINE a == {Turn(o, i, TRUE, TRUE)} \cup {Turn(o, i, TRUE, FALSE)}
             b == {Turn(o, i, FALSE, TRUE)} \cup {Turn(o, i, FALSE, FALSE)}
  <2>1. IsFiniteSet(a) /\ IsFiniteSet(b)
    BY FS_Singleton, FS_Union
  <2>2. four = a \cup b
    OBVIOUS
  <2> HIDE DEF four, a, b
  <2> QED
    BY <2>1, <2>2, FS_Union
<1> QED
    BY <1>1, <1>2, <1>3

\* The events of a turn are finitely many, in four blocks.
LEMMA TurnsFinite ==
    /\ IsFiniteSet(Turns)
    /\ Turns = (Block(TRUE, TRUE) \cup Block(TRUE, FALSE)) \cup (Block(FALSE, TRUE) \cup Block(FALSE, FALSE))
<1> DEFINE a == Block(TRUE, TRUE) \cup Block(TRUE, FALSE)
           b == Block(FALSE, TRUE) \cup Block(FALSE, FALSE)
<1>1. Turns = a \cup b
    BY DEF Turns, Block
<1>2. IsFiniteSet(a) /\ IsFiniteSet(b)
  <2>1. \A o, i \in BOOLEAN : IsFiniteSet(Block(o, i))
    BY BlockIs
  <2>2. IsFiniteSet(Block(TRUE, TRUE)) /\ IsFiniteSet(Block(TRUE, FALSE))
        /\ IsFiniteSet(Block(FALSE, TRUE)) /\ IsFiniteSet(Block(FALSE, FALSE))
    BY <2>1
  <2> QED
    BY <2>2, FS_Union
<1>3. IsFiniteSet(a \cup b)
  <2> HIDE DEF a, b
  <2> QED
    BY <1>2, FS_Union
<1> QED
    BY <1>1, <1>3

\* So are the states of a walk.
LEMMA WalkFinite == IsFiniteSet(Walk)
<1> DEFINE State(s, c, p) == [silenced |-> s, challenged |-> c, stopped |-> p]
           Pair(s, c) == {State(s, c, TRUE)} \cup {State(s, c, FALSE)}
           a == Pair(TRUE, TRUE) \cup Pair(TRUE, FALSE)
           b == Pair(FALSE, TRUE) \cup Pair(FALSE, FALSE)
<1>1. \A s, c \in BOOLEAN : IsFiniteSet(Pair(s, c))
    BY FS_Singleton, FS_Union
<1>2. Walk \subseteq a \cup b
  <2> SUFFICES ASSUME NEW t \in Walk PROVE t \in a \cup b
    OBVIOUS
  <2>1. t = State(t.silenced, t.challenged, t.stopped)
    BY DEF Walk
  <2>2. t.silenced \in BOOLEAN /\ t.challenged \in BOOLEAN /\ t.stopped \in BOOLEAN
    BY DEF Walk
  <2> HIDE DEF State
  <2>3. t \in Pair(t.silenced, t.challenged)
    <3>1. t.stopped = TRUE \/ t.stopped = FALSE
      BY <2>2
    <3> QED
      BY <2>1, <3>1
  <2> HIDE DEF Pair
  <2>4. /\ t.silenced = TRUE \/ t.silenced = FALSE
        /\ t.challenged = TRUE \/ t.challenged = FALSE
    BY <2>2
  <2> QED
    BY <2>3, <2>4
<1> HIDE DEF Pair
<1>3. IsFiniteSet(a) /\ IsFiniteSet(b)
    BY <1>1, FS_Union
<1> HIDE DEF a, b
<1> QED
    BY <1>2, <1>3, FS_Union, FS_Subset

\* What the events of a turn have of the probability: noticing the fraud, and then
\* winning or losing a challenge.
Chances == [d \in Turns |-> TurnChance(d)]
ChanceOf(D) == SumFunctionOnSet(Chances, D)
Heeded == Block(TRUE, TRUE)
Won == {Turn(TRUE, TRUE, TRUE, TRUE)}
Lost == {Turn(TRUE, TRUE, TRUE, FALSE)}

\* What a scenario holds.
LEMMA GameIs ==
    ASSUME game \in Scenarios
    PROVE  /\ Scale \in Nat \ {0} /\ Watchers \in Nat \ {0} /\ game.conviction \in Nat
           /\ game.outage \in Int /\ game.infrastructure \in Int /\ game.online \in Int /\ game.discovery \in Int
           /\ game.challenge \in Int /\ game.success \in Int /\ game.detection \in Nat
           /\ game.bribe \in Nat /\ game.subsidy \in Nat
           /\ game.colluding \in 0..Watchers
           /\ {WatchCost, Bond, Reward, AuditorCost, AuditorReward} \subseteq Nat
           /\ game.family = "INDEPENDENT" =>
                 game.outage = 0 /\ game.infrastructure = 0 /\ game.colluding = 0 /\ game.detection = 0
<1>1. Scale \in Nat \ {0} /\ Watchers \in Nat \ {0} /\ Offers \subseteq Nat
      /\ {WatchCost, Bond, Reward, AuditorCost, AuditorReward} \subseteq Nat
    BY WatcherAssumption
<1>2. SharedRates \cup OnlineRates \cup NoticeRates \cup SuccessRates \cup AuditRates \subseteq Nat
  <2>1. 0..Scale \subseteq Nat
    BY <1>1
  <2> QED
    BY <2>1, WatcherAssumption
<1>3. /\ game.outage \in SharedRates /\ game.infrastructure \in SharedRates /\ game.online \in OnlineRates
      /\ game.discovery \in NoticeRates /\ game.challenge \in NoticeRates /\ game.success \in SuccessRates
      /\ game.colluding \in 0..Watchers /\ game.bribe \in Offers /\ game.subsidy \in Offers
      /\ game.detection \in AuditRates /\ game.conviction \in AuditRates /\ ValidFamily(game)
    BY DEF Scenarios
<1>4. game.family = "INDEPENDENT" =>
          game.outage = 0 /\ game.infrastructure = 0 /\ game.colluding = 0 /\ game.detection = 0
    BY <1>3 DEF ValidFamily
<1>5. game.outage \in Int /\ game.infrastructure \in Int /\ game.online \in Int /\ game.discovery \in Int
      /\ game.challenge \in Int /\ game.success \in Int /\ game.detection \in Nat /\ game.conviction \in Nat
    BY <1>2, <1>3
<1>6. game.bribe \in Nat /\ game.subsidy \in Nat
    BY <1>1, <1>3
<1> QED
    BY <1>1, <1>3, <1>4, <1>5, <1>6

\* The chances of these events.
LEMMA ChancesAre ==
    ASSUME game \in Scenarios
    PROVE  /\ \A d \in Turns : Chances[d] \in Int
           /\ ChanceOf(Heeded) = game.online * game.discovery * Square
           /\ ChanceOf(Won) = Attempt * game.success
           /\ ChanceOf(Lost) = Attempt * (Scale - game.success)
           /\ ChanceOf(Turns) = Full
<1> DEFINE S == Scale
           o == game.online
           i == game.discovery
           c == game.challenge
           s == game.success
<1>1. S \in Int /\ o \in Int /\ i \in Int /\ c \in Int /\ s \in Int
    BY GameIs
<1> HIDE DEF S, o, i, c, s
<1>2. \A p, q, u, v \in BOOLEAN :
          /\ Turn(p, q, u, v) \in Turns
          /\ Chances[Turn(p, q, u, v)] = (IF p THEN o ELSE S - o) * (IF q THEN i ELSE S - i)
                                         * (IF u THEN c ELSE S - c) * (IF v THEN s ELSE S - s)
    BY DEF Turns, Turn, Chances, TurnChance, Chance, S, o, i, c, s
<1>3. ASSUME NEW d \in Turns PROVE Chances[d] \in Int
  <2>1. Chances[d] = (IF d.online THEN o ELSE S - o) * (IF d.discovers THEN i ELSE S - i)
                     * (IF d.challenges THEN c ELSE S - c) * (IF d.wins THEN s ELSE S - s)
    BY DEF Turns, Chances, TurnChance, Chance, S, o, i, c, s
  <2> DEFINE e == IF d.online THEN o ELSE S - o
             f == IF d.discovers THEN i ELSE S - i
             g == IF d.challenges THEN c ELSE S - c
             h == IF d.wins THEN s ELSE S - s
  <2>2. e \in Int /\ f \in Int /\ g \in Int /\ h \in Int
    BY <1>1
  <2> HIDE DEF e, f, g, h
  <2>3. e * f * g * h \in Int
    BY <2>2
  <2> QED
    BY <2>1, <2>3 DEF e, f, g, h
<1>4. ASSUME NEW p \in BOOLEAN, NEW q \in BOOLEAN
      PROVE  ChanceOf(Block(p, q)) = (IF p THEN o ELSE S - o) * (IF q THEN i ELSE S - i) * (S * S)
  <2> DEFINE x == IF p THEN o ELSE S - o
             y == IF q THEN i ELSE S - i
             A == Turn(p, q, TRUE, TRUE)
             B == Turn(p, q, TRUE, FALSE)
             C == Turn(p, q, FALSE, TRUE)
             D == Turn(p, q, FALSE, FALSE)
  <2>1. x \in Int /\ y \in Int
    BY <1>1
  <2>2. A # B /\ A # C /\ A # D /\ B # C /\ B # D /\ C # D
    <3>1. /\ A.challenges = TRUE /\ A.wins = TRUE /\ B.challenges = TRUE /\ B.wins = FALSE
          /\ C.challenges = FALSE /\ C.wins = TRUE /\ D.challenges = FALSE /\ D.wins = FALSE
      BY DEF Turn
    <3> HIDE DEF A, B, C, D
    <3> QED
      BY <3>1
  <2>3. /\ Chances[A] = x * y * c * s /\ Chances[B] = x * y * c * (S - s)
        /\ Chances[C] = x * y * (S - c) * s /\ Chances[D] = x * y * (S - c) * (S - s)
    <3> HIDE DEF x, y
    <3> QED
      BY <1>2 DEF x, y
  <2> HIDE DEF x, y, A, B, C, D
  <2>4. Chances[A] \in Int /\ Chances[B] \in Int /\ Chances[C] \in Int /\ Chances[D] \in Int
    BY <1>1, <2>1, <2>3
  <2>5. SumFunctionOnSet(Chances, FourOf(A, B, C, D)) = Chances[A] + Chances[B] + Chances[C] + Chances[D]
    <3>1. \A z \in FourOf(A, B, C, D) : Chances[z] \in Int
      BY <2>4 DEF FourOf
    <3> QED
      BY <2>2, <3>1, SumOfFour
  <2>6. ChanceOf(Block(p, q)) = x * y * c * s + x * y * c * (S - s) + x * y * (S - c) * s + x * y * (S - c) * (S - s)
    BY <2>3, <2>5, BlockIs DEF ChanceOf, FourOf, A, B, C, D
  <2>7. x * y * c * s + x * y * c * (S - s) + x * y * (S - c) * s + x * y * (S - c) * (S - s) = x * y * (S * S)
    <3>1. x * y * c * s + x * y * c * (S - s) = x * y * c * S
      BY <1>1, <2>1
    <3>2. x * y * (S - c) * s + x * y * (S - c) * (S - s) = x * y * (S - c) * S
      BY <1>1, <2>1
    <3>3. x * y * c * S + x * y * (S - c) * S = x * y * (S * S)
      BY <1>1, <2>1
    <3> DEFINE e == x * y * c * s
               f == x * y * c * (S - s)
               g == x * y * (S - c) * s
               h == x * y * (S - c) * (S - s)
    <3>4. e \in Int /\ f \in Int /\ g \in Int /\ h \in Int
      BY <1>1, <2>1
    <3> HIDE DEF e, f, g, h
    <3>5. e + f + g + h = (e + f) + (g + h)
      BY <3>4
    <3> QED
      BY <3>1, <3>2, <3>3, <3>5 DEF e, f, g, h
  <2> QED
    BY <2>6, <2>7 DEF x, y
<1>5. ChanceOf(Heeded) = o * i * (S * S)
    BY <1>4 DEF Heeded
<1>6. ChanceOf(Won) = (o * i * c) * s /\ ChanceOf(Lost) = (o * i * c) * (S - s)
  <2> DEFINE A == Turn(TRUE, TRUE, TRUE, TRUE)
             B == Turn(TRUE, TRUE, TRUE, FALSE)
  <2>1. A \in Turns /\ B \in Turns /\ Chances[A] = o * i * c * s /\ Chances[B] = o * i * c * (S - s)
    BY <1>2
  <2> HIDE DEF A, B
  <2>2. \A z : IsFiniteSet({z}) /\ z \in {z} /\ \A y \in {z} \ {z} : Chances[y] = 0
    BY FS_Singleton
  <2>3. SumFunctionOnSet(Chances, {A}) = Chances[A]
    BY <1>3, <2>1, <2>2, SumOfOnly
  <2>4. SumFunctionOnSet(Chances, {B}) = Chances[B]
    BY <1>3, <2>1, <2>2, SumOfOnly
  <2> QED
    BY <2>1, <2>3, <2>4 DEF ChanceOf, Won, Lost, A, B
<1>7. ChanceOf(Turns) = (S * S) * (S * S)
  <2> DEFINE a == Block(TRUE, TRUE)
             b == Block(TRUE, FALSE)
             e == Block(FALSE, TRUE)
             f == Block(FALSE, FALSE)
  <2>1. /\ IsFiniteSet(a) /\ IsFiniteSet(b) /\ IsFiniteSet(e) /\ IsFiniteSet(f)
        /\ a \cap b = {} /\ e \cap f = {} /\ (a \cup b) \cap (e \cup f) = {}
        /\ \A d \in (a \cup b) \cup (e \cup f) : Chances[d] \in Int
    <3>1. \A d \in (a \cup b) \cup (e \cup f) : d \in Turns
      BY DEF Block
    <3>2. a \cap b = {} /\ e \cap f = {} /\ (a \cup b) \cap (e \cup f) = {}
      BY DEF Block
    <3>3. IsFiniteSet(a) /\ IsFiniteSet(b) /\ IsFiniteSet(e) /\ IsFiniteSet(f)
      BY BlockIs
    <3> QED
      BY <1>3, <3>1, <3>2, <3>3
  <2>2. /\ ChanceOf(a) = o * i * (S * S) /\ ChanceOf(b) = o * (S - i) * (S * S)
        /\ ChanceOf(e) = (S - o) * i * (S * S) /\ ChanceOf(f) = (S - o) * (S - i) * (S * S)
    BY <1>4
  <2>3. Turns = (a \cup b) \cup (e \cup f)
    BY TurnsFinite
  <2> HIDE DEF a, b, e, f
  <2>4. ChanceOf(a \cup b) = ChanceOf(a) + ChanceOf(b)
    BY <2>1, SumOfUnion DEF ChanceOf
  <2>5. ChanceOf(e \cup f) = ChanceOf(e) + ChanceOf(f)
    BY <2>1, SumOfUnion DEF ChanceOf
  <2>6. IsFiniteSet(a \cup b) /\ IsFiniteSet(e \cup f)
    BY <2>1, FS_Union
  <2>7. ChanceOf((a \cup b) \cup (e \cup f)) = ChanceOf(a \cup b) + ChanceOf(e \cup f)
    BY <2>1, <2>6, SumOfUnion DEF ChanceOf
  <2> DEFINE Q == S * S
  <2>8. Q \in Int
    BY <1>1
  <2>9. o * i * Q + o * (S - i) * Q = o * S * Q /\ (S - o) * i * Q + (S - o) * (S - i) * Q = (S - o) * S * Q
    <3> HIDE DEF Q
    <3> QED
      BY <1>1, <2>8
  <2>10. o * S * Q + (S - o) * S * Q = (S * S) * Q
    <3> HIDE DEF Q
    <3> QED
      BY <1>1, <2>8
  <2> QED
    BY <2>2, <2>3, <2>4, <2>5, <2>7, <2>9, <2>10
<1>8. Attempt = o * i * c /\ Square = S * S /\ Full = (S * S) * (S * S)
    BY DEF Attempt, Square, Full, S, o, i, c
<1> QED
    BY <1>3, <1>5, <1>6, <1>7, <1>8 DEF S, o, i, s

\* Of independent draws, a state and then an event of U, the weight of a rectangle.
Weighs(weight, U, g) == \A x \in Walk \X U : weight[x] = mass[x[1]] * g[x[2]]

LEMMA Rectangle ==
    ASSUME mass \in [Walk -> Int], NEW U, IsFiniteSet(U), NEW g, \A d \in U : g[d] \in Int,
           NEW weight, Weighs(weight, U, g),
           NEW T \in SUBSET Walk, NEW D \in SUBSET U
    PROVE  SumFunctionOnSet(weight, PairsOf(T, D)) = MassOf(T) * SumFunctionOnSet(g, D)
<1>1. IsFiniteSet(T) /\ IsFiniteSet(D)
    BY WalkFinite, FS_Subset
<1>2. (\A t \in T : mass[t] \in Int) /\ (\A d \in D : g[d] \in Int)
    OBVIOUS
<1>3. \A t \in T, d \in D : weight[PairOf(t, d)] = mass[t] * g[d]
  <2> SUFFICES ASSUME NEW t \in T, NEW d \in D PROVE weight[PairOf(t, d)] = mass[t] * g[d]
    OBVIOUS
  <2>1. PairOf(t, d) \in Walk \X U /\ PairOf(t, d)[1] = t /\ PairOf(t, d)[2] = d
    BY DEF PairOf
  <2> QED
    BY <2>1 DEF Weighs
<1>4. SumFunctionOnSet(weight, PairsOf(T, D)) = SumFunctionOnSet(mass, T) * SumFunctionOnSet(g, D)
    BY <1>1, <1>2, <1>3, SumOfProducts
<1> QED
    BY <1>4 DEF MassOf

\* The weight that a step brings to the states T is that of the rectangle it comes from.
Gathers(after, weight, U, to) == \A t \in Walk : after[t] = SumFunctionOnSet(weight, Fibre(Walk \X U, to, t))
ComesFrom(U, to, T, R, D) == Fibres(Walk \X U, to, T) = PairsOf(R, D)

LEMMA MassComesFrom ==
    ASSUME mass \in [Walk -> Int], NEW U, IsFiniteSet(U), NEW g, \A d \in U : g[d] \in Int,
           NEW weight, Weighs(weight, U, g),
           NEW to, NEW after, Gathers(after, weight, U, to),
           NEW T \in SUBSET Walk, NEW R \in SUBSET Walk, NEW D \in SUBSET U,
           ComesFrom(U, to, T, R, D)
    PROVE  SumFunctionOnSet(after, T) = MassOf(R) * SumFunctionOnSet(g, D)
<1> DEFINE X == Walk \X U
<1>1. IsFiniteSet(X) /\ \A x \in X : weight[x] \in Int
  <2>1. IsFiniteSet(X)
    BY WalkFinite, FS_Product
  <2>2. \A x \in X : mass[x[1]] \in Int /\ g[x[2]] \in Int
    OBVIOUS
  <2> QED
    BY <2>1, <2>2 DEF Weighs
<1>2. IsFiniteSet(T)
    BY WalkFinite, FS_Subset
<1>3. \A t \in T : after[t] = SumFunctionOnSet(weight, Fibre(X, to, t))
    BY DEF Gathers
<1>4. SumFunctionOnSet(after, T) = SumFunctionOnSet(weight, Fibres(X, to, T))
  <2> HIDE DEF X
  <2> QED
    BY <1>1, <1>2, <1>3, SumByFibres
<1>5. SumFunctionOnSet(weight, PairsOf(R, D)) = MassOf(R) * SumFunctionOnSet(g, D)
    BY Rectangle
<1>6. Fibres(X, to, T) = PairsOf(R, D)
    BY DEF ComesFrom
<1> QED
    BY <1>4, <1>5, <1>6, Zenon

\* Weights that are paid by the region they are in.
PaysByRegion(paid, weight, X, A, B, a, b, c) ==
    \A x \in X : paid[x] = weight[x] * (IF x \in A THEN a + c ELSE IF x \in B THEN b + c ELSE c)

LEMMA PaidByRegion ==
    ASSUME NEW X, IsFiniteSet(X), NEW weight, \A x \in X : weight[x] \in Int,
           NEW A \in SUBSET X, NEW B \in SUBSET X, A \cap B = {},
           NEW a \in Int, NEW b \in Int, NEW c \in Int, NEW paid,
           PaysByRegion(paid, weight, X, A, B, a, b, c)
    PROVE  SumFunctionOnSet(paid, X)
              = a * SumFunctionOnSet(weight, A) + b * SumFunctionOnSet(weight, B) + c * SumFunctionOnSet(weight, X)
<1> DEFINE AB == A \cup B
           C == X \ AB
           ac == a + c
           bc == b + c
<1>1. IsFiniteSet(A) /\ IsFiniteSet(B) /\ IsFiniteSet(AB) /\ IsFiniteSet(C) /\ AB \cap C = {} /\ X = AB \cup C
    BY FS_Subset
<1>2. ac \in Int /\ bc \in Int
    OBVIOUS
<1>3. /\ \A x \in A : paid[x] = ac * weight[x]
      /\ \A x \in B : paid[x] = bc * weight[x]
      /\ \A x \in C : paid[x] = c * weight[x]
  <2>1. ASSUME NEW x \in A PROVE paid[x] = ac * weight[x]
    <3>1. paid[x] = weight[x] * ac /\ weight[x] \in Int
      BY DEF PaysByRegion
    <3> HIDE DEF ac
    <3> QED
      BY <1>2, <3>1
  <2>2. ASSUME NEW x \in B PROVE paid[x] = bc * weight[x]
    <3>1. paid[x] = weight[x] * bc /\ weight[x] \in Int
      BY DEF PaysByRegion
    <3> HIDE DEF bc
    <3> QED
      BY <1>2, <3>1
  <2>3. ASSUME NEW x \in C PROVE paid[x] = c * weight[x]
    <3>1. paid[x] = weight[x] * c /\ weight[x] \in Int
      BY DEF PaysByRegion
    <3> QED
      BY <3>1
  <2> QED
    BY <2>1, <2>2, <2>3
<1>4. \A x \in X : paid[x] \in Int
  <2> SUFFICES ASSUME NEW x \in X PROVE paid[x] \in Int
    OBVIOUS
  <2>1. x \in A \/ x \in B \/ x \in C
    OBVIOUS
  <2>2. weight[x] \in Int /\ ac * weight[x] \in Int /\ bc * weight[x] \in Int /\ c * weight[x] \in Int
    <3> HIDE DEF ac, bc
    <3> QED
      BY <1>2
  <2> HIDE DEF ac, bc, C
  <2> QED
    BY <1>3, <2>1, <2>2
<1> HIDE DEF AB, C, ac, bc
<1>5. SumFunctionOnSet(paid, A) = ac * SumFunctionOnSet(weight, A)
    BY <1>1, <1>2, <1>3, SumOfMultiples
<1>6. SumFunctionOnSet(paid, B) = bc * SumFunctionOnSet(weight, B)
    BY <1>1, <1>2, <1>3, SumOfMultiples
<1>7. SumFunctionOnSet(paid, C) = c * SumFunctionOnSet(weight, C)
    BY <1>1, <1>3, SumOfMultiples DEF C
<1>8. \A f : (\A x \in X : f[x] \in Int) =>
          /\ SumFunctionOnSet(f, X) = SumFunctionOnSet(f, A) + SumFunctionOnSet(f, B) + SumFunctionOnSet(f, C)
          /\ SumFunctionOnSet(f, A) \in Int /\ SumFunctionOnSet(f, B) \in Int /\ SumFunctionOnSet(f, C) \in Int
  <2> SUFFICES ASSUME NEW f, \A x \in X : f[x] \in Int
               PROVE  /\ SumFunctionOnSet(f, X)
                            = SumFunctionOnSet(f, A) + SumFunctionOnSet(f, B) + SumFunctionOnSet(f, C)
                      /\ SumFunctionOnSet(f, A) \in Int /\ SumFunctionOnSet(f, B) \in Int /\ SumFunctionOnSet(f, C) \in Int
    OBVIOUS
  <2>0. \A x \in AB \cup C : f[x] \in Int
    BY <1>1
  <2>1. \A x \in A \cup B : f[x] \in Int
    OBVIOUS
  <2>2. SumFunctionOnSet(f, A \cup B) = SumFunctionOnSet(f, A) + SumFunctionOnSet(f, B)
    BY <1>1, <2>1, SumOfUnion
  <2>3. SumFunctionOnSet(f, AB \cup C) = SumFunctionOnSet(f, AB) + SumFunctionOnSet(f, C)
    BY <1>1, <2>0, SumOfUnion
  <2>4. SumFunctionOnSet(f, A) \in Int /\ SumFunctionOnSet(f, B) \in Int /\ SumFunctionOnSet(f, C) \in Int
    <3>1. (\A x \in A : f[x] \in Int) /\ (\A x \in B : f[x] \in Int) /\ (\A x \in C : f[x] \in Int)
      BY DEF C
    <3> QED
      BY <1>1, <3>1, SumIsInt
  <2> QED
    BY <1>1, <2>2, <2>3, <2>4 DEF AB
<1> DEFINE p == SumFunctionOnSet(weight, A)
           q == SumFunctionOnSet(weight, B)
           r == SumFunctionOnSet(weight, C)
<1>9. p \in Int /\ q \in Int /\ r \in Int /\ SumFunctionOnSet(weight, X) = p + q + r
    BY <1>8
<1>10. SumFunctionOnSet(paid, X) = ac * p + bc * q + c * r
    BY <1>4, <1>5, <1>6, <1>7, <1>8
<1> HIDE DEF p, q, r
<1>11. (a + c) * p + (b + c) * q + c * r = a * p + b * q + c * (p + q + r)
    BY <1>9
<1> QED
    BY <1>9, <1>10, <1>11 DEF ac, bc, p, q

-----------------------------------------------------------------------------
(* WatcherGame: one watcher's turn *)

\* The same events by what happens in them.
LEMMA WonIs ==
    \A d \in Turns : /\ d \in Won <=> d.online /\ d.discovers /\ d.challenges /\ d.wins
                     /\ d \in Lost <=> d.online /\ d.discovers /\ d.challenges /\ ~d.wins
                     /\ d \in Heeded <=> d.online /\ d.discovers
<1> SUFFICES ASSUME NEW d \in Turns
             PROVE  /\ d \in Won <=> d.online /\ d.discovers /\ d.challenges /\ d.wins
                    /\ d \in Lost <=> d.online /\ d.discovers /\ d.challenges /\ ~d.wins
                    /\ d \in Heeded <=> d.online /\ d.discovers
    OBVIOUS
<1>1. d = [online |-> d.online, discovers |-> d.discovers, challenges |-> d.challenges, wins |-> d.wins]
      /\ d.online \in BOOLEAN /\ d.discovers \in BOOLEAN /\ d.challenges \in BOOLEAN /\ d.wins \in BOOLEAN
    BY DEF Turns
<1>2. d \in Won <=> d.online /\ d.discovers /\ d.challenges /\ d.wins
    BY <1>1 DEF Won, Turn
<1>3. d \in Lost <=> d.online /\ d.discovers /\ d.challenges /\ ~d.wins
    BY <1>1 DEF Lost, Turn
<1>4. d \in Heeded <=> d.online /\ d.discovers
    BY <1>1 DEF Heeded, Block
<1> QED
    BY <1>2, <1>3, <1>4

\* What a watcher's turn does to a state.
LEMMA AfterTurnIs ==
    \A t \in Walk, d \in Turns, w \in Int :
        /\ AfterTurn(t, d, w) \in Walk
        /\ AfterTurn(t, d, w).silenced = t.silenced
        /\ AfterTurn(t, d, w).challenged <=> t.challenged \/ Challenges(t, d, w)
        /\ AfterTurn(t, d, w).stopped <=> t.stopped \/ (Challenges(t, d, w) /\ d.wins)
<1> SUFFICES ASSUME NEW t \in Walk, NEW d \in Turns, NEW w \in Int
             PROVE  /\ AfterTurn(t, d, w) \in Walk
                    /\ AfterTurn(t, d, w).silenced = t.silenced
                    /\ AfterTurn(t, d, w).challenged <=> t.challenged \/ Challenges(t, d, w)
                    /\ AfterTurn(t, d, w).stopped <=> t.stopped \/ (Challenges(t, d, w) /\ d.wins)
    OBVIOUS
<1> DEFINE moved == [t EXCEPT !.challenged = TRUE, !.stopped = t.stopped \/ d.wins]
<1>1. moved \in Walk /\ moved.silenced = t.silenced /\ moved.challenged = TRUE /\ moved.stopped = (t.stopped \/ d.wins)
    BY DEF Walk
<1>2. AfterTurn(t, d, w) = IF Challenges(t, d, w) THEN moved ELSE t
    BY DEF AfterTurn
<1> HIDE DEF moved
<1>3. CASE Challenges(t, d, w)
    BY <1>1, <1>2, <1>3
<1>4. CASE ~Challenges(t, d, w)
    BY <1>2, <1>4
<1> QED
    BY <1>3, <1>4

AfterThe(w) == [x \in Walk \X Turns |-> AfterTurn(x[1], x[2], w)]

\* Where the weight of the regions comes from in a watcher's turn.
LEMMA TurnRegions ==
    ASSUME game.colluding \in Int, NEW w \in Int
    PROVE  /\ ComesFrom(Turns, AfterThe(w), Walk, Walk, Turns)
           /\ ComesFrom(Turns, AfterThe(w), Open, Open, Turns)
           /\ ComesFrom(Turns, AfterThe(w), Quiet(TRUE), Quiet(TRUE), Turns)
           /\ ComesFrom(Turns, AfterThe(w), Unstopped(TRUE), Unstopped(TRUE), Turns)
           /\ w <= game.colluding =>
                 /\ ComesFrom(Turns, AfterThe(w), Quiet(FALSE), Quiet(FALSE), Turns)
                 /\ ComesFrom(Turns, AfterThe(w), Unstopped(FALSE), Unstopped(FALSE), Turns)
           /\ w > game.colluding =>
                 /\ ComesFrom(Turns, AfterThe(w), Quiet(FALSE), Quiet(FALSE), Turns \ (Won \cup Lost))
                 /\ ComesFrom(Turns, AfterThe(w), Unstopped(FALSE), Unstopped(FALSE), Turns \ Won)
<1> DEFINE X == Walk \X Turns
<1>1. ASSUME NEW T \in SUBSET Walk, NEW R \in SUBSET Walk, NEW D \in SUBSET Turns,
             \A t \in Walk, d \in Turns : AfterTurn(t, d, w) \in T <=> t \in R /\ d \in D
      PROVE  ComesFrom(Turns, AfterThe(w), T, R, D)
  <2>1. \A x \in X : x[1] \in Walk /\ x[2] \in Turns /\ AfterThe(w)[x] = AfterTurn(x[1], x[2], w)
    BY DEF AfterThe
  <2>2. \A x \in X : AfterThe(w)[x] \in T <=> x[1] \in R /\ x[2] \in D
    BY <1>1, <2>1
  <2>3. \A x : x \in R \X D <=> x \in X /\ x[1] \in R /\ x[2] \in D
    OBVIOUS
  <2> QED
    BY <2>2, <2>3 DEF Fibres, ComesFrom, PairsOf
<1>2. /\ \A t \in Walk : t.silenced \in BOOLEAN /\ t.challenged \in BOOLEAN /\ t.stopped \in BOOLEAN
      /\ \A s \in BOOLEAN : Quiet(s) \in SUBSET Walk /\ Unstopped(s) \in SUBSET Walk
      /\ Open \in SUBSET Walk /\ Turns \ (Won \cup Lost) \in SUBSET Turns /\ Turns \ Won \in SUBSET Turns
    BY DEF Walk, Quiet, Unstopped, Open
<1>3. ComesFrom(Turns, AfterThe(w), Walk, Walk, Turns)
  <2>1. \A t \in Walk, d \in Turns : AfterTurn(t, d, w) \in Walk <=> t \in Walk /\ d \in Turns
    BY AfterTurnIs
  <2> QED
    BY <1>1, <2>1
<1>4. ComesFrom(Turns, AfterThe(w), Open, Open, Turns)
  <2>1. \A t \in Walk, d \in Turns : AfterTurn(t, d, w) \in Open <=> t \in Open /\ d \in Turns
    BY AfterTurnIs DEF Open
  <2> QED
    BY <1>1, <1>2, <2>1
<1>5. ASSUME NEW s \in BOOLEAN, \A t \in Walk, d \in Turns : t.silenced = s => ~Challenges(t, d, w)
      PROVE  /\ ComesFrom(Turns, AfterThe(w), Quiet(s), Quiet(s), Turns)
             /\ ComesFrom(Turns, AfterThe(w), Unstopped(s), Unstopped(s), Turns)
  <2>1. \A t \in Walk, d \in Turns : AfterTurn(t, d, w) \in Quiet(s) <=> t \in Quiet(s) /\ d \in Turns
    BY <1>5, AfterTurnIs DEF Quiet
  <2>2. \A t \in Walk, d \in Turns : AfterTurn(t, d, w) \in Unstopped(s) <=> t \in Unstopped(s) /\ d \in Turns
    BY <1>5, AfterTurnIs DEF Unstopped
  <2>3. ComesFrom(Turns, AfterThe(w), Quiet(s), Quiet(s), Turns)
    BY <1>1, <1>2, <2>1
  <2>4. ComesFrom(Turns, AfterThe(w), Unstopped(s), Unstopped(s), Turns)
    BY <1>1, <1>2, <2>2
  <2> QED
    BY <2>3, <2>4
<1>6. /\ ComesFrom(Turns, AfterThe(w), Quiet(TRUE), Quiet(TRUE), Turns)
      /\ ComesFrom(Turns, AfterThe(w), Unstopped(TRUE), Unstopped(TRUE), Turns)
  <2>1. \A t \in Walk, d \in Turns : t.silenced = TRUE => ~Challenges(t, d, w)
    BY DEF Challenges, Aware
  <2> QED
    BY <1>5, <2>1
<1>7. w <= game.colluding => /\ ComesFrom(Turns, AfterThe(w), Quiet(FALSE), Quiet(FALSE), Turns)
                             /\ ComesFrom(Turns, AfterThe(w), Unstopped(FALSE), Unstopped(FALSE), Turns)
  <2>1. w <= game.colluding => \A t \in Walk, d \in Turns : t.silenced = FALSE => ~Challenges(t, d, w)
    BY DEF Challenges, Aware
  <2> QED
    BY <1>5, <2>1
<1>8. ASSUME w > game.colluding
      PROVE  /\ ComesFrom(Turns, AfterThe(w), Quiet(FALSE), Quiet(FALSE), Turns \ (Won \cup Lost))
             /\ ComesFrom(Turns, AfterThe(w), Unstopped(FALSE), Unstopped(FALSE), Turns \ Won)
  <2>1. \A t \in Walk, d \in Turns : t.silenced = FALSE =>
            (Challenges(t, d, w) <=> d.online /\ d.discovers /\ d.challenges)
    BY <1>8 DEF Challenges, Aware
  <2>2. \A t \in Walk, d \in Turns :
            AfterTurn(t, d, w) \in Quiet(FALSE) <=> t \in Quiet(FALSE) /\ d \in Turns \ (Won \cup Lost)
    BY <2>1, AfterTurnIs, WonIs DEF Quiet
  <2>3. \A t \in Walk, d \in Turns :
            AfterTurn(t, d, w) \in Unstopped(FALSE) <=> t \in Unstopped(FALSE) /\ d \in Turns \ Won
    BY <2>1, AfterTurnIs, WonIs DEF Unstopped
  <2>4. ComesFrom(Turns, AfterThe(w), Quiet(FALSE), Quiet(FALSE), Turns \ (Won \cup Lost))
    BY <1>1, <1>2, <2>2
  <2>5. ComesFrom(Turns, AfterThe(w), Unstopped(FALSE), Unstopped(FALSE), Turns \ Won)
    BY <1>1, <1>2, <2>3
  <2> QED
    BY <2>4, <2>5
<1> QED
    BY <1>3, <1>4, <1>6, <1>7, <1>8

\* The weights after a turn, by where they come from.
LEMMA TurnMass ==
    ASSUME game \in Scenarios, mass \in [Walk -> Int], WatcherTurn, NEW w, w = watched + 1
    PROVE  /\ mass' \in [Walk -> Int]
           /\ \A T \in SUBSET Walk, R \in SUBSET Walk, D \in SUBSET Turns :
                 ComesFrom(Turns, AfterThe(w), T, R, D) =>
                    SumFunctionOnSet(mass', T) = MassOf(R) * ChanceOf(D)
<1> DEFINE X == Walk \X Turns
           weight == [x \in X |-> mass[x[1]] * TurnChance(x[2])]
<1>1. mass' = [t \in Walk |-> SumFunctionOnSet(weight, {x \in X : AfterTurn(x[1], x[2], w) = t})]
    BY DEF WatcherTurn
<1>2. \A t : {x \in X : AfterTurn(x[1], x[2], w) = t} = Fibre(X, AfterThe(w), t)
    BY DEF Fibre, AfterThe
<1>3. \A d \in Turns : Chances[d] \in Int
    BY ChancesAre
<1>4. \A x \in X : weight[x] = mass[x[1]] * Chances[x[2]]
    BY DEF Chances
<1>5. IsFiniteSet(Turns)
    BY TurnsFinite
<1>6. IsFiniteSet(X) /\ \A x \in X : weight[x] \in Int
  <2>1. IsFiniteSet(X)
    BY <1>5, WalkFinite, FS_Product
  <2>2. \A x \in X : mass[x[1]] \in Int /\ Chances[x[2]] \in Int
    BY <1>3
  <2> HIDE DEF weight
  <2> QED
    BY <1>4, <2>1, <2>2
<1> HIDE DEF weight
<1>7. mass' = [t \in Walk |-> SumFunctionOnSet(weight, Fibre(X, AfterThe(w), t))]
    BY <1>1, <1>2
<1>8. mass' \in [Walk -> Int]
  <2>1. \A t \in Walk : SumFunctionOnSet(weight, Fibre(X, AfterThe(w), t)) \in Int
    <3> SUFFICES ASSUME NEW t \in Walk PROVE SumFunctionOnSet(weight, Fibre(X, AfterThe(w), t)) \in Int
      OBVIOUS
    <3> HIDE DEF X
    <3>1. Fibre(X, AfterThe(w), t) \subseteq X
      BY DEF Fibre
    <3>2. IsFiniteSet(Fibre(X, AfterThe(w), t))
      BY <1>6, <3>1, FS_Subset
    <3> QED
      BY <1>6, <3>1, <3>2, SumIsInt
  <2> QED
    BY <1>7, <2>1
<1>9. \A t \in Walk : mass'[t] = SumFunctionOnSet(weight, Fibre(Walk \X Turns, AfterThe(w), t))
    BY <1>7
<1>10. ASSUME NEW T \in SUBSET Walk, NEW R \in SUBSET Walk, NEW D \in SUBSET Turns,
              ComesFrom(Turns, AfterThe(w), T, R, D)
       PROVE  SumFunctionOnSet(mass', T) = MassOf(R) * SumFunctionOnSet(Chances, D)
  <2> DEFINE after == mass'
  <2> HIDE DEF after
  <2>1. Gathers(after, weight, Turns, AfterThe(w))
    BY <1>9 DEF after, Gathers
  <2>2. SumFunctionOnSet(after, T) = MassOf(R) * SumFunctionOnSet(Chances, D)
    <3>1. Weighs(weight, Turns, Chances)
      BY <1>4 DEF Weighs
    <3> QED
      BY <1>3, <1>5, <1>10, <2>1, <3>1, MassComesFrom
  <2> QED
    BY <2>2 DEF after
<1> QED
    BY <1>8, <1>10 DEF ChanceOf

\* What watching costs.
LEMMA CostIsNat == ASSUME game \in Scenarios PROVE \A w \in 1..Watchers : Cost(w) \in Nat
<1>1. WatchCost \in Nat
    BY GameIs
<1>2. OwnCosts \in [1..Watchers -> Nat]
    BY WatcherAssumption
<1> QED
    BY <1>1, <1>2 DEF Cost

\* What a watcher earns in a state and an event, by their region.
LEMMA EarnedByRegion ==
    ASSUME game \in Scenarios, NEW w \in 1..Watchers, NEW t \in Walk, NEW d \in Turns
    PROVE  /\ w <= game.colluding =>
                 Earned(t, d, w) = IF t \in Open /\ d \in Heeded THEN game.bribe + (-Cost(w)) ELSE -Cost(w)
           /\ w > game.colluding =>
                 Earned(t, d, w) = IF t \in Open /\ d \in Won THEN (Reward + game.subsidy) + (-Cost(w))
                                   ELSE IF t \in Open /\ d \in Lost THEN (-Bond) + (-Cost(w)) ELSE -Cost(w)
<1>1. /\ w \in Int /\ Cost(w) \in Nat /\ game.colluding \in Int /\ game.bribe \in Int
      /\ Reward \in Int /\ game.subsidy \in Int /\ Bond \in Int
    BY CostIsNat, GameIs
<1>2. /\ d \in Won <=> d.online /\ d.discovers /\ d.challenges /\ d.wins
      /\ d \in Lost <=> d.online /\ d.discovers /\ d.challenges /\ ~d.wins
      /\ d \in Heeded <=> d.online /\ d.discovers
    BY WonIs
<1>3. t \in Open <=> ~t.silenced
    BY DEF Open
<1> DEFINE aware == Aware(t, d)
           challenges == Challenges(t, d, w)
<1>4. aware <=> t \in Open /\ d \in Heeded
    BY <1>2, <1>3 DEF Aware
<1>5. challenges <=> aware /\ w > game.colluding /\ d.challenges
    BY DEF Challenges
<1> HIDE DEF aware, challenges
<1>6. Earned(t, d, w) = (CASE aware /\ w <= game.colluding -> game.bribe
                            [] challenges -> IF d.wins THEN Reward + game.subsidy ELSE -Bond
                            [] OTHER -> 0) - Cost(w)
    BY DEF Earned, aware, challenges
<1>7. ASSUME w <= game.colluding
      PROVE  Earned(t, d, w) = IF t \in Open /\ d \in Heeded THEN game.bribe + (-Cost(w)) ELSE -Cost(w)
  <2>1. ~challenges
    BY <1>1, <1>5, <1>7
  <2>2. CASE aware
    <3>1. Earned(t, d, w) = game.bribe - Cost(w)
      BY <1>6, <1>7, <2>1, <2>2
    <3> QED
      BY <1>1, <1>4, <2>2, <3>1
  <2>3. CASE ~aware
    <3>1. Earned(t, d, w) = 0 - Cost(w)
      BY <1>6, <2>1, <2>3
    <3> QED
      BY <1>1, <1>4, <2>3, <3>1
  <2> QED
    BY <2>2, <2>3
<1>8. ASSUME w > game.colluding
      PROVE  Earned(t, d, w) = IF t \in Open /\ d \in Won THEN (Reward + game.subsidy) + (-Cost(w))
                               ELSE IF t \in Open /\ d \in Lost THEN (-Bond) + (-Cost(w)) ELSE -Cost(w)
  <2>1. ~(w <= game.colluding)
    BY <1>1, <1>8
  <2>2. challenges <=> t \in Open /\ d \in Heeded /\ d.challenges
    BY <1>4, <1>5, <1>8
  <2>3. CASE challenges /\ d.wins
    <3>1. Earned(t, d, w) = (Reward + game.subsidy) - Cost(w)
      BY <1>6, <2>1, <2>3
    <3>2. t \in Open /\ d \in Won
      BY <1>2, <2>2, <2>3
    <3> QED
      BY <1>1, <3>1, <3>2
  <2>4. CASE challenges /\ ~d.wins
    <3>1. Earned(t, d, w) = (-Bond) - Cost(w)
      BY <1>6, <2>1, <2>4
    <3>2. t \in Open /\ d \in Lost /\ d \notin Won
      BY <1>2, <2>2, <2>4
    <3> QED
      BY <1>1, <3>1, <3>2
  <2>5. CASE ~challenges
    <3>1. Earned(t, d, w) = 0 - Cost(w)
      BY <1>6, <2>1, <2>5
    <3>2. ~(t \in Open /\ d \in Won) /\ ~(t \in Open /\ d \in Lost)
      BY <1>2, <2>2, <2>5
    <3> QED
      BY <1>1, <3>1, <3>2
  <2> QED
    BY <2>3, <2>4, <2>5
<1> QED
    BY <1>7, <1>8

\* What a turn adds to the watchers' utility.
TurnEarns(w) ==
    (IF w <= game.colluding THEN game.bribe * (MassOf(Open) * ChanceOf(Heeded))
     ELSE (Reward + game.subsidy) * (MassOf(Open) * ChanceOf(Won)) - Bond * (MassOf(Open) * ChanceOf(Lost)))
    - Cost(w) * (MassOf(Walk) * ChanceOf(Turns))

\* The utility after a turn.
LEMMA TurnUtility ==
    ASSUME game \in Scenarios, mass \in [Walk -> Int], WatcherTurn, watched \in Nat, NEW w, w = watched + 1
    PROVE  utility' = [watchers |-> utility.watchers * Full + TurnEarns(w), auditor |-> 0]
<1> DEFINE X == Walk \X Turns
           weight == [x \in X |-> mass[x[1]] * TurnChance(x[2])]
           earned == [x \in X |-> weight[x] * Earned(x[1], x[2], w)]
           cost == -Cost(w)
           A == PairsOf(Open, Heeded)
           B == PairsOf(Open, Won)
           C == PairsOf(Open, Lost)
<1>1. utility' = [watchers |-> utility.watchers * Full + SumFunctionOnSet(earned, X), auditor |-> 0]
    BY DEF WatcherTurn
<1>2. \A d \in Turns : Chances[d] \in Int
    BY ChancesAre
<1>3. w \in 1..Watchers /\ w \in Nat /\ Cost(w) \in Nat /\ game.colluding \in Int /\ game.bribe \in Int
      /\ game.subsidy \in Int /\ Reward \in Int /\ Bond \in Int /\ cost \in Int
  <2>1. w \in 1..Watchers
    BY WatcherAssumption DEF WatcherTurn
  <2> QED
    BY <2>1, CostIsNat, GameIs
<1>4. IsFiniteSet(Turns) /\ IsFiniteSet(X)
    BY TurnsFinite, WalkFinite, FS_Product
<1>5. Weighs(weight, Turns, Chances)
    BY DEF Weighs, Chances
<1>6. \A x \in X : weight[x] \in Int
    BY <1>2, <1>5 DEF Weighs
<1>7. \A x \in X : earned[x] = weight[x] * Earned(x[1], x[2], w) /\ x[1] \in Walk /\ x[2] \in Turns
    OBVIOUS
<1>8. /\ Open \in SUBSET Walk /\ Walk \in SUBSET Walk /\ Turns \in SUBSET Turns
      /\ Heeded \in SUBSET Turns /\ Won \in SUBSET Turns /\ Lost \in SUBSET Turns
    BY DEF Open, Heeded, Block, Won, Lost, Turn, Turns
<1>9. /\ A \in SUBSET X /\ B \in SUBSET X /\ C \in SUBSET X /\ B \cap C = {}
      /\ \A x \in X : /\ x \in A <=> x[1] \in Open /\ x[2] \in Heeded
                      /\ x \in B <=> x[1] \in Open /\ x[2] \in Won
                      /\ x \in C <=> x[1] \in Open /\ x[2] \in Lost
  <2>1. Won \cap Lost = {}
    BY <1>8, WonIs
  <2> QED
    BY <1>8, <2>1 DEF PairsOf
<1> HIDE DEF weight, earned, cost
<1>10. \A T \in SUBSET Walk, D \in SUBSET Turns :
           SumFunctionOnSet(weight, PairsOf(T, D)) = MassOf(T) * ChanceOf(D)
  <2> SUFFICES ASSUME NEW T \in SUBSET Walk, NEW D \in SUBSET Turns
               PROVE  SumFunctionOnSet(weight, PairsOf(T, D)) = MassOf(T) * SumFunctionOnSet(Chances, D)
    BY DEF ChanceOf
  <2> QED
    BY <1>2, <1>4, <1>5, Rectangle
<1>11. /\ SumFunctionOnSet(weight, A) = MassOf(Open) * ChanceOf(Heeded)
       /\ SumFunctionOnSet(weight, B) = MassOf(Open) * ChanceOf(Won)
       /\ SumFunctionOnSet(weight, C) = MassOf(Open) * ChanceOf(Lost)
       /\ SumFunctionOnSet(weight, X) = MassOf(Walk) * ChanceOf(Turns)
  <2>1. X = PairsOf(Walk, Turns)
    BY DEF PairsOf
  <2> HIDE DEF X
  <2> QED
    BY <1>8, <1>10, <2>1
<1>12. SumFunctionOnSet(weight, A) \in Int /\ SumFunctionOnSet(weight, B) \in Int
       /\ SumFunctionOnSet(weight, C) \in Int /\ SumFunctionOnSet(weight, X) \in Int
  <2> HIDE DEF X, A, B, C
  <2>1. IsFiniteSet(A) /\ IsFiniteSet(B) /\ IsFiniteSet(C)
    BY <1>4, <1>9, FS_Subset
  <2> QED
    BY <1>4, <1>6, <1>9, <2>1, SumIsInt
<1>13. ASSUME w <= game.colluding
       PROVE  SumFunctionOnSet(earned, X)
                 = game.bribe * SumFunctionOnSet(weight, A) - Cost(w) * SumFunctionOnSet(weight, X)
  <2> DEFINE none == {}
             zero == 0
             bribe == game.bribe
  <2>1. PaysByRegion(earned, weight, X, A, none, bribe, zero, cost)
    BY <1>3, <1>7, <1>9, <1>13, EarnedByRegion DEF PaysByRegion, cost
  <2>2. none \in SUBSET X /\ A \cap none = {} /\ bribe \in Int /\ zero \in Int /\ SumFunctionOnSet(weight, none) = 0
    BY <1>3, SumOfNone
  <2> HIDE DEF X, A, none, zero, bribe
  <2>3. SumFunctionOnSet(earned, X)
           = bribe * SumFunctionOnSet(weight, A) + zero * SumFunctionOnSet(weight, none) + cost * SumFunctionOnSet(weight, X)
    BY <1>3, <1>4, <1>6, <1>9, <2>1, <2>2, PaidByRegion
  <2>4. zero * SumFunctionOnSet(weight, none) = 0
    BY <2>2
  <2> DEFINE a == SumFunctionOnSet(weight, A)
             x == SumFunctionOnSet(weight, X)
             k == Cost(w)
  <2>5. a \in Int /\ x \in Int /\ k \in Int /\ cost = -k
    BY <1>3, <1>12 DEF cost
  <2> HIDE DEF a, x, k
  <2>6. bribe * a + 0 + (-k) * x = bribe * a - k * x
    BY <2>2, <2>5
  <2>7. SumFunctionOnSet(earned, X) = bribe * a + 0 + (-k) * x
    BY <2>3, <2>4, <2>5 DEF a, x
  <2> QED
    BY <2>6, <2>7 DEF a, x, k, bribe
<1>14. ASSUME w > game.colluding
       PROVE  SumFunctionOnSet(earned, X)
                 = (Reward + game.subsidy) * SumFunctionOnSet(weight, B) - Bond * SumFunctionOnSet(weight, C)
                   - Cost(w) * SumFunctionOnSet(weight, X)
  <2> DEFINE gain == Reward + game.subsidy
             loss == -Bond
  <2>1. PaysByRegion(earned, weight, X, B, C, gain, loss, cost)
    BY <1>3, <1>7, <1>9, <1>14, EarnedByRegion DEF PaysByRegion, cost
  <2>2. gain \in Int /\ loss \in Int
    BY <1>3
  <2> HIDE DEF X, B, C, gain, loss
  <2>3. SumFunctionOnSet(earned, X)
           = gain * SumFunctionOnSet(weight, B) + loss * SumFunctionOnSet(weight, C) + cost * SumFunctionOnSet(weight, X)
    BY <1>3, <1>4, <1>6, <1>9, <2>1, <2>2, PaidByRegion
  <2> DEFINE b == SumFunctionOnSet(weight, B)
             c == SumFunctionOnSet(weight, C)
             x == SumFunctionOnSet(weight, X)
             k == Cost(w)
  <2>5. b \in Int /\ c \in Int /\ x \in Int /\ k \in Int /\ cost = -k /\ loss = -Bond /\ Bond \in Int
    BY <1>3, <1>12 DEF cost, loss
  <2> HIDE DEF b, c, x, k
  <2>6. gain * b + (-Bond) * c + (-k) * x = gain * b - Bond * c - k * x
    BY <2>2, <2>5
  <2>7. SumFunctionOnSet(earned, X) = gain * b + (-Bond) * c + (-k) * x
    BY <2>3, <2>5 DEF b, c, x
  <2> QED
    BY <2>6, <2>7 DEF b, c, x, k, gain
<1>15. SumFunctionOnSet(earned, X) = TurnEarns(w)
  <2> HIDE DEF X, A, B, C
  <2>1. CASE w <= game.colluding
    BY <1>11, <1>13, <2>1 DEF TurnEarns
  <2>2. CASE ~(w <= game.colluding)
    <3>1. w > game.colluding
      BY <1>3, <2>2
    <3> QED
      BY <1>11, <1>14, <2>2, <3>1 DEF TurnEarns
  <2> QED
    BY <2>1, <2>2
<1> QED
    BY <1>1, <1>15

\* The factors of the closed forms are integers.
LEMMA FactorsAreInt ==
    ASSUME game \in Scenarios
    PROVE  /\ Scale \in Int /\ Square \in Int /\ Full \in Int /\ Attempt \in Int /\ Spared \in Int
           /\ BribeWorth \in Int /\ ChallengeWorth \in Int
           /\ Full - Attempt * Scale \in Int /\ Full - Attempt * game.success \in Int
<1>1. /\ Scale \in Int /\ game.outage \in Int /\ game.infrastructure \in Int /\ game.online \in Int
      /\ game.discovery \in Int /\ game.challenge \in Int /\ game.success \in Int
      /\ game.bribe \in Int /\ game.subsidy \in Int /\ Reward \in Int /\ Bond \in Int
    BY GameIs
<1>2. Square \in Int /\ Attempt \in Int
    BY <1>1 DEF Square, Attempt
<1>3. Full \in Int
    BY <1>2 DEF Full
<1>4. Spared \in Int
  <2> DEFINE a == Scale - game.outage
             b == Scale - game.infrastructure
  <2>1. a \in Int /\ b \in Int
    BY <1>1
  <2> HIDE DEF a, b
  <2>2. a * b \in Int
    BY <2>1
  <2> QED
    BY <2>2 DEF Spared, a, b
<1>5. BribeWorth \in Int
    BY <1>1, <1>2 DEF BribeWorth
<1>6. ChallengeWorth \in Int
  <2> DEFINE a == game.success * (Reward + game.subsidy)
             b == (Scale - game.success) * Bond
  <2>1. a \in Int /\ b \in Int
    BY <1>1
  <2> HIDE DEF a, b
  <2>2. Attempt * (a - b) \in Int
    BY <1>2, <2>1
  <2> QED
    BY <2>2 DEF ChallengeWorth, a, b
<1>7. Attempt * Scale \in Int /\ Attempt * game.success \in Int
    BY <1>1, <1>2
<1> QED
    BY <1>1, <1>2, <1>3, <1>4, <1>5, <1>6, <1>7

\* One more watcher is one more who is bribed or one more who is free.
LEMMA SharesGrow ==
    ASSUME game \in Scenarios, NEW w \in Nat
    PROVE  /\ Bribed(w) \in Nat /\ Free(w) \in Nat
           /\ w = 0 => Bribed(w) = 0 /\ Free(w) = 0
           /\ w + 1 <= game.colluding => Bribed(w + 1) = Bribed(w) + 1 /\ Free(w + 1) = Free(w)
           /\ ~(w + 1 <= game.colluding) => Bribed(w + 1) = Bribed(w) /\ Free(w + 1) = Free(w) + 1
<1>1. game.colluding \in Nat
    BY GameIs
<1> QED
    BY <1>1 DEF Bribed, Free

\* The share of the walks that w watchers leave, each by the factor full or free.
LEMMA MixedPowers ==
    ASSUME game \in Scenarios, NEW w \in Nat, NEW q \in Int
    PROVE  /\ Power(Full, Bribed(w)) * Power(q, Free(w)) \in Int
           /\ w = 0 => Power(Full, Bribed(w)) * Power(q, Free(w)) = 1
           /\ Power(Full, Bribed(w + 1)) * Power(q, Free(w + 1))
                 = (Power(Full, Bribed(w)) * Power(q, Free(w))) * (IF w + 1 <= game.colluding THEN Full ELSE q)
<1> DEFINE b == Bribed(w)
           f == Free(w)
           x == Power(Full, b)
           y == Power(q, f)
           F == Full
<1>1. b \in Nat /\ f \in Nat /\ (w = 0 => b = 0 /\ f = 0) /\ F \in Int
    BY SharesGrow, FactorsAreInt
<1> HIDE DEF b, f, F
<1>2. \A n \in Nat : Power(F, n) \in Int /\ Power(F, n + 1) = F * Power(F, n)
    BY <1>1, PowersGrow
<1>3. \A n \in Nat : Power(q, n) \in Int /\ Power(q, n + 1) = q * Power(q, n)
    BY PowersGrow
<1>4. Power(F, 0) = 1 /\ Power(q, 0) = 1
    BY <1>1, PowersGrow
<1>5. x \in Int /\ y \in Int
    BY <1>1, <1>2, <1>3 DEF F
<1>6. w = 0 => x * y = 1
    BY <1>1, <1>4 DEF F
<1>7. Power(Full, b + 1) = F * x /\ Power(q, f + 1) = q * y
    BY <1>1, <1>2, <1>3 DEF F
<1> HIDE DEF x, y
<1>8. (F * x) * y = (x * y) * F /\ x * (q * y) = (x * y) * q /\ x * y \in Int
    BY <1>1, <1>5
<1>9. CASE w + 1 <= game.colluding
  <2>1. Bribed(w + 1) = b + 1 /\ Free(w + 1) = f
    BY <1>9, SharesGrow DEF b, f
  <2>2. Power(Full, Bribed(w + 1)) * Power(q, Free(w + 1)) = (F * x) * y
    BY <1>7, <2>1 DEF y
  <2> QED
    BY <1>6, <1>8, <1>9, <2>2 DEF x, y, b, f, F
<1>10. CASE ~(w + 1 <= game.colluding)
  <2>1. Bribed(w + 1) = b /\ Free(w + 1) = f + 1
    BY <1>10, SharesGrow DEF b, f
  <2>2. Power(Full, Bribed(w + 1)) * Power(q, Free(w + 1)) = x * (q * y)
    BY <1>7, <2>1 DEF x
  <2> QED
    BY <1>6, <1>8, <1>10, <2>2 DEF x, y, b, f, F
<1> QED
    BY <1>9, <1>10

\* What is earned on average after one more watcher.
LEMMA GrossGrows ==
    ASSUME game \in Scenarios, NEW w \in Nat
    PROVE  /\ Gross(w) \in Int
           /\ Gross(w + 1) = Gross(w) * Full
                 + Power(Full, w) * (Spared * (IF w + 1 <= game.colluding THEN BribeWorth ELSE ChallengeWorth))
<1> DEFINE b == Bribed(w)
           f == Free(w)
           x == BribeWorth
           y == ChallengeWorth
           p == Power(Full, w)
           s == Spared
           F == Full
<1>1. b \in Nat /\ f \in Nat /\ (w = 0 => b = 0 /\ f = 0) /\ x \in Int /\ y \in Int /\ s \in Int /\ F \in Int
    BY SharesGrow, FactorsAreInt
<1>2. \A n \in Nat : Power(Full, n) \in Int /\ Power(Full, n + 1) = Full * Power(Full, n)
    BY FactorsAreInt, PowersGrow
<1>3. p \in Int
    BY <1>2
<1>4. Gross(w) \in Int /\ Gross(w) * F = p * (s * (b * x + f * y))
  <2>1. CASE w = 0
    <3>1. Gross(w) = 0 /\ b = 0 /\ f = 0
      BY <1>1, <2>1 DEF Gross
    <3> HIDE DEF b, f, x, y, p, s, F
    <3>2. 0 * F = 0 /\ p * (s * (0 * x + 0 * y)) = 0
      BY <1>1, <1>3
    <3> QED
      BY <3>1, <3>2
  <2>2. CASE w # 0
    <3> DEFINE r == Power(Full, w - 1)
               m == s * (b * x + f * y)
    <3>1. Gross(w) = r * m
      BY <2>2 DEF Gross
    <3>2. r \in Int /\ p = F * r
      <4> DEFINE k == w - 1
      <4>1. k \in Nat /\ k + 1 = w
        BY <2>2
      <4> HIDE DEF k
      <4>2. Power(Full, k) \in Int /\ Power(Full, k + 1) = Full * Power(Full, k)
        BY <1>2, <4>1
      <4>3. Power(Full, k) = r
        BY DEF k
      <4> HIDE DEF r
      <4> QED
        BY <4>1, <4>2, <4>3
    <3> HIDE DEF b, f, x, y, p, s, F, r
    <3>3. m \in Int
      <4>1. b * x \in Int /\ f * y \in Int
        BY <1>1
      <4>2. b * x + f * y \in Int
        BY <4>1
      <4> QED
        BY <1>1, <4>2
    <3> HIDE DEF m
    <3>4. r * m \in Int /\ (r * m) * F = (F * r) * m
      BY <1>1, <3>2, <3>3
    <3> QED
      BY <3>1, <3>2, <3>4 DEF m
  <2> QED
    BY <2>1, <2>2
<1>5. Gross(w + 1) = p * (s * (Bribed(w + 1) * x + Free(w + 1) * y))
  <2>1. w + 1 # 0 /\ (w + 1) - 1 = w
    OBVIOUS
  <2>2. Power(Full, (w + 1) - 1) = p
    BY <2>1
  <2>3. Gross(w + 1) = Power(Full, (w + 1) - 1) * (s * (Bribed(w + 1) * x + Free(w + 1) * y))
    BY <2>1 DEF Gross
  <2> HIDE DEF p, s, x, y
  <2> QED
    BY <2>2, <2>3
<1>6. CASE w + 1 <= game.colluding
  <2>1. Bribed(w + 1) = b + 1 /\ Free(w + 1) = f
    BY <1>6, SharesGrow
  <2> HIDE DEF b, f, x, y, p, s, F
  <2>2. p * (s * ((b + 1) * x + f * y)) = p * (s * (b * x + f * y)) + p * (s * x)
    BY <1>1, <1>3
  <2>3. Gross(w + 1) = p * (s * ((b + 1) * x + f * y))
    BY <1>5, <2>1
  <2> QED
    BY <1>4, <1>6, <2>2, <2>3 DEF x, y, p, s, F
<1>7. CASE ~(w + 1 <= game.colluding)
  <2>1. Bribed(w + 1) = b /\ Free(w + 1) = f + 1
    BY <1>7, SharesGrow
  <2> HIDE DEF b, f, x, y, p, s, F
  <2>2. p * (s * (b * x + (f + 1) * y)) = p * (s * (b * x + f * y)) + p * (s * y)
    BY <1>1, <1>3
  <2>3. Gross(w + 1) = p * (s * (b * x + (f + 1) * y))
    BY <1>5, <2>1
  <2> QED
    BY <1>4, <1>7, <2>2, <2>3 DEF x, y, p, s, F
<1> QED
    BY <1>6, <1>7

\* The cost of one more watcher.
LEMMA CostsGrow ==
    ASSUME game \in Scenarios, NEW w \in 0..Watchers
    PROVE  /\ SumFunctionOnSet(Costs, 1..w) \in Int
           /\ w < Watchers => SumFunctionOnSet(Costs, 1..(w + 1)) = SumFunctionOnSet(Costs, 1..w) + Cost(w + 1)
<1>1. Watchers \in Nat
    BY WatcherAssumption
<1>2. IsFiniteSet(1..w)
    BY FS_Interval
<1>3. \A v \in 1..Watchers : Costs[v] = Cost(v) /\ Costs[v] \in Int
    BY <1>1, CostIsNat DEF Costs
<1>4. \A v \in 1..w : Costs[v] \in Int
    BY <1>1, <1>3
<1>5. SumFunctionOnSet(Costs, 1..w) \in Int
    BY <1>2, <1>4, SumIsInt
<1>6. ASSUME w < Watchers
      PROVE  SumFunctionOnSet(Costs, 1..(w + 1)) = SumFunctionOnSet(Costs, 1..w) + Cost(w + 1)
  <2> DEFINE v == w + 1
             S == 1..w
  <2>1. v \notin S /\ 1..v = S \cup {v} /\ v \in 1..Watchers
    BY <1>1, <1>6
  <2>2. \A y \in S \cup {v} : Costs[y] \in Int
    BY <1>3, <1>4, <2>1
  <2> HIDE DEF v, S
  <2>3. SumFunctionOnSet(Costs, S \cup {v}) = SumFunctionOnSet(Costs, S) + Costs[v]
    BY <1>2, <2>1, <2>2, SumOfOneMore DEF S
  <2>4. SumFunctionOnSet(Costs, 1..v) = SumFunctionOnSet(Costs, S) + Cost(v)
    BY <1>3, <2>1, <2>3
  <2> QED
    BY <2>4 DEF v, S
<1> QED
    BY <1>5, <1>6

-----------------------------------------------------------------------------
(* WatcherGame: the invariant is kept *)

\* The regions are finite sets of states, and their weights integers.
LEMMA RegionsAreSets ==
    /\ Open \in SUBSET Walk /\ Walk \in SUBSET Walk
    /\ \A s \in BOOLEAN : Quiet(s) \in SUBSET Walk /\ Unstopped(s) \in SUBSET Walk
    /\ IsFiniteSet(Open) /\ IsFiniteSet(Walk)
    /\ \A s \in BOOLEAN : IsFiniteSet(Quiet(s)) /\ IsFiniteSet(Unstopped(s))
<1>1. /\ Open \in SUBSET Walk /\ Walk \in SUBSET Walk
      /\ \A s \in BOOLEAN : Quiet(s) \in SUBSET Walk /\ Unstopped(s) \in SUBSET Walk
    BY DEF Open, Quiet, Unstopped
<1> QED
    BY <1>1, WalkFinite, FS_Subset

LEMMA MassesAreInt ==
    ASSUME mass \in [Walk -> Int]
    PROVE  \A T \in SUBSET Walk : MassOf(T) \in Int
<1> SUFFICES ASSUME NEW T \in SUBSET Walk PROVE SumFunctionOnSet(mass, T) \in Int
    BY DEF MassOf
<1>1. IsFiniteSet(T) /\ \A t \in T : mass[t] \in Int
    BY WalkFinite, FS_Subset
<1> QED
    BY <1>1, SumIsInt

\* What is not ~stopped and what is not ~challenged is either silenced or open.
LEMMA RegionsSplit ==
    ASSUME mass \in [Walk -> Int]
    PROVE  /\ MassOf({t \in Walk : ~t.challenged}) = MassOf(Quiet(TRUE)) + MassOf(Quiet(FALSE))
           /\ MassOf({t \in Walk : ~t.stopped}) = MassOf(Unstopped(TRUE)) + MassOf(Unstopped(FALSE))
<1>1. \A t \in Walk : t.silenced \in BOOLEAN /\ mass[t] \in Int
    BY DEF Walk
<1>2. /\ {t \in Walk : ~t.challenged} = Quiet(TRUE) \cup Quiet(FALSE) /\ Quiet(TRUE) \cap Quiet(FALSE) = {}
      /\ {t \in Walk : ~t.stopped} = Unstopped(TRUE) \cup Unstopped(FALSE) /\ Unstopped(TRUE) \cap Unstopped(FALSE) = {}
    BY <1>1 DEF Quiet, Unstopped
<1>3. IsFiniteSet(Quiet(TRUE)) /\ IsFiniteSet(Quiet(FALSE)) /\ IsFiniteSet(Unstopped(TRUE)) /\ IsFiniteSet(Unstopped(FALSE))
    BY RegionsAreSets
<1>4. (\A t \in Quiet(TRUE) \cup Quiet(FALSE) : mass[t] \in Int)
      /\ (\A t \in Unstopped(TRUE) \cup Unstopped(FALSE) : mass[t] \in Int)
    BY <1>1 DEF Quiet, Unstopped
<1>5. SumFunctionOnSet(mass, Quiet(TRUE) \cup Quiet(FALSE))
         = SumFunctionOnSet(mass, Quiet(TRUE)) + SumFunctionOnSet(mass, Quiet(FALSE))
    BY <1>2, <1>3, <1>4, SumOfUnion
<1>6. SumFunctionOnSet(mass, Unstopped(TRUE) \cup Unstopped(FALSE))
         = SumFunctionOnSet(mass, Unstopped(TRUE)) + SumFunctionOnSet(mass, Unstopped(FALSE))
    BY <1>2, <1>3, <1>4, SumOfUnion
<1>7. MassOf({t \in Walk : ~t.challenged}) = SumFunctionOnSet(mass, Quiet(TRUE) \cup Quiet(FALSE))
    BY <1>2 DEF MassOf
<1>8. MassOf({t \in Walk : ~t.stopped}) = SumFunctionOnSet(mass, Unstopped(TRUE) \cup Unstopped(FALSE))
    BY <1>2 DEF MassOf
<1> QED
    BY <1>5, <1>6, <1>7, <1>8 DEF MassOf

\* A walk begins as no watcher leaves it.
LEMMA WalkedStart ==
    ASSUME WatcherInit
    PROVE  mass \in [Walk -> Int] /\ Walked(0)
<1> DEFINE down == [silenced |-> TRUE, challenged |-> FALSE, stopped |-> FALSE]
           up == [silenced |-> FALSE, challenged |-> FALSE, stopped |-> FALSE]
           s == Spared
           Silent == {t \in Walk : t.silenced}
<1>1. game \in Scenarios /\ mass = Shared(game) /\ utility = [watchers |-> 0, auditor |-> 0]
    BY DEF WatcherInit
<1>2. s \in Int /\ Square \in Int /\ Full \in Int
    BY <1>1, FactorsAreInt
<1>3. mass = [t \in Walk |-> IF t.challenged \/ t.stopped THEN 0 ELSE IF t.silenced THEN Square - s ELSE s]
    BY <1>1 DEF Shared, Spared, Square
<1>4. down \in Walk /\ up \in Walk /\ down.silenced = TRUE /\ down.challenged = FALSE /\ down.stopped = FALSE
      /\ up.silenced = FALSE /\ up.challenged = FALSE /\ up.stopped = FALSE
    BY DEF Walk
<1>5. \A t \in Walk : (t.silenced /\ t # down => t.challenged \/ t.stopped)
                      /\ (~t.silenced /\ t # up => t.challenged \/ t.stopped)
  <2> SUFFICES ASSUME NEW t \in Walk
               PROVE  (t.silenced /\ t # down => t.challenged \/ t.stopped)
                      /\ (~t.silenced /\ t # up => t.challenged \/ t.stopped)
    OBVIOUS
  <2>1. t = [silenced |-> t.silenced, challenged |-> t.challenged, stopped |-> t.stopped]
        /\ t.silenced \in BOOLEAN /\ t.challenged \in BOOLEAN /\ t.stopped \in BOOLEAN
    BY DEF Walk
  <2> QED
    BY <2>1
<1> HIDE DEF down, up, s
<1>6. mass[down] = Square - s /\ mass[up] = s
    BY <1>3, <1>4
<1>7. /\ \A t \in Walk : t.silenced /\ t # down => mass[t] = 0
      /\ \A t \in Walk : ~t.silenced /\ t # up => mass[t] = 0
    BY <1>3, <1>5
<1>8. mass \in [Walk -> Int]
  <2>1. \A t \in Walk : (IF t.challenged \/ t.stopped THEN 0 ELSE IF t.silenced THEN Square - s ELSE s) \in Int
    BY <1>2
  <2> QED
    BY <1>3, <2>1
<1>9. ASSUME NEW T \in SUBSET Walk, down \in T, \A t \in T : t.silenced PROVE MassOf(T) = Square - s
  <2>1. IsFiniteSet(T) /\ mass[down] \in Int /\ \A y \in T \ {down} : mass[y] = 0
    BY <1>4, <1>7, <1>8, <1>9, WalkFinite, FS_Subset
  <2>2. SumFunctionOnSet(mass, T) = mass[down]
    BY <1>9, <2>1, SumOfOnly
  <2> QED
    BY <1>6, <2>2 DEF MassOf
<1>10. ASSUME NEW T \in SUBSET Walk, up \in T, \A t \in T : ~t.silenced PROVE MassOf(T) = s
  <2>1. IsFiniteSet(T) /\ mass[up] \in Int /\ \A y \in T \ {up} : mass[y] = 0
    BY <1>4, <1>7, <1>8, <1>10, WalkFinite, FS_Subset
  <2>2. SumFunctionOnSet(mass, T) = mass[up]
    BY <1>10, <2>1, SumOfOnly
  <2> QED
    BY <1>6, <2>2 DEF MassOf
<1>11. MassOf(Silent) = Square - s /\ MassOf(Quiet(TRUE)) = Square - s /\ MassOf(Unstopped(TRUE)) = Square - s
  <2>1. /\ Silent \in SUBSET Walk /\ down \in Silent /\ \A t \in Silent : t.silenced
        /\ Quiet(TRUE) \in SUBSET Walk /\ down \in Quiet(TRUE) /\ \A t \in Quiet(TRUE) : t.silenced
        /\ Unstopped(TRUE) \in SUBSET Walk /\ down \in Unstopped(TRUE) /\ \A t \in Unstopped(TRUE) : t.silenced
    BY <1>4 DEF Quiet, Unstopped
  <2> HIDE DEF Silent
  <2> QED
    BY <1>9, <2>1
<1>12. MassOf(Open) = s /\ MassOf(Quiet(FALSE)) = s /\ MassOf(Unstopped(FALSE)) = s
  <2>1. /\ Open \in SUBSET Walk /\ up \in Open /\ \A t \in Open : ~t.silenced
        /\ Quiet(FALSE) \in SUBSET Walk /\ up \in Quiet(FALSE) /\ \A t \in Quiet(FALSE) : ~t.silenced
        /\ Unstopped(FALSE) \in SUBSET Walk /\ up \in Unstopped(FALSE) /\ \A t \in Unstopped(FALSE) : ~t.silenced
    BY <1>4 DEF Open, Quiet, Unstopped
  <2> QED
    BY <1>10, <2>1
<1>13. MassOf(Walk) = Square
  <2>1. Walk = Silent \cup Open /\ Silent \cap Open = {} /\ IsFiniteSet(Silent) /\ IsFiniteSet(Open)
        /\ \A t \in Silent \cup Open : mass[t] \in Int
    BY <1>8, WalkFinite, FS_Subset DEF Open
  <2> HIDE DEF Silent
  <2>2. SumFunctionOnSet(mass, Silent \cup Open) = SumFunctionOnSet(mass, Silent) + SumFunctionOnSet(mass, Open)
    BY <2>1, SumOfUnion
  <2>3. SumFunctionOnSet(mass, Walk) = (Square - s) + s
    BY <1>11, <1>12, <2>1, <2>2 DEF MassOf
  <2> QED
    BY <1>2, <2>3 DEF MassOf
<1>14. Power(Full, 0) = 1
    BY <1>2, PowersGrow
<1>15. \A q \in Int : Power(Full, Bribed(0)) * Power(q, Free(0)) = 1
    BY <1>1, MixedPowers
<1>16. Full - Attempt * Scale \in Int /\ Full - Attempt * game.success \in Int
    BY <1>1, FactorsAreInt
<1>17. 0 = Gross(0) - Square * (Power(Full, 0) * SumFunctionOnSet(Costs, 1..0))
  <2>1. 1..0 = {}
    OBVIOUS
  <2>2. SumFunctionOnSet(Costs, 1..0) = 0
    BY <2>1, SumOfNone
  <2>3. Gross(0) = 0
    BY DEF Gross
  <2>4. 0 = 0 - Square * (1 * 0)
    BY <1>2
  <2> QED
    BY <1>14, <2>2, <2>3, <2>4
<1>18. Square * 1 = Square /\ s * 1 = s /\ (Square - s) * 1 = Square - s
    BY <1>2
<1>19. MassOf(Walk) = Square * Power(Full, 0) /\ MassOf(Open) = s * Power(Full, 0)
       /\ MassOf(Quiet(TRUE)) = (Square - s) * Power(Full, 0) /\ MassOf(Unstopped(TRUE)) = (Square - s) * Power(Full, 0)
    BY <1>11, <1>12, <1>13, <1>14, <1>18
<1>20. /\ MassOf(Quiet(FALSE)) = s * (Power(Full, Bribed(0)) * Power(Full - Attempt * Scale, Free(0)))
       /\ MassOf(Unstopped(FALSE)) = s * (Power(Full, Bribed(0)) * Power(Full - Attempt * game.success, Free(0)))
    BY <1>12, <1>15, <1>16, <1>18
<1>21. utility.watchers = 0 /\ utility.auditor = 0
    BY <1>1
<1> QED
    BY <1>8, <1>17, <1>19, <1>20, <1>21 DEF Walked, s

\* The chances of the events of a free watcher that leave a walk as it is.
LEMMA ChancesLeft ==
    ASSUME game \in Scenarios
    PROVE  /\ ChanceOf(Turns \ Won) = Full - Attempt * game.success
           /\ ChanceOf(Turns \ (Won \cup Lost)) = Full - Attempt * Scale
<1>1. \A d \in Turns : Chances[d] \in Int
    BY ChancesAre
<1>2. Won \in SUBSET Turns /\ Lost \in SUBSET Turns
    BY DEF Won, Lost, Turn, Turns
<1>3. Won \cap Lost = {}
    BY <1>2, WonIs
<1>4. ASSUME NEW D \in SUBSET Turns
      PROVE  ChanceOf(D) \in Int /\ ChanceOf(Turns \ D) \in Int /\ ChanceOf(Turns) = ChanceOf(Turns \ D) + ChanceOf(D)
  <2> DEFINE rest == Turns \ D
  <2>1. IsFiniteSet(D) /\ IsFiniteSet(rest)
    BY TurnsFinite, FS_Subset
  <2>2. rest \cap D = {} /\ rest \cup D = Turns /\ (\A d \in rest \cup D : Chances[d] \in Int)
        /\ (\A d \in rest : Chances[d] \in Int) /\ (\A d \in D : Chances[d] \in Int)
    BY <1>1
  <2> HIDE DEF rest
  <2>3. SumFunctionOnSet(Chances, rest \cup D) = SumFunctionOnSet(Chances, rest) + SumFunctionOnSet(Chances, D)
    BY <2>1, <2>2, SumOfUnion
  <2>4. SumFunctionOnSet(Chances, rest) \in Int /\ SumFunctionOnSet(Chances, D) \in Int
    BY <2>1, <2>2, SumIsInt
  <2> QED
    BY <2>2, <2>3, <2>4 DEF ChanceOf, rest
<1>5. ChanceOf(Won \cup Lost) = ChanceOf(Won) + ChanceOf(Lost)
  <2>1. IsFiniteSet(Won) /\ IsFiniteSet(Lost)
    BY <1>2, TurnsFinite, FS_Subset
  <2>2. \A d \in Won \cup Lost : Chances[d] \in Int
    BY <1>1, <1>2
  <2> QED
    BY <1>3, <2>1, <2>2, SumOfUnion DEF ChanceOf
<1> DEFINE a == Attempt
           p == game.success
           k == Scale
<1>6. a \in Int /\ p \in Int /\ k \in Int /\ Full \in Int
    BY FactorsAreInt, GameIs
<1>7. ChanceOf(Won) = a * p /\ ChanceOf(Lost) = a * (k - p) /\ ChanceOf(Turns) = Full
    BY ChancesAre
<1> HIDE DEF a, p, k
<1>8. a * p + a * (k - p) = a * k /\ a * p \in Int /\ a * k \in Int
    BY <1>6
<1>9. ChanceOf(Turns \ Won) = Full - a * p
  <2>1. ChanceOf(Turns \ Won) \in Int /\ ChanceOf(Turns) = ChanceOf(Turns \ Won) + ChanceOf(Won)
    BY <1>2, <1>4
  <2> QED
    BY <1>6, <1>7, <1>8, <2>1
<1>10. ChanceOf(Turns \ (Won \cup Lost)) = Full - a * k
  <2> DEFINE both == Won \cup Lost
  <2>1. both \in SUBSET Turns
    BY <1>2
  <2>2. ChanceOf(both) = a * k
    BY <1>5, <1>7, <1>8
  <2> HIDE DEF both
  <2>3. ChanceOf(Turns \ both) \in Int /\ ChanceOf(Turns) = ChanceOf(Turns \ both) + ChanceOf(both)
    BY <1>4, <2>1
  <2>4. ChanceOf(Turns \ both) = Full - a * k
    BY <1>6, <1>7, <1>8, <2>2, <2>3
  <2> QED
    BY <2>4 DEF both
<1> QED
    BY <1>9, <1>10 DEF a, p, k

\* One more watcher's turn.
LEMMA TurnWalks ==
    ASSUME game \in Scenarios, mass \in [Walk -> Int], WatcherTurn, NEW w \in Nat, w = watched, Walked(w)
    PROVE  LET more == Power(Full, w + 1)
               b == Power(Full, Bribed(w + 1))
           IN  /\ mass' \in [Walk -> Int]
               /\ SumFunctionOnSet(mass', Walk) = Square * more
               /\ SumFunctionOnSet(mass', Open) = Spared * more
               /\ SumFunctionOnSet(mass', Quiet(TRUE)) = (Square - Spared) * more
               /\ SumFunctionOnSet(mass', Unstopped(TRUE)) = (Square - Spared) * more
               /\ SumFunctionOnSet(mass', Quiet(FALSE)) = Spared * (b * Power(Full - Attempt * Scale, Free(w + 1)))
               /\ SumFunctionOnSet(mass', Unstopped(FALSE))
                     = Spared * (b * Power(Full - Attempt * game.success, Free(w + 1)))
<1> DEFINE v == w + 1
           F == Full
           p == Power(Full, w)
           s == Spared
           Q == Square
<1>1. p \in Int /\ F \in Int /\ s \in Int /\ Q \in Int /\ game.colluding \in Int /\ v \in Int /\ Power(Full, v) = F * p
  <2>1. F \in Int /\ s \in Int /\ Q \in Int /\ game.colluding \in Int /\ v \in Int
    BY FactorsAreInt, GameIs
  <2>2. p \in Int /\ Power(Full, v) = F * p
    BY FactorsAreInt, PowersGrow
  <2> QED
    BY <2>1, <2>2
<1>2. /\ mass' \in [Walk -> Int]
      /\ \A T \in SUBSET Walk, R \in SUBSET Walk, D \in SUBSET Turns :
            ComesFrom(Turns, AfterThe(v), T, R, D) => SumFunctionOnSet(mass', T) = MassOf(R) * ChanceOf(D)
    BY TurnMass
<1>3. Turns \in SUBSET Turns /\ Turns \ Won \in SUBSET Turns /\ Turns \ (Won \cup Lost) \in SUBSET Turns
    OBVIOUS
<1>4. /\ Open \in SUBSET Walk /\ Walk \in SUBSET Walk
      /\ Quiet(TRUE) \in SUBSET Walk /\ Unstopped(TRUE) \in SUBSET Walk
      /\ Quiet(FALSE) \in SUBSET Walk /\ Unstopped(FALSE) \in SUBSET Walk
    BY RegionsAreSets
<1>5. ChanceOf(Turns) = F
    BY ChancesAre
<1> HIDE DEF v, F, p, s, Q
<1>6. /\ SumFunctionOnSet(mass', Walk) = MassOf(Walk) * F
      /\ SumFunctionOnSet(mass', Open) = MassOf(Open) * F
      /\ SumFunctionOnSet(mass', Quiet(TRUE)) = MassOf(Quiet(TRUE)) * F
      /\ SumFunctionOnSet(mass', Unstopped(TRUE)) = MassOf(Unstopped(TRUE)) * F
  <2>1. /\ ComesFrom(Turns, AfterThe(v), Walk, Walk, Turns)
        /\ ComesFrom(Turns, AfterThe(v), Open, Open, Turns)
        /\ ComesFrom(Turns, AfterThe(v), Quiet(TRUE), Quiet(TRUE), Turns)
        /\ ComesFrom(Turns, AfterThe(v), Unstopped(TRUE), Unstopped(TRUE), Turns)
    BY <1>1, TurnRegions
  <2> QED
    BY <1>2, <1>3, <1>4, <1>5, <2>1
<1>7. /\ (Q * p) * F = Q * (F * p) /\ (s * p) * F = s * (F * p) /\ ((Q - s) * p) * F = (Q - s) * (F * p)
    BY <1>1
<1>8. /\ MassOf(Walk) = Q * p /\ MassOf(Open) = s * p
      /\ MassOf(Quiet(TRUE)) = (Q - s) * p /\ MassOf(Unstopped(TRUE)) = (Q - s) * p
    BY DEF Walked, Q, s, p
<1>9. /\ SumFunctionOnSet(mass', Walk) = Q * Power(Full, v)
      /\ SumFunctionOnSet(mass', Open) = s * Power(Full, v)
      /\ SumFunctionOnSet(mass', Quiet(TRUE)) = (Q - s) * Power(Full, v)
      /\ SumFunctionOnSet(mass', Unstopped(TRUE)) = (Q - s) * Power(Full, v)
    BY <1>1, <1>6, <1>7, <1>8
<1> DEFINE q == Full - Attempt * Scale
           u == Full - Attempt * game.success
<1>10. q \in Int /\ u \in Int
    BY FactorsAreInt
<1>11. ChanceOf(Turns \ Won) = u /\ ChanceOf(Turns \ (Won \cup Lost)) = q
    BY ChancesLeft
<1>12. /\ MassOf(Quiet(FALSE)) = s * (Power(Full, Bribed(w)) * Power(q, Free(w)))
       /\ MassOf(Unstopped(FALSE)) = s * (Power(Full, Bribed(w)) * Power(u, Free(w)))
    BY DEF Walked, s
<1> HIDE DEF q, u
<1>13. /\ SumFunctionOnSet(mass', Quiet(FALSE)) = MassOf(Quiet(FALSE)) * (IF v <= game.colluding THEN F ELSE q)
       /\ SumFunctionOnSet(mass', Unstopped(FALSE)) = MassOf(Unstopped(FALSE)) * (IF v <= game.colluding THEN F ELSE u)
  <2>1. CASE v <= game.colluding
    <3>1. /\ ComesFrom(Turns, AfterThe(v), Quiet(FALSE), Quiet(FALSE), Turns)
          /\ ComesFrom(Turns, AfterThe(v), Unstopped(FALSE), Unstopped(FALSE), Turns)
      BY <1>1, <2>1, TurnRegions
    <3> QED
      BY <1>2, <1>3, <1>4, <1>5, <2>1, <3>1
  <2>2. CASE ~(v <= game.colluding)
    <3>1. v > game.colluding
      BY <1>1, <2>2
    <3>2. /\ ComesFrom(Turns, AfterThe(v), Quiet(FALSE), Quiet(FALSE), Turns \ (Won \cup Lost))
          /\ ComesFrom(Turns, AfterThe(v), Unstopped(FALSE), Unstopped(FALSE), Turns \ Won)
      BY <1>1, <3>1, TurnRegions
    <3> QED
      BY <1>2, <1>3, <1>4, <1>11, <2>2, <3>2
  <2> QED
    BY <2>1, <2>2
<1>14. ASSUME NEW r \in Int
       PROVE  (s * (Power(Full, Bribed(w)) * Power(r, Free(w)))) * (IF v <= game.colluding THEN F ELSE r)
                 = s * (Power(Full, Bribed(v)) * Power(r, Free(v)))
  <2> DEFINE m == Power(Full, Bribed(w)) * Power(r, Free(w))
             n == Power(Full, Bribed(v)) * Power(r, Free(v))
             g == IF v <= game.colluding THEN F ELSE r
  <2>1. m \in Int /\ n = m * g
    BY MixedPowers DEF v, F
  <2>2. g \in Int
    BY <1>1
  <2> HIDE DEF m, n, g
  <2>3. (s * m) * g = s * (m * g)
    BY <1>1, <2>1, <2>2
  <2>4. (s * m) * g = s * n
    BY <2>1, <2>3
  <2> QED
    BY <2>4 DEF m, n, g
<1>15. /\ SumFunctionOnSet(mass', Quiet(FALSE)) = s * (Power(Full, Bribed(v)) * Power(q, Free(v)))
       /\ SumFunctionOnSet(mass', Unstopped(FALSE)) = s * (Power(Full, Bribed(v)) * Power(u, Free(v)))
    BY <1>10, <1>12, <1>13, <1>14
<1> QED
    BY <1>2, <1>9, <1>15 DEF v, s, Q, q, u

\* And what it adds to the utility.
LEMMA TurnPays ==
    ASSUME game \in Scenarios, mass \in [Walk -> Int], WatcherTurn, NEW w \in 0..Watchers, w = watched, Walked(w)
    PROVE  /\ utility'.watchers = Gross(w + 1) - Square * (Power(Full, w + 1) * SumFunctionOnSet(Costs, 1..(w + 1)))
           /\ utility'.auditor = 0
<1> DEFINE v == w + 1
           F == Full
           p == Power(Full, w)
           s == Spared
           Q == Square
           k == Cost(v)
           c == SumFunctionOnSet(Costs, 1..w)
           gross == Gross(w)
           worth == IF v <= game.colluding THEN BribeWorth ELSE ChallengeWorth
           on == game.online * game.discovery
           a == Attempt
           bribe == game.bribe
           gain == Reward + game.subsidy
           loss == Bond
           win == game.success
           lose == Scale - game.success
<1>1. w \in Nat /\ w < Watchers /\ v = watched + 1 /\ watched \in Nat
    BY WatcherAssumption DEF WatcherTurn
<1>2. /\ F \in Int /\ s \in Int /\ Q \in Int /\ a \in Int /\ game.colluding \in Int
      /\ on \in Int /\ bribe \in Int /\ gain \in Int /\ loss \in Int /\ win \in Int /\ lose \in Int
    BY FactorsAreInt, GameIs
<1>3. p \in Int /\ Power(Full, v) = F * p
    BY <1>1, <1>2, PowersGrow
<1>4. k \in Int
  <2>1. v \in 1..Watchers
    BY <1>1, WatcherAssumption
  <2> HIDE DEF v
  <2> QED
    BY <2>1, CostIsNat
<1>5. c \in Int /\ SumFunctionOnSet(Costs, 1..v) = c + k
    BY <1>1, CostsGrow
<1>6. gross \in Int /\ Gross(v) = gross * F + p * (s * worth)
    BY <1>1, GrossGrows
<1>7. utility' = [watchers |-> utility.watchers * F + TurnEarns(v), auditor |-> 0]
    BY <1>1, TurnUtility
<1>8. utility.watchers = gross - Q * (p * c) /\ MassOf(Open) = s * p /\ MassOf(Walk) = Q * p
    BY DEF Walked
<1>9. ChanceOf(Heeded) = on * Q /\ ChanceOf(Won) = a * win /\ ChanceOf(Lost) = a * lose /\ ChanceOf(Turns) = F
    BY ChancesAre
<1>10. worth = IF v <= game.colluding THEN on * Q * bribe ELSE a * (win * gain - lose * loss)
    BY DEF BribeWorth, ChallengeWorth
<1>11. TurnEarns(v) = (IF v <= game.colluding THEN bribe * ((s * p) * (on * Q))
                       ELSE gain * ((s * p) * (a * win)) - loss * ((s * p) * (a * lose))) - k * ((Q * p) * F)
    BY <1>8, <1>9 DEF TurnEarns
<1> HIDE DEF v, F, p, s, Q, k, c, gross, worth, on, a, bribe, gain, loss, win, lose
<1>12. bribe * ((s * p) * (on * Q)) = p * (s * (on * Q * bribe))
    BY <1>2, <1>3
<1>13. gain * ((s * p) * (a * win)) - loss * ((s * p) * (a * lose)) = p * (s * (a * (win * gain - lose * loss)))
  <2> DEFINE x == win * gain
             y == lose * loss
             z == p * (s * a)
  <2>1. x \in Int /\ y \in Int /\ z \in Int
    BY <1>2, <1>3
  <2>2. gain * ((s * p) * (a * win)) = z * x
    BY <1>2, <1>3
  <2>3. loss * ((s * p) * (a * lose)) = z * y
    BY <1>2, <1>3
  <2>4. z * x - z * y = z * (x - y)
    <3> HIDE DEF x, y, z
    <3> QED
      BY <2>1
  <2>5. z * (x - y) = p * (s * (a * (x - y)))
    <3> HIDE DEF x, y
    <3> QED
      BY <1>2, <1>3, <2>1
  <2> HIDE DEF z
  <2>6. gain * ((s * p) * (a * win)) - loss * ((s * p) * (a * lose)) = z * x - z * y
    BY <2>2, <2>3
  <2> QED
    BY <2>4, <2>5, <2>6
<1>14. TurnEarns(v) = p * (s * worth) - k * ((Q * p) * F)
    BY <1>10, <1>11, <1>12, <1>13
<1>15. worth \in Int
  <2>1. on * Q * bribe \in Int
    BY <1>2
  <2>2. win * gain \in Int /\ lose * loss \in Int
    BY <1>2
  <2>3. a * (win * gain - lose * loss) \in Int
    BY <1>2, <2>2
  <2> QED
    BY <1>10, <2>1, <2>3
<1>16. (gross - Q * (p * c)) * F + (p * (s * worth) - k * ((Q * p) * F))
          = (gross * F + p * (s * worth)) - Q * ((F * p) * (c + k))
  <2> DEFINE e == p * (s * worth)
             r == Q * p * F
  <2>1. e \in Int /\ r \in Int /\ gross * F \in Int
    BY <1>2, <1>3, <1>6, <1>15
  <2>2. (gross - Q * (p * c)) * F = gross * F - r * c
    <3> DEFINE h == Q * (p * c)
    <3>1. h \in Int /\ h * F = r * c
      BY <1>2, <1>3, <1>5
    <3> HIDE DEF h, r
    <3>2. (gross - h) * F = gross * F - h * F
      BY <1>2, <1>6, <3>1
    <3> QED
      BY <3>1, <3>2 DEF h
  <2>3. k * ((Q * p) * F) = r * k /\ Q * ((F * p) * (c + k)) = r * (c + k)
    BY <1>2, <1>3, <1>4, <1>5
  <2> HIDE DEF e, r
  <2>4. r * (c + k) = r * c + r * k /\ r * c \in Int /\ r * k \in Int
    BY <1>4, <1>5, <2>1
  <2> DEFINE rc == r * c
             rk == r * k
             gf == gross * F
  <2>5. rc \in Int /\ rk \in Int /\ gf \in Int
    BY <2>1, <2>4
  <2> HIDE DEF rc, rk, gf
  <2>6. (gf - rc) + (e - rk) = (gf + e) - (rc + rk)
    BY <2>1, <2>5
  <2> QED
    BY <2>2, <2>3, <2>4, <2>6 DEF rc, rk, gf, e
<1>17. utility'.watchers = utility.watchers * F + TurnEarns(v) /\ utility'.auditor = 0
    BY <1>7
<1>18. utility'.watchers = Gross(v) - Q * ((F * p) * (c + k))
    BY <1>6, <1>8, <1>14, <1>16, <1>17
<1> QED
    BY <1>3, <1>5, <1>17, <1>18 DEF v, Q

-----------------------------------------------------------------------------
(* WatcherGame: the auditor *)

\* The events of an audit, and the one in which it wins.
Check(d, s) == [detects |-> d, wins |-> s]
CheckChances == [c \in Checks |-> CheckChance(c)]
ChecksOf(C) == SumFunctionOnSet(CheckChances, C)
Caught == {Check(TRUE, TRUE)}

\* The chances of these events.
LEMMA ChecksAre ==
    ASSUME game \in Scenarios
    PROVE  /\ IsFiniteSet(Checks) /\ \A c \in Checks : CheckChances[c] \in Int
           /\ ChecksOf(Checks) = Square
           /\ ChecksOf(Caught) = game.detection * game.conviction
           /\ ChecksOf(Checks \ Caught) = Square - game.detection * game.conviction
           /\ Caught \in SUBSET Checks /\ \A c \in Checks : c \in Caught <=> c.detects /\ c.wins
<1> DEFINE S == Scale
           d == game.detection
           h == game.conviction
           A == Check(TRUE, TRUE)
           B == Check(TRUE, FALSE)
           C == Check(FALSE, TRUE)
           D == Check(FALSE, FALSE)
<1>1. S \in Int /\ d \in Int /\ h \in Int
    BY GameIs
<1> HIDE DEF S, d, h
<1>2. /\ A \in Checks /\ B \in Checks /\ C \in Checks /\ D \in Checks
      /\ A # B /\ A # C /\ A # D /\ B # C /\ B # D /\ C # D
  <2>1. A \in Checks /\ B \in Checks /\ C \in Checks /\ D \in Checks
    BY DEF Check, Checks
  <2>2. /\ A.detects = TRUE /\ A.wins = TRUE /\ B.detects = TRUE /\ B.wins = FALSE
        /\ C.detects = FALSE /\ C.wins = TRUE /\ D.detects = FALSE /\ D.wins = FALSE
    BY DEF Check
  <2> HIDE DEF A, B, C, D
  <2> QED
    BY <2>1, <2>2
<1>3. \A c \in Checks : c = Check(c.detects, c.wins) /\ c.detects \in BOOLEAN /\ c.wins \in BOOLEAN
    BY DEF Check, Checks
<1>4. Checks = FourOf(A, B, C, D)
  <2>1. ASSUME NEW c \in Checks PROVE c \in FourOf(A, B, C, D)
    <3>1. (c.detects = TRUE \/ c.detects = FALSE) /\ (c.wins = TRUE \/ c.wins = FALSE)
      BY <1>3
    <3> QED
      BY <1>3, <3>1 DEF FourOf
  <2>2. \A c \in FourOf(A, B, C, D) : c \in Checks
    BY <1>2 DEF FourOf
  <2> QED
    BY <2>1, <2>2
<1>5. /\ CheckChances[A] = d * h /\ CheckChances[B] = d * (S - h)
      /\ CheckChances[C] = (S - d) * h /\ CheckChances[D] = (S - d) * (S - h)
    BY <1>2 DEF CheckChances, CheckChance, Chance, Check, S, d, h
<1>6. \A c \in Caught : c = A
    BY DEF Caught
<1>7. Caught \in SUBSET Checks /\ \A c \in Checks : c \in Caught <=> c.detects /\ c.wins
  <2>1. Caught \in SUBSET Checks
    BY <1>2 DEF Caught
  <2>2. ASSUME NEW c \in Checks PROVE c \in Caught <=> c.detects /\ c.wins
    BY <1>3 DEF Caught, Check, Checks
  <2> QED
    BY <2>1, <2>2
<1> HIDE DEF A, B, C, D
<1>8. d * h \in Int /\ d * (S - h) \in Int /\ (S - d) * h \in Int /\ (S - d) * (S - h) \in Int
  <2>1. S - h \in Int /\ S - d \in Int
    BY <1>1
  <2> DEFINE e == S - h
             f == S - d
  <2> HIDE DEF e, f
  <2>2. d * h \in Int /\ d * e \in Int /\ f * h \in Int /\ f * e \in Int
    BY <1>1, <2>1 DEF e, f
  <2> QED
    BY <2>2 DEF e, f
<1>9. \A c \in FourOf(A, B, C, D) : CheckChances[c] \in Int
    BY <1>5, <1>8 DEF FourOf
<1>10. SumFunctionOnSet(CheckChances, FourOf(A, B, C, D))
          = CheckChances[A] + CheckChances[B] + CheckChances[C] + CheckChances[D]
    BY <1>2, <1>9, SumOfFour
<1>11. ChecksOf(Checks) = S * S
  <2>1. d * h + d * (S - h) = d * S
    BY <1>1
  <2>2. (S - d) * h + (S - d) * (S - h) = (S - d) * S
    BY <1>1
  <2>3. d * S + (S - d) * S = S * S
    BY <1>1
  <2> DEFINE p == d * h
             q == d * (S - h)
             r == (S - d) * h
             s == (S - d) * (S - h)
  <2>4. ChecksOf(Checks) = p + q + r + s
    BY <1>4, <1>5, <1>10 DEF ChecksOf
  <2>5. p + q + r + s = (p + q) + (r + s)
    <3>1. p \in Int /\ q \in Int /\ r \in Int /\ s \in Int
      BY <1>8
    <3> HIDE DEF p, q, r, s
    <3> QED
      BY <3>1
  <2> QED
    BY <2>1, <2>2, <2>3, <2>4, <2>5
<1>12. IsFiniteSet(Checks)
  <2> DEFINE x == {A} \cup {B}
             y == {C} \cup {D}
  <2>1. IsFiniteSet(x) /\ IsFiniteSet(y)
    BY FS_Singleton, FS_Union
  <2>2. Checks = x \cup y
    BY <1>4 DEF FourOf
  <2> HIDE DEF x, y
  <2> QED
    BY <2>1, <2>2, FS_Union
<1>13. \A c \in Checks : CheckChances[c] \in Int
    BY <1>4, <1>9
<1>14. ChecksOf(Caught) = d * h
  <2>1. IsFiniteSet(Caught) /\ A \in Caught /\ \A c \in Caught \ {A} : CheckChances[c] = 0
    BY <1>6, <1>7, <1>12, FS_Subset DEF Caught, A
  <2>2. SumFunctionOnSet(CheckChances, Caught) = CheckChances[A]
    BY <1>2, <1>13, <2>1, SumOfOnly
  <2> QED
    BY <1>5, <2>2 DEF ChecksOf
<1>15. ChecksOf(Checks \ Caught) = S * S - d * h
  <2> DEFINE rest == Checks \ Caught
  <2>1. /\ IsFiniteSet(Caught) /\ IsFiniteSet(rest) /\ rest \cap Caught = {} /\ rest \cup Caught = Checks
        /\ (\A c \in rest \cup Caught : CheckChances[c] \in Int) /\ (\A c \in rest : CheckChances[c] \in Int)
    BY <1>7, <1>12, <1>13, FS_Subset
  <2> HIDE DEF rest
  <2>2. SumFunctionOnSet(CheckChances, rest \cup Caught)
           = SumFunctionOnSet(CheckChances, rest) + SumFunctionOnSet(CheckChances, Caught)
    BY <2>1, SumOfUnion
  <2>3. SumFunctionOnSet(CheckChances, rest) \in Int
    BY <2>1, SumIsInt
  <2>4. ChecksOf(rest) \in Int /\ ChecksOf(Checks) = ChecksOf(rest) + ChecksOf(Caught)
    BY <2>1, <2>2, <2>3 DEF ChecksOf
  <2>5. ChecksOf(rest) = S * S - d * h
    <3> DEFINE q == S * S
               k == d * h
    <3>1. q \in Int /\ k \in Int /\ q = ChecksOf(rest) + k
      BY <1>1, <1>8, <1>11, <1>14, <2>4
    <3> HIDE DEF q, k
    <3>2. ChecksOf(rest) = q - k
      BY <2>4, <3>1
    <3> QED
      BY <3>2 DEF q, k
  <2> QED
    BY <2>5 DEF rest
<1> QED
    BY <1>7, <1>11, <1>12, <1>13, <1>14, <1>15 DEF Square, S, d, h

\* What is unchallenged, and what matures, in an audit.
Unchallenged == {t \in Walk : ~t.challenged}
Matured == {t \in Walk : ~t.stopped}
AfterTheAudit == [x \in Walk \X Checks |-> AfterAudit(x[1], x[2])]

\* Where their weight comes from.
LEMMA AuditRegions ==
    ASSUME game \in Scenarios
    PROVE  /\ game.detection = 0 => ComesFrom(Checks, AfterTheAudit, Unchallenged, Unchallenged, Checks)
           /\ game.detection = 0 => ComesFrom(Checks, AfterTheAudit, Matured, Matured, Checks)
           /\ game.detection # 0 => ComesFrom(Checks, AfterTheAudit, Matured, Matured, Checks \ Caught)
<1> DEFINE X == Walk \X Checks
<1>1. ASSUME NEW T \in SUBSET Walk, NEW D \in SUBSET Checks,
             \A t \in Walk, c \in Checks : AfterAudit(t, c) \in T <=> t \in T /\ c \in D
      PROVE  ComesFrom(Checks, AfterTheAudit, T, T, D)
  <2>1. \A x \in X : x[1] \in Walk /\ x[2] \in Checks /\ AfterTheAudit[x] = AfterAudit(x[1], x[2])
    BY DEF AfterTheAudit
  <2>2. \A x \in X : AfterTheAudit[x] \in T <=> x[1] \in T /\ x[2] \in D
    BY <1>1, <2>1
  <2>3. \A x : x \in T \X D <=> x \in X /\ x[1] \in T /\ x[2] \in D
    OBVIOUS
  <2> QED
    BY <2>2, <2>3 DEF Fibres, ComesFrom, PairsOf
<1>2. /\ Unchallenged \in SUBSET Walk /\ Matured \in SUBSET Walk
      /\ Checks \in SUBSET Checks /\ Checks \ Caught \in SUBSET Checks
    BY DEF Unchallenged, Matured
<1>3. game.detection \in Nat
    BY GameIs
<1>4. ASSUME game.detection = 0 PROVE \A t \in Walk, c \in Checks : AfterAudit(t, c) = t
    BY <1>4 DEF AfterAudit, Audits
<1>5. game.detection = 0 => ComesFrom(Checks, AfterTheAudit, Unchallenged, Unchallenged, Checks)
  <2> SUFFICES ASSUME game.detection = 0 PROVE ComesFrom(Checks, AfterTheAudit, Unchallenged, Unchallenged, Checks)
    OBVIOUS
  <2>1. \A t \in Walk, c \in Checks : AfterAudit(t, c) \in Unchallenged <=> t \in Unchallenged /\ c \in Checks
    BY <1>4
  <2> QED
    BY <1>1, <1>2, <2>1
<1>6. game.detection = 0 => ComesFrom(Checks, AfterTheAudit, Matured, Matured, Checks)
  <2> SUFFICES ASSUME game.detection = 0 PROVE ComesFrom(Checks, AfterTheAudit, Matured, Matured, Checks)
    OBVIOUS
  <2>1. \A t \in Walk, c \in Checks : AfterAudit(t, c) \in Matured <=> t \in Matured /\ c \in Checks
    BY <1>4
  <2> QED
    BY <1>1, <1>2, <2>1
<1>7. game.detection # 0 => ComesFrom(Checks, AfterTheAudit, Matured, Matured, Checks \ Caught)
  <2> SUFFICES ASSUME game.detection # 0 PROVE ComesFrom(Checks, AfterTheAudit, Matured, Matured, Checks \ Caught)
    OBVIOUS
  <2>1. ASSUME NEW t \in Walk, NEW c \in Checks
        PROVE  AfterAudit(t, c) \in Matured <=> t \in Matured /\ c \in Checks \ Caught
    <3> DEFINE moved == [t EXCEPT !.challenged = TRUE, !.stopped = c.wins]
    <3>1. moved \in Walk /\ moved.stopped = c.wins
      BY DEF Walk, Checks
    <3>2. AfterAudit(t, c) = IF ~t.stopped /\ c.detects THEN moved ELSE t
      BY <1>3 DEF AfterAudit, Audits
    <3>3. c \in Caught <=> c.detects /\ c.wins
      BY ChecksAre
    <3> HIDE DEF moved
    <3> QED
      BY <3>1, <3>2, <3>3 DEF Matured
  <2> QED
    BY <1>1, <1>2, <2>1
<1> QED
    BY <1>5, <1>6, <1>7

\* The auditor's turn, on the weights.
LEMMA AuditMass ==
    ASSUME game \in Scenarios, mass \in [Walk -> Int], AuditorTurn
    PROVE  /\ mass' \in [Walk -> Int]
           /\ game.detection = 0 => SumFunctionOnSet(mass', Unchallenged) = MassOf(Unchallenged) * Square
           /\ SumFunctionOnSet(mass', Matured) = MassOf(Matured) * (Square - game.detection * game.conviction)
<1> DEFINE X == Walk \X Checks
           weight == [x \in X |-> mass[x[1]] * CheckChance(x[2])]
<1>1. mass' = [t \in Walk |-> SumFunctionOnSet(weight, {x \in X : AfterAudit(x[1], x[2]) = t})]
    BY DEF AuditorTurn
<1>2. \A t : {x \in X : AfterAudit(x[1], x[2]) = t} = Fibre(X, AfterTheAudit, t)
    BY DEF Fibre, AfterTheAudit
<1>3. \A c \in Checks : CheckChances[c] \in Int
    BY ChecksAre
<1>4. Weighs(weight, Checks, CheckChances)
    BY DEF Weighs, CheckChances
<1>5. IsFiniteSet(Checks)
    BY ChecksAre
<1>6. IsFiniteSet(X) /\ \A x \in X : weight[x] \in Int
  <2>1. IsFiniteSet(X)
    BY <1>5, WalkFinite, FS_Product
  <2>2. \A x \in X : mass[x[1]] \in Int /\ CheckChances[x[2]] \in Int
    BY <1>3
  <2> HIDE DEF weight
  <2> QED
    BY <1>4, <2>1, <2>2 DEF Weighs
<1> HIDE DEF weight
<1>7. mass' = [t \in Walk |-> SumFunctionOnSet(weight, Fibre(X, AfterTheAudit, t))]
    BY <1>1, <1>2
<1>8. mass' \in [Walk -> Int]
  <2>1. \A t \in Walk : SumFunctionOnSet(weight, Fibre(X, AfterTheAudit, t)) \in Int
    <3> SUFFICES ASSUME NEW t \in Walk PROVE SumFunctionOnSet(weight, Fibre(X, AfterTheAudit, t)) \in Int
      OBVIOUS
    <3> HIDE DEF X
    <3>1. Fibre(X, AfterTheAudit, t) \subseteq X
      BY DEF Fibre
    <3>2. IsFiniteSet(Fibre(X, AfterTheAudit, t))
      BY <1>6, <3>1, FS_Subset
    <3> QED
      BY <1>6, <3>1, <3>2, SumIsInt
  <2> QED
    BY <1>7, <2>1
<1>9. ASSUME NEW T \in SUBSET Walk, NEW R \in SUBSET Walk, NEW D \in SUBSET Checks,
             ComesFrom(Checks, AfterTheAudit, T, R, D)
      PROVE  SumFunctionOnSet(mass', T) = MassOf(R) * ChecksOf(D)
  <2> DEFINE after == mass'
  <2>1. Gathers(after, weight, Checks, AfterTheAudit)
    BY <1>7 DEF Gathers
  <2> HIDE DEF after
  <2>2. SumFunctionOnSet(after, T) = MassOf(R) * SumFunctionOnSet(CheckChances, D)
    BY <1>3, <1>4, <1>5, <1>9, <2>1, MassComesFrom
  <2> QED
    BY <2>2 DEF after, ChecksOf
<1>10. /\ Unchallenged \in SUBSET Walk /\ Matured \in SUBSET Walk
       /\ Checks \in SUBSET Checks /\ Checks \ Caught \in SUBSET Checks
    BY DEF Unchallenged, Matured
<1>11. ChecksOf(Checks) = Square /\ ChecksOf(Checks \ Caught) = Square - game.detection * game.conviction
    BY ChecksAre
<1>12. game.detection = 0 => SumFunctionOnSet(mass', Unchallenged) = MassOf(Unchallenged) * Square
    BY <1>9, <1>10, <1>11, AuditRegions
<1>13. SumFunctionOnSet(mass', Matured) = MassOf(Matured) * (Square - game.detection * game.conviction)
  <2>1. CASE game.detection = 0
    <3>1. SumFunctionOnSet(mass', Matured) = MassOf(Matured) * Square
      BY <1>9, <1>10, <1>11, <2>1, AuditRegions
    <3>2. Square - 0 * game.conviction = Square
      BY GameIs, FactorsAreInt
    <3> QED
      BY <2>1, <3>1, <3>2
  <2>2. CASE game.detection # 0
    BY <1>9, <1>10, <1>11, <2>2, AuditRegions
  <2> QED
    BY <2>1, <2>2
<1> QED
    BY <1>8, <1>12, <1>13

\* And on the utility.
LEMMA AuditUtility ==
    ASSUME game \in Scenarios, mass \in [Walk -> Int], AuditorTurn
    PROVE  utility' = [watchers |-> utility.watchers * Square,
                       auditor |-> IF game.detection = 0 THEN 0
                                   ELSE MassOf(Matured) * (game.detection * game.conviction * AuditorReward - Square * AuditorCost)]
<1> DEFINE X == Walk \X Checks
           weight == [x \in X |-> mass[x[1]] * CheckChance(x[2])]
           earned == [x \in X |-> weight[x] * AuditorEarned(x[1], x[2])]
           A == PairsOf(Matured, Caught)
           B == PairsOf(Matured, Checks \ Caught)
<1>1. utility' = [watchers |-> utility.watchers * Square, auditor |-> SumFunctionOnSet(earned, X)]
    BY DEF AuditorTurn
<1>2. IsFiniteSet(Checks) /\ \A c \in Checks : CheckChances[c] \in Int
    BY ChecksAre
<1>3. AuditorReward \in Int /\ AuditorCost \in Int /\ game.detection \in Nat /\ game.conviction \in Int /\ Square \in Int
    BY GameIs, FactorsAreInt
<1>4. Matured \in SUBSET Walk /\ Caught \in SUBSET Checks /\ Checks \ Caught \in SUBSET Checks
      /\ \A c \in Checks : c \in Caught <=> c.detects /\ c.wins
    BY ChecksAre DEF Matured
<1>5. IsFiniteSet(X)
    BY <1>2, WalkFinite, FS_Product
<1>6. Weighs(weight, Checks, CheckChances)
    BY DEF Weighs, CheckChances
<1>7. \A x \in X : weight[x] \in Int
    BY <1>2, <1>6 DEF Weighs
<1>8. \A x \in X : earned[x] = weight[x] * AuditorEarned(x[1], x[2]) /\ x[1] \in Walk /\ x[2] \in Checks
    OBVIOUS
<1>9. /\ A \in SUBSET X /\ B \in SUBSET X /\ A \cap B = {}
      /\ \A x \in X : /\ x \in A <=> x[1] \in Matured /\ x[2] \in Caught
                      /\ x \in B <=> x[1] \in Matured /\ x[2] \notin Caught
    BY <1>4 DEF PairsOf
<1> HIDE DEF weight, earned
<1>10. \A D \in SUBSET Checks : SumFunctionOnSet(weight, PairsOf(Matured, D)) = MassOf(Matured) * ChecksOf(D)
  <2> SUFFICES ASSUME NEW D \in SUBSET Checks
               PROVE  SumFunctionOnSet(weight, PairsOf(Matured, D)) = MassOf(Matured) * SumFunctionOnSet(CheckChances, D)
    BY DEF ChecksOf
  <2> QED
    BY <1>2, <1>4, <1>6, Rectangle
<1>11. /\ SumFunctionOnSet(weight, A) = MassOf(Matured) * (game.detection * game.conviction)
       /\ SumFunctionOnSet(weight, B) = MassOf(Matured) * (Square - game.detection * game.conviction)
    BY <1>4, <1>10, ChecksAre
<1>12. CASE game.detection = 0
  <2> DEFINE zero == 0
  <2>1. zero \in Int /\ \A x \in X : weight[x] \in Int /\ earned[x] = weight[x] * 0
    BY <1>7, <1>8, <1>12 DEF AuditorEarned, Audits
  <2>2. \A x \in X : weight[x] \in Int /\ earned[x] = zero * weight[x]
    BY <2>1
  <2> HIDE DEF X, zero
  <2>3. SumFunctionOnSet(earned, X) = zero * SumFunctionOnSet(weight, X)
    BY <1>5, <2>1, <2>2, SumOfMultiples
  <2>4. SumFunctionOnSet(weight, X) \in Int
    BY <1>5, <1>7, SumIsInt
  <2>5. SumFunctionOnSet(earned, X) = 0
    BY <2>3, <2>4 DEF zero
  <2> QED
    BY <1>1, <1>12, <2>5
<1>13. CASE game.detection # 0
  <2> DEFINE R == AuditorReward
             C == AuditorCost
             gain == R - C
             loss == -C
             zero == 0
  <2>0. R \in Int /\ C \in Int
    BY <1>3
  <2>1. \A x \in X : AuditorEarned(x[1], x[2]) = IF x \in A THEN gain + zero ELSE IF x \in B THEN loss + zero ELSE zero
    <3> SUFFICES ASSUME NEW x \in X
                 PROVE  AuditorEarned(x[1], x[2]) = IF x \in A THEN gain + zero ELSE IF x \in B THEN loss + zero ELSE zero
      OBVIOUS
    <3>1. Audits(x[1]) <=> x[1] \in Matured
      BY <1>3, <1>8, <1>13 DEF Audits, Matured
    <3>2. x[2] \in Caught <=> x[2].detects /\ x[2].wins
      BY <1>4, <1>8
    <3>3. (x \in A <=> x[1] \in Matured /\ x[2] \in Caught) /\ (x \in B <=> x[1] \in Matured /\ x[2] \notin Caught)
      BY <1>9
    <3> HIDE DEF X, A, B, R, C
    <3>4. AuditorEarned(x[1], x[2]) = IF ~Audits(x[1]) THEN 0 ELSE (IF x[2].detects /\ x[2].wins THEN R ELSE 0) - C
      BY DEF AuditorEarned, R, C
    <3>5. gain + zero = R - C /\ loss + zero = 0 - C
      BY <2>0
    <3> HIDE DEF gain, loss
    <3> QED
      BY <3>1, <3>2, <3>3, <3>4, <3>5
  <2>2. PaysByRegion(earned, weight, X, A, B, gain, loss, zero)
    <3> HIDE DEF A, B, gain, loss, zero, X
    <3> QED
      BY <1>8, <2>1 DEF PaysByRegion
  <2>3. gain \in Int /\ loss \in Int /\ zero \in Int
    BY <2>0
  <2> HIDE DEF X, A, B, gain, loss, zero, R, C
  <2>4. SumFunctionOnSet(earned, X)
           = gain * SumFunctionOnSet(weight, A) + loss * SumFunctionOnSet(weight, B) + zero * SumFunctionOnSet(weight, X)
    BY <1>5, <1>7, <1>9, <2>2, <2>3, PaidByRegion
  <2>5. SumFunctionOnSet(weight, X) \in Int
    BY <1>5, <1>7, SumIsInt
  <2> DEFINE m == MassOf(Matured)
             k == game.detection * game.conviction
             Q == Square
  <2>6. m \in Int /\ k \in Int /\ Q \in Int
    BY <1>3, <1>4, MassesAreInt
  <2>7. SumFunctionOnSet(weight, A) = m * k /\ SumFunctionOnSet(weight, B) = m * (Q - k)
    BY <1>11
  <2> HIDE DEF m, k, Q
  <2>8. zero * SumFunctionOnSet(weight, X) = 0
    BY <2>5 DEF zero
  <2>9. (R - C) * (m * k) + (-C) * (m * (Q - k)) = m * (k * R - Q * C)
    <3>1. (R - C) * (m * k) = m * (k * R) - m * (k * C)
      BY <2>0, <2>6
    <3>2. (-C) * (m * (Q - k)) = m * (k * C) - m * (Q * C)
      BY <2>0, <2>6
    <3>3. m * (k * R - Q * C) = m * (k * R) - m * (Q * C)
      BY <2>0, <2>6
    <3> DEFINE x == m * (k * R)
               y == m * (k * C)
               z == m * (Q * C)
    <3>4. x \in Int /\ y \in Int /\ z \in Int
      BY <2>0, <2>6
    <3> HIDE DEF x, y, z
    <3>5. (x - y) + (y - z) = x - z
      BY <3>4
    <3> QED
      BY <3>1, <3>2, <3>3, <3>5 DEF x, y, z
  <2>10. (R - C) * (m * k) + (-C) * (m * (Q - k)) \in Int
    <3>1. m * k \in Int /\ Q - k \in Int
      BY <2>6
    <3>2. m * (Q - k) \in Int
      BY <2>6, <3>1
    <3> QED
      BY <2>0, <3>1, <3>2
  <2>11. SumFunctionOnSet(earned, X) = m * (k * R - Q * C)
    BY <2>4, <2>7, <2>8, <2>9, <2>10 DEF gain, loss
  <2> QED
    BY <1>1, <1>13, <2>11 DEF m, k, Q, R, C
<1> QED
    BY <1>12, <1>13

\* The rates and utilities after the auditor, from those after the last watcher.
LEMMA AuditCloses ==
    ASSUME game \in Scenarios, mass \in [Walk -> Int], AuditorTurn, Walked(Watchers)
    PROVE  LET all == Power(Full, Watchers)
               unstopped == (Square - Spared) * all
                            + Spared * Power(Full - Attempt * game.success, Alert) * Power(Full, game.colluding)
           IN  /\ game.family = "INDEPENDENT" =>
                     /\ SumFunctionOnSet(mass', Unchallenged) = IndependentNoChallenge * Full
                     /\ SumFunctionOnSet(mass', Matured) = IndependentInvalidMaturity * Full
               /\ SumFunctionOnSet(mass', Matured) = unstopped * (Square - game.detection * game.conviction)
               /\ utility'.watchers =
                     Square * (Power(Full, Watchers - 1)
                       * Spared * (game.colluding * game.online * game.discovery * Square * game.bribe
                                   + Alert * Attempt * (game.success * (Reward + game.subsidy)
                                                        - (Scale - game.success) * Bond))
                       - Square * all * SumFunctionOnSet(Costs, 1..Watchers))
               /\ utility'.auditor = IF game.detection = 0 THEN 0
                     ELSE unstopped * (game.detection * game.conviction * AuditorReward - Square * AuditorCost)
<1> DEFINE W == Watchers
           F == Full
           Q == Square
           s == Spared
           all == Power(Full, W)
           n == game.colluding
           m == Alert
           full == Power(Full, n)
           q == Full - Attempt * Scale
           u == Full - Attempt * game.success
           k == game.detection * game.conviction
           free == Power(u, m)
           quiet == Power(q, m)
           costs == SumFunctionOnSet(Costs, 1..W)
<1>1. /\ W \in Nat /\ W # 0 /\ n \in Nat /\ n <= W /\ m \in Nat
      /\ Bribed(W) = n /\ Free(W) = m /\ m = W - n
  <2>1. W \in Nat /\ W # 0 /\ n \in 0..W
    BY GameIs
  <2>2. m = W - n
    BY DEF Alert
  <2>3. Bribed(W) = n /\ Free(W) = W - n
    BY <2>1 DEF Bribed, Free
  <2> HIDE DEF W, n, m
  <2> QED
    BY <2>1, <2>2, <2>3
<1>2. F \in Int /\ Q \in Int /\ s \in Int /\ q \in Int /\ u \in Int /\ k \in Int /\ F = Q * Q
    BY FactorsAreInt, GameIs DEF Full
<1>3. all \in Int /\ full \in Int
    BY <1>1, <1>2, PowersGrow
<1>4. free \in Int /\ quiet \in Int
  <2> HIDE DEF q, u, m
  <2> QED
    BY <1>1, <1>2, PowersGrow
<1>5. costs \in Int
    BY <1>1, CostsGrow
<1>6. /\ MassOf(Quiet(TRUE)) = (Q - s) * all /\ MassOf(Unstopped(TRUE)) = (Q - s) * all
      /\ MassOf(Quiet(FALSE)) = s * (full * quiet) /\ MassOf(Unstopped(FALSE)) = s * (full * free)
      /\ utility.watchers = Gross(W) - Q * (all * costs)
    BY <1>1 DEF Walked
<1>7. MassOf(Unchallenged) = (Q - s) * all + s * (full * quiet)
    BY <1>6, RegionsSplit DEF Unchallenged
<1>8. MassOf(Matured) = (Q - s) * all + s * (full * free)
    BY <1>6, RegionsSplit DEF Matured
<1>9. /\ game.detection = 0 => SumFunctionOnSet(mass', Unchallenged) = MassOf(Unchallenged) * Q
      /\ SumFunctionOnSet(mass', Matured) = MassOf(Matured) * (Q - k)
    BY AuditMass
<1> DEFINE unstopped == (Q - s) * all + s * free * full
<1>10. MassOf(Matured) = unstopped
  <2> HIDE DEF Q, s, all, full, free
  <2>1. s * (full * free) = s * free * full
    BY <1>2, <1>3, <1>4
  <2> QED
    BY <1>8, <2>1
<1>11. ASSUME game.family = "INDEPENDENT"
       PROVE  /\ SumFunctionOnSet(mass', Unchallenged) = IndependentNoChallenge * F
              /\ SumFunctionOnSet(mass', Matured) = IndependentInvalidMaturity * F
  <2>1. game.outage = 0 /\ game.infrastructure = 0 /\ n = 0 /\ game.detection = 0
    BY <1>11, GameIs
  <2>2. s = Q
    <3>1. Scale \in Int
      BY GameIs
    <3> QED
      BY <2>1, <3>1 DEF Spared, Square
  <2>3. k = 0
    BY <2>1, GameIs
  <2>4. full = 1
    BY <1>2, <2>1, PowersGrow
  <2>5. m = W
    <3> HIDE DEF m, W, n
    <3> QED
      BY <1>1, <2>1
  <2>6. IndependentNoChallenge = quiet /\ IndependentInvalidMaturity = free
    BY <2>5 DEF IndependentNoChallenge, IndependentInvalidMaturity
  <2> HIDE DEF W, F, Q, s, all, n, m, full, q, u, k, free, quiet, costs
  <2>7. ASSUME NEW r \in Int PROVE ((Q - Q) * all + Q * (1 * r)) * Q = r * (Q * Q) /\ Q - 0 = Q
    <3>1. Q - Q = 0 /\ Q - 0 = Q /\ 0 * all = 0 /\ 1 * r = r
      BY <1>2, <1>3, <2>7
    <3>2. (0 + Q * r) * Q = r * (Q * Q)
      BY <1>2, <2>7
    <3> QED
      BY <3>1, <3>2
  <2>8. SumFunctionOnSet(mass', Unchallenged) = ((Q - Q) * all + Q * (1 * quiet)) * Q
    BY <1>7, <1>9, <2>1, <2>2, <2>4
  <2>9. SumFunctionOnSet(mass', Matured) = ((Q - Q) * all + Q * (1 * free)) * (Q - 0)
    BY <1>8, <1>9, <2>2, <2>3, <2>4
  <2>10. SumFunctionOnSet(mass', Unchallenged) = quiet * F
    BY <1>2, <1>4, <2>7, <2>8
  <2>11. SumFunctionOnSet(mass', Matured) = free * F
    BY <1>2, <1>4, <2>7, <2>9
  <2> QED
    BY <2>6, <2>10, <2>11
<1>12. SumFunctionOnSet(mass', Matured) = unstopped * (Q - k)
    BY <1>9, <1>10
<1>13. utility' = [watchers |-> utility.watchers * Q,
                   auditor |-> IF game.detection = 0 THEN 0
                               ELSE MassOf(Matured) * (game.detection * game.conviction * AuditorReward - Square * AuditorCost)]
    BY AuditUtility
<1>14. utility'.auditor = IF game.detection = 0 THEN 0
          ELSE unstopped * (game.detection * game.conviction * AuditorReward - Square * AuditorCost)
  <2> HIDE DEF unstopped, Q
  <2> QED
    BY <1>10, <1>13
<1> DEFINE less == Power(Full, W - 1)
           o == game.online
           i == game.discovery
           a == Attempt
           bribe == game.bribe
           worth == game.success * (Reward + game.subsidy) - (Scale - game.success) * Bond
<1>15. Gross(W) = less * (s * (n * (o * i * Q * bribe) + m * (a * worth)))
    BY <1>1 DEF Gross, BribeWorth, ChallengeWorth
<1>16. less \in Int /\ o \in Int /\ i \in Int /\ a \in Int /\ bribe \in Int /\ worth \in Int
  <2>1. o \in Int /\ i \in Int /\ a \in Int /\ bribe \in Int
    BY GameIs, FactorsAreInt
  <2>2. less \in Int
    <3> DEFINE v == W - 1
    <3>1. v \in Nat
      BY <1>1
    <3> HIDE DEF v
    <3>2. Power(Full, v) \in Int
      BY <1>2, <3>1, PowersGrow
    <3> QED
      BY <3>2 DEF v
  <2>3. worth \in Int
    <3> DEFINE x == game.success * (Reward + game.subsidy)
               y == (Scale - game.success) * Bond
    <3>1. x \in Int /\ y \in Int
      BY GameIs
    <3> HIDE DEF x, y
    <3>2. x - y \in Int
      BY <3>1
    <3> QED
      BY <3>2 DEF x, y
  <2> QED
    BY <2>1, <2>2, <2>3
<1>17. utility'.watchers = (Gross(W) - Q * (all * costs)) * Q
    BY <1>6, <1>13
<1>18. utility'.watchers = Q * (less * s * (n * o * i * Q * bribe + m * a * worth) - Q * all * costs)
  <2> HIDE DEF W, F, Q, s, all, n, m, full, q, u, k, free, quiet, costs, less, o, i, a, bribe, worth, unstopped
  <2>0. n \in Int /\ m \in Int
    BY <1>1
  <2>1. n * (o * i * Q * bribe) = n * o * i * Q * bribe /\ m * (a * worth) = m * a * worth
    BY <1>2, <1>16, <2>0
  <2>2. n * o * i * Q * bribe \in Int /\ m * a * worth \in Int
    BY <1>2, <1>16, <2>0
  <2> DEFINE x == n * o * i * Q * bribe + m * a * worth
             y == Q * all * costs
  <2>3. x \in Int /\ y \in Int /\ Q * (all * costs) = y
    BY <1>2, <1>3, <1>5, <2>2
  <2>4. utility'.watchers = (less * (s * x) - y) * Q
    BY <1>15, <1>17, <2>1, <2>3
  <2> HIDE DEF x, y
  <2>5. less * (s * x) = less * s * x /\ less * s * x \in Int
    BY <1>2, <1>16, <2>3
  <2> DEFINE z == less * s * x
  <2>6. z \in Int
    BY <2>5
  <2>7. (z - y) * Q = Q * (z - y)
    <3> HIDE DEF z
    <3> QED
      BY <1>2, <2>3, <2>6
  <2>8. utility'.watchers = Q * (z - y)
    BY <2>4, <2>5, <2>7
  <2> QED
    BY <2>8 DEF x, y, z
<1> QED
    BY <1>11, <1>12, <1>14, <1>18

\* The invariant holds of every walk.
LEMMA WatcherInvHolds == WatcherInit /\ [][WatcherNext]_watcherVars => []WatcherInv
<1>1. WatcherInit => WatcherInv
  <2> SUFFICES ASSUME WatcherInit PROVE WatcherInv
    OBVIOUS
  <2>1. game \in Scenarios /\ watched = 0
    BY DEF WatcherInit
  <2>2. mass \in [Walk -> Int] /\ Walked(0)
    BY WalkedStart
  <2>3. Watchers \in Nat /\ Watchers # 0
    BY WatcherAssumption
  <2>4. SimulatesClosedForm
    BY <2>1, <2>3 DEF SimulatesClosedForm
  <2> QED
    BY <2>1, <2>2, <2>3, <2>4 DEF WatcherInv
<1>2. WatcherInv /\ [WatcherNext]_watcherVars => WatcherInv'
  <2> SUFFICES ASSUME WatcherInv, [WatcherNext]_watcherVars PROVE WatcherInv'
    OBVIOUS
  <2>1. game \in Scenarios /\ watched \in 0..(Watchers + 1) /\ mass \in [Walk -> Int]
        /\ (watched <= Watchers => Walked(watched)) /\ Watchers \in Nat
    BY WatcherAssumption DEF WatcherInv
  <2>2. CASE WatcherTurn
    <3> DEFINE w == watched
               v == w + 1
    <3>1. w \in 0..Watchers /\ w \in Nat /\ w < Watchers /\ watched' = v /\ game' = game /\ Walked(w)
      BY <2>1, <2>2 DEF WatcherTurn
    <3>2. /\ mass' \in [Walk -> Int]
          /\ SumFunctionOnSet(mass', Walk) = Square * Power(Full, v)
          /\ SumFunctionOnSet(mass', Open) = Spared * Power(Full, v)
          /\ SumFunctionOnSet(mass', Quiet(TRUE)) = (Square - Spared) * Power(Full, v)
          /\ SumFunctionOnSet(mass', Unstopped(TRUE)) = (Square - Spared) * Power(Full, v)
          /\ SumFunctionOnSet(mass', Quiet(FALSE))
                = Spared * (Power(Full, Bribed(v)) * Power(Full - Attempt * Scale, Free(v)))
          /\ SumFunctionOnSet(mass', Unstopped(FALSE))
                = Spared * (Power(Full, Bribed(v)) * Power(Full - Attempt * game.success, Free(v)))
      BY <2>1, <2>2, <3>1, TurnWalks
    <3>3. /\ utility'.watchers = Gross(v) - Square * (Power(Full, v) * SumFunctionOnSet(Costs, 1..v))
          /\ utility'.auditor = 0
      BY <2>1, <2>2, <3>1, TurnPays
    <3> HIDE DEF v
    <3>4. /\ Spared' = Spared /\ Attempt' = Attempt /\ Bribed(watched)' = Bribed(v) /\ Free(watched)' = Free(v)
          /\ Gross(watched)' = Gross(v) /\ Costs' = Costs
      BY <3>1 DEF Spared, Attempt, Bribed, Free, Gross, BribeWorth, ChallengeWorth, Costs, Cost
    <3>5. Walked(watched)'
      BY <3>1, <3>2, <3>3, <3>4 DEF Walked, MassOf
    <3>6. watched' # Watchers + 1 /\ watched' \in 0..(Watchers + 1)
      BY <2>1, <3>1 DEF v
    <3>7. SimulatesClosedForm'
      BY <3>6 DEF SimulatesClosedForm
    <3> QED
      BY <2>1, <3>1, <3>2, <3>5, <3>6, <3>7 DEF WatcherInv
  <2>3. CASE AuditorTurn
    <3>1. watched = Watchers /\ watched' = Watchers + 1 /\ game' = game /\ Walked(Watchers)
      BY <2>1, <2>3 DEF AuditorTurn
    <3>2. mass' \in [Walk -> Int]
      BY <2>1, <2>3, AuditMass
    <3>3. SimulatesClosedForm'
      <4> DEFINE all == Power(Full, Watchers)
                 unstopped == (Square - Spared) * all
                              + Spared * Power(Full - Attempt * game.success, Alert) * Power(Full, game.colluding)
      <4>1. /\ game.family = "INDEPENDENT" =>
                  /\ SumFunctionOnSet(mass', Unchallenged) = IndependentNoChallenge * Full
                  /\ SumFunctionOnSet(mass', Matured) = IndependentInvalidMaturity * Full
            /\ SumFunctionOnSet(mass', Matured) = unstopped * (Square - game.detection * game.conviction)
            /\ utility'.watchers =
                  Square * (Power(Full, Watchers - 1)
                    * Spared * (game.colluding * game.online * game.discovery * Square * game.bribe
                                + Alert * Attempt * (game.success * (Reward + game.subsidy)
                                                     - (Scale - game.success) * Bond))
                    - Square * all * SumFunctionOnSet(Costs, 1..Watchers))
            /\ utility'.auditor = IF game.detection = 0 THEN 0
                  ELSE unstopped * (game.detection * game.conviction * AuditorReward - Square * AuditorCost)
        BY <2>1, <2>3, <3>1, AuditCloses
      <4>2. NoChallenge' = SumFunctionOnSet(mass', Unchallenged) /\ InvalidMaturity' = SumFunctionOnSet(mass', Matured)
        BY DEF NoChallenge, InvalidMaturity, MassOf, Unchallenged, Matured
      <4>3. /\ Spared' = Spared /\ Attempt' = Attempt /\ Alert' = Alert /\ Costs' = Costs
            /\ IndependentNoChallenge' = IndependentNoChallenge
            /\ IndependentInvalidMaturity' = IndependentInvalidMaturity
        BY <3>1 DEF Spared, Attempt, Alert, Costs, Cost, IndependentNoChallenge, IndependentInvalidMaturity
      <4> QED
        BY <3>1, <4>1, <4>2, <4>3 DEF SimulatesClosedForm
    <3> QED
      BY <2>1, <3>1, <3>2, <3>3 DEF WatcherInv
  <2>4. CASE UNCHANGED watcherVars
    <3>1. game' = game /\ watched' = watched /\ mass' = mass /\ utility' = utility
      BY <2>4 DEF watcherVars
    <3>2. Walked(watched)' = Walked(watched)
      BY <3>1 DEF Walked, MassOf, Spared, Attempt, Bribed, Free, Gross, BribeWorth, ChallengeWorth, Costs, Cost
    <3>3. SimulatesClosedForm' = SimulatesClosedForm
      BY <3>1 DEF SimulatesClosedForm, NoChallenge, InvalidMaturity, MassOf, Spared, Attempt, Alert, Costs, Cost,
                  IndependentNoChallenge, IndependentInvalidMaturity
    <3> QED
      BY <2>1, <3>1, <3>2, <3>3 DEF WatcherInv
  <2> QED
    BY <2>2, <2>3, <2>4 DEF WatcherNext
<1> QED
    BY <1>1, <1>2, PTL

\* The walk of a trial ends in the closed forms of the row.
THEOREM WalksMatchClosedForms == WatcherInit /\ [][WatcherNext]_watcherVars => []SimulatesClosedForm
<1>1. WatcherInv => SimulatesClosedForm
    BY DEF WatcherInv
<1> QED
    BY <1>1, WatcherInvHolds, PTL
=============================================================================
