---------------------------- MODULE Evidence_proofs ----------------------------
(***************************************************************************)
(* Proofs about frozen evidence, for any processes, artifacts, revisions,  *)
(* edits and kills: the registry that many processes publish into, the     *)
(* freezing of reviewed candidates, and the report that is built from the  *)
(* experiments' files.  The modules share no state, so each theorem is     *)
(* about the behaviours of one of them.                                    *)
(***************************************************************************)
EXTENDS ArtifactRegistry, FreezePromotion, PublicationReport, SumTheorems, SequenceTheorems, TLAPS

-----------------------------------------------------------------------------
(* The registry.  The inductive invariant says which files exist and what  *)
(* is linked where while a call runs; from it follows that every step of   *)
(* every process is a step of FrozenStore or leaves the frozen artifacts   *)
(* unchanged.                                                              *)

InCall == {"writing", "written", "linked", "excepted"}

Created(c) == c[2] <= calls[c[1]]

\* Files are named by the calls that made them and hold one artifact for good.
FilesOK ==
    /\ \A c \in Calls : Created(c) => content[c] \in Artifacts
    /\ \A c \in temps : Created(c)
    /\ \A i \in Ids : target[i] # NoCall =>
          Created(target[i]) /\ IdOf[content[target[i]]] = i
    /\ \A c \in Calls : outcome[c] # "open" => Created(c)

\* A running call: its file is its own, and linked exactly when pc says so.
CallOK(p) == pc[p] \in InCall =>
    /\ calls[p] >= 1
    /\ outcome[Current(p)] = "open"
    /\ ParentsOf[content[Current(p)]] \subseteq entries[p]
    /\ pc[p] \in {"writing", "written"} => \A i \in Ids : target[i] # Current(p)
    /\ pc[p] = "linked" => IsLinked(Current(p))

\* What an opening process is about to remove is published.
HandOK(p) == pc[p] = "unlinking" =>
    hand[p] \in Calls /\ Created(hand[p]) /\ content[hand[p]] \in Published

PublishedClosed == \A a \in Published : ParentsOf[a] \subseteq Published

IInv ==
    /\ TypeOK
    /\ FilesOK
    /\ \A p \in Processes : CallOK(p) /\ HandOK(p)
    /\ PublishedClosed
    /\ EntriesFrozen
    /\ EntriesClosed
    /\ OutcomeTruthful

-----------------------------------------------------------------------------
\* A running call is one of the calls and its file was created.
LEMMA CurrentCall ==
    ASSUME TypeOK, NEW p \in Processes, calls[p] >= 1
    PROVE  Current(p) \in Calls /\ Created(Current(p))
  BY DEF TypeOK, Current, Calls, Created

\* Two processes are never in the same call.
LEMMA CurrentApart ==
    ASSUME NEW p \in Processes, NEW q \in Processes, p # q
    PROVE  Current(p) # Current(q)
  BY DEF Current

\* Published holds artifacts, and does not change while target and the content
\* of the linked files do not.
LEMMA PublishedArtifacts ==
    ASSUME TypeOK, FilesOK
    PROVE  Published \subseteq Artifacts
  BY RegistryAssumption DEF TypeOK, FilesOK, Published

LEMMA PublishedSame ==
    ASSUME UNCHANGED <<target, content>>
    PROVE  Published' = Published
  BY DEF Published

\* Initially nothing exists.
LEMMA InitInv == Init => IInv
  <1> SUFFICES ASSUME Init PROVE IInv
    OBVIOUS
  <1>1. Published = {}
    BY RegistryAssumption DEF Init, Published
  <1>2. TypeOK
    BY RegistryAssumption DEF Init, TypeOK, Phases
  <1>3. FilesOK
    BY RegistryAssumption DEF Init, FilesOK, Created, Calls
  <1>4. \A p \in Processes : CallOK(p) /\ HandOK(p)
    BY DEF Init, CallOK, HandOK, InCall
  <1> QED
    BY <1>1, <1>2, <1>3, <1>4
    DEF Init, IInv, PublishedClosed, EntriesFrozen, EntriesClosed, OutcomeTruthful

-----------------------------------------------------------------------------
(* Steps that create, link and end nothing: all of opening, and a crash *)

LEMMA QuietStep ==
    ASSUME IInv, TypeOK', NEW p \in Processes,
           UNCHANGED <<target, content, outcome, calls>>, temps' \subseteq temps,
           \A q \in Processes \ {p} :
               pc'[q] = pc[q] /\ entries'[q] = entries[q] /\ hand'[q] = hand[q],
           CallOK(p)', HandOK(p)', entries'[p] \subseteq Published,
           \A a \in entries'[p] : ParentsOf[a] \subseteq entries'[p]
    PROVE  IInv'
  <1>1. Published' = Published
    BY PublishedSame
  <1>2. FilesOK'
    BY DEF IInv, FilesOK, Created
  <1>3. ASSUME NEW q \in Processes PROVE CallOK(q)' /\ HandOK(q)'
    <2>1. CASE q = p
      BY <2>1
    <2>2. CASE q # p
      <3>1. pc'[q] = pc[q] /\ entries'[q] = entries[q] /\ hand'[q] = hand[q]
        BY <2>2
      <3>2. CallOK(q) /\ HandOK(q)
        BY DEF IInv
      <3>3. CallOK(q)'
        BY <3>1, <3>2 DEF CallOK, Current, IsLinked, FileName
      <3>4. HandOK(q)'
        BY <1>1, <3>1, <3>2 DEF HandOK, Created
      <3> QED
        BY <3>3, <3>4
    <2> QED
      BY <2>1, <2>2
  <1>4. PublishedClosed' /\ OutcomeTruthful'
    BY <1>1 DEF IInv, PublishedClosed, OutcomeTruthful
  <1>5. EntriesFrozen' /\ EntriesClosed'
    BY <1>1 DEF IInv, EntriesFrozen, EntriesClosed
  <1> QED
    BY <1>2, <1>3, <1>4, <1>5 DEF IInv

\* A process that gives up its registry leaves the directory alone.
LEMMA FailOpenInv ==
    ASSUME IInv, NEW p \in Processes, FailOpen(p), UNCHANGED <<disk, calls, outcome>>
    PROVE  IInv'
  <1>1. TypeOK'
    BY DEF IInv, TypeOK, FailOpen, disk, Phases
  <1>2. pc'[p] = "closed" /\ entries'[p] = {}
    BY DEF IInv, TypeOK, FailOpen
  <1>3. CallOK(p)' /\ HandOK(p)'
    BY <1>2 DEF CallOK, HandOK, InCall
  <1>4. \A q \in Processes \ {p} :
            pc'[q] = pc[q] /\ entries'[q] = entries[q] /\ hand'[q] = hand[q]
    BY DEF IInv, TypeOK, FailOpen
  <1>5. temps' \subseteq temps /\ UNCHANGED <<target, content, outcome, calls>>
    BY DEF disk
  <1> QED
    BY <1>1, <1>2, <1>3, <1>4, <1>5, QuietStep

LEMMA OpenInv ==
    ASSUME IInv, NEW p \in Processes, Open(p)
    PROVE  IInv'
  <1> USE DEF disk
  <1>0. TypeOK /\ Published \subseteq Artifacts /\ EntriesFrozen /\ EntriesClosed
    BY PublishedArtifacts DEF IInv
  <1>1. CASE BeginOpen(p)
    <2>1. TypeOK'
      BY <1>0, <1>1 DEF TypeOK, BeginOpen, Phases
    <2>2. pc'[p] = "loading"
      BY <1>0, <1>1 DEF TypeOK, BeginOpen
    <2>3. CallOK(p)' /\ HandOK(p)'
      BY <2>2 DEF CallOK, HandOK, InCall
    <2>4. \A q \in Processes \ {p} :
              pc'[q] = pc[q] /\ entries'[q] = entries[q] /\ hand'[q] = hand[q]
      BY <1>0, <1>1 DEF TypeOK, BeginOpen
    <2>5. entries'[p] \subseteq Published /\ \A a \in entries'[p] : ParentsOf[a] \subseteq entries'[p]
      BY <1>0, <1>1 DEF EntriesFrozen, EntriesClosed, BeginOpen
    <2> QED
      BY <1>1, <2>1, <2>3, <2>4, <2>5, QuietStep DEF BeginOpen
  <1>2. CASE LoadEntries(p)
    <2>1. PICK found \in SUBSET Published :
              ClosedGraph(found) /\ entries' = [entries EXCEPT ![p] = found]
      BY <1>2 DEF LoadEntries
    <2>2. TypeOK'
      <3>1. entries' \in [Processes -> SUBSET Artifacts]
        BY <1>0, <2>1 DEF TypeOK
      <3> QED
        BY <1>0, <1>2, <3>1 DEF TypeOK, LoadEntries, Phases
    <2>3. pc'[p] = "recovering" /\ entries'[p] = found
      BY <1>0, <1>2, <2>1 DEF TypeOK, LoadEntries
    <2>4. CallOK(p)' /\ HandOK(p)'
      BY <2>3 DEF CallOK, HandOK, InCall
    <2>5. \A q \in Processes \ {p} :
              pc'[q] = pc[q] /\ entries'[q] = entries[q] /\ hand'[q] = hand[q]
      BY <1>0, <1>2, <2>1 DEF TypeOK, LoadEntries
    <2>6. entries'[p] \subseteq Published /\ \A a \in entries'[p] : ParentsOf[a] \subseteq entries'[p]
      BY <2>1, <2>3 DEF ClosedGraph
    <2> QED
      BY <1>2, <2>2, <2>4, <2>5, <2>6, QuietStep DEF LoadEntries
  <1>3. CASE LoadFails(p) \/ RecoveryFails(p)
    BY <1>3, FailOpenInv DEF LoadFails, RecoveryFails
  <1>4. ASSUME NEW c \in Calls, CheckTemp(p, c) PROVE IInv'
    <2>1. TypeOK'
      BY <1>0, <1>4 DEF TypeOK, CheckTemp, Phases
    <2>2. pc'[p] = "unlinking" /\ hand'[p] = c
      BY <1>0, <1>4 DEF TypeOK, CheckTemp
    <2>3. content[c] \in Published /\ Created(c)
      <3>1. c \in temps /\ target[FileName(c)] = c
        BY <1>4 DEF CheckTemp, Recoverable, IsLinked
      <3>2. content[c] \in Artifacts
        BY <3>1, <1>0 DEF IInv, FilesOK
      <3>3. FileName(c) \in Ids
        BY <3>2, RegistryAssumption DEF FileName
      <3> QED
        BY <1>0, <3>1, <3>3, RegistryAssumption DEF Published, IInv, FilesOK
    <2>4. CallOK(p)' /\ HandOK(p)'
      <3>1. Published' = Published /\ content' = content /\ calls' = calls
        BY <1>4, PublishedSame DEF CheckTemp
      <3> QED
        BY <2>2, <2>3, <3>1 DEF CallOK, HandOK, InCall, Created
    <2>5. \A q \in Processes \ {p} :
              pc'[q] = pc[q] /\ entries'[q] = entries[q] /\ hand'[q] = hand[q]
      BY <1>0, <1>4 DEF TypeOK, CheckTemp
    <2>6. entries'[p] \subseteq Published /\ \A a \in entries'[p] : ParentsOf[a] \subseteq entries'[p]
      BY <1>0, <1>4 DEF EntriesFrozen, EntriesClosed, CheckTemp
    <2> QED
      BY <1>4, <2>1, <2>4, <2>5, <2>6, QuietStep DEF CheckTemp
  <1>5. CASE UnlinkTemp(p) \/ FinishOpen(p)
    <2>1. TypeOK'
      BY <1>0, <1>5 DEF TypeOK, UnlinkTemp, FinishOpen, Phases
    <2>2. pc'[p] \in {"recovering", "idle"}
      BY <1>0, <1>5 DEF TypeOK, UnlinkTemp, FinishOpen
    <2>3. CallOK(p)' /\ HandOK(p)'
      BY <2>2 DEF CallOK, HandOK, InCall
    <2>4. \A q \in Processes \ {p} :
              pc'[q] = pc[q] /\ entries'[q] = entries[q] /\ hand'[q] = hand[q]
      BY <1>0, <1>5 DEF TypeOK, UnlinkTemp, FinishOpen
    <2>5. entries'[p] \subseteq Published /\ \A a \in entries'[p] : ParentsOf[a] \subseteq entries'[p]
      BY <1>0, <1>5 DEF EntriesFrozen, EntriesClosed, UnlinkTemp, FinishOpen
    <2>6. temps' \subseteq temps /\ UNCHANGED <<target, content, outcome, calls>>
      BY <1>5 DEF UnlinkTemp, FinishOpen
    <2> QED
      BY <2>1, <2>3, <2>4, <2>5, <2>6, QuietStep
  <1> QED
    BY <1>1, <1>2, <1>3, <1>4, <1>5 DEF Open

-----------------------------------------------------------------------------
(* Steps of write_atomic *)

LEMMA StartWriteInv ==
    ASSUME IInv, NEW p \in Processes, NEW a \in Artifacts, StartWrite(p, a)
    PROVE  IInv' /\ Published' = Published
  <1>. PICK new \in Calls : new = <<p, calls[p] + 1>>
    BY RegistryAssumption DEF IInv, TypeOK, StartWrite, Calls
  <1>0. TypeOK /\ FilesOK /\ calls[p] \in Nat /\ ~Created(new)
    BY RegistryAssumption DEF IInv, TypeOK, StartWrite, Created
  <1>1. /\ calls' = [calls EXCEPT ![p] = @ + 1]
        /\ content' = [content EXCEPT ![new] = a]
        /\ temps' = temps \cup {new}
        /\ pc' = [pc EXCEPT ![p] = "writing"]
        /\ UNCHANGED <<target, entries, seen, todo, hand, outcome>>
    BY DEF StartWrite
  <1>2. TypeOK'
    <2>1. calls' \in [Processes -> 0..MaxCalls]
      BY <1>0, <1>1, RegistryAssumption DEF TypeOK, StartWrite
    <2>2. content' \in [Calls -> Artifacts \cup {NoArtifact}]
      BY <1>0, <1>1 DEF TypeOK
    <2> QED
      BY <1>0, <1>1, <2>1, <2>2 DEF TypeOK, Phases
  <1>3. \A c \in Calls : Created(c) => Created(c)' /\ content'[c] = content[c]
    BY <1>0, <1>1, RegistryAssumption DEF TypeOK, Created, Calls
  <1>4. Created(new)' /\ content'[new] = a
    BY <1>0, <1>1 DEF TypeOK, Created
  <1>5. ASSUME NEW c \in Calls, Created(c)' PROVE Created(c) \/ c = new
    <2>1. PICK q \in Processes, k \in 1..MaxCalls : c = <<q, k>>
      BY DEF Calls
    <2>2. k \in Nat /\ k <= calls'[q]
      BY <1>5, <2>1, RegistryAssumption DEF Created
    <2>3. CASE q = p
      BY <1>0, <1>1, <2>1, <2>2, <2>3 DEF TypeOK, Created
    <2>4. CASE q # p
      BY <1>0, <1>1, <2>1, <2>2, <2>4 DEF TypeOK, Created
    <2> QED
      BY <2>3, <2>4
  <1>6. \A i \in Ids : target[i] # NoCall => target[i] \in Calls /\ Created(target[i])
    BY <1>0 DEF TypeOK, FilesOK
  <1>7. Published' = Published
    BY <1>1, <1>3, <1>6 DEF Published
  <1>8. FilesOK'
    <2>1. \A c \in Calls : Created(c)' => content'[c] \in Artifacts
      BY <1>0, <1>3, <1>4, <1>5 DEF FilesOK
    <2>2. ASSUME NEW c \in temps' PROVE Created(c)'
      <3>1. CASE c = new
        BY <1>4, <3>1 DEF Created
      <3>2. CASE c # new
        <4>1. c \in temps /\ c \in Calls
          BY <1>0, <1>1, <3>2 DEF TypeOK
        <4> QED
          BY <1>0, <1>3, <4>1 DEF FilesOK, Created
      <3> QED
        BY <3>1, <3>2
    <2>3. \A i \in Ids : target'[i] # NoCall => Created(target[i])' /\ IdOf[content'[target'[i]]] = i
      BY <1>0, <1>1, <1>3, <1>6 DEF FilesOK, Created
    <2>4. \A c \in Calls : outcome'[c] # "open" => Created(c)'
      BY <1>0, <1>1, <1>3 DEF FilesOK
    <2> QED
      BY <2>1, <2>2, <2>3, <2>4 DEF FilesOK
  <1>9. ASSUME NEW q \in Processes PROVE CallOK(q)' /\ HandOK(q)'
    <2>1. CASE q = p
      <3>1. pc'[p] = "writing" /\ calls'[p] = calls[p] + 1 /\ Current(p)' = new
        BY <1>0, <1>1 DEF TypeOK, Current
      <3>2. outcome'[new] = "open" /\ \A i \in Ids : target'[i] # new
        <4>1. outcome[new] = "open"
          BY <1>0 DEF FilesOK
        <4> QED
          BY <1>0, <1>1, <1>6, <4>1, RegistryAssumption
      <3>3. ParentsOf[content'[new]] \subseteq entries'[p]
        BY <1>1, <1>4 DEF StartWrite
      <3> QED
        <4>1. calls'[p] >= 1
          BY <1>0, <3>1
        <4> QED
          BY <2>1, <3>1, <3>2, <3>3, <4>1 DEF CallOK, HandOK
    <2>2. CASE q # p
      <3>1. pc'[q] = pc[q] /\ calls'[q] = calls[q] /\ Current(q)' = Current(q) /\ CallOK(q) /\ HandOK(q)
        BY <1>0, <1>1, <2>2 DEF TypeOK, Current, IInv
      <3>2. CallOK(q)'
        <4> SUFFICES ASSUME pc[q] \in InCall PROVE CallOK(q)'
          BY <3>1 DEF CallOK
        <4>1. Current(q) \in Calls /\ content'[Current(q)] = content[Current(q)]
          BY <1>0, <1>3, <3>1, CurrentCall DEF CallOK
        <4> QED
          BY <1>1, <3>1, <4>1 DEF CallOK, IsLinked, FileName
      <3>3. HandOK(q)'
        <4> SUFFICES ASSUME pc[q] = "unlinking" PROVE HandOK(q)'
          BY <3>1 DEF HandOK
        <4>1. hand[q] \in Calls /\ Created(hand[q]) /\ content[hand[q]] \in Published
          BY <3>1 DEF HandOK
        <4>2. content'[hand[q]] = content[hand[q]] /\ Created(hand[q])'
          BY <1>1, <1>3, <4>1 DEF Created
        <4> QED
          BY <1>1, <1>7, <3>1, <4>1, <4>2 DEF HandOK
      <3> QED
        BY <3>2, <3>3
    <2> QED
      BY <2>1, <2>2
  <1> QED
    <2>1. OutcomeTruthful'
      <3> SUFFICES ASSUME NEW c \in Calls
                   PROVE  /\ outcome'[c] = "success" => content'[c] \in Published'
                          /\ outcome'[c] = "raised" => \A i \in Ids : target'[i] # c
        BY DEF OutcomeTruthful
      <3>1. outcome[c] # "open" => content'[c] = content[c]
        BY <1>0, <1>3 DEF FilesOK
      <3> QED
        BY <1>1, <1>7, <3>1 DEF IInv, OutcomeTruthful
    <2> QED
      BY <1>1, <1>2, <1>7, <1>8, <1>9, <2>1
      DEF IInv, PublishedClosed, EntriesFrozen, EntriesClosed

\* The end of a call: nothing is created or linked, and what the process learns
\* is published.
LEMMA ReturnInv ==
    ASSUME IInv, NEW p \in Processes, pc[p] \in InCall,
           NEW result \in {"success", "raised"}, NEW removed \in SUBSET {Current(p)},
           NEW learned \in SUBSET {content[Current(p)]}, Return(p, result, removed, learned),
           result = "success" \/ learned # {} => content[Current(p)] \in Published,
           result = "raised" => \A i \in Ids : target[i] # Current(p)
    PROVE  IInv' /\ Published' = Published
  <1>. PICK me \in Calls : me = Current(p)
    BY CurrentCall DEF IInv, CallOK
  <1>0. TypeOK /\ FilesOK /\ Created(me) /\ CallOK(p) /\ content[me] \in Artifacts
    BY CurrentCall DEF IInv, FilesOK, CallOK
  <1>1. /\ pc' = [pc EXCEPT ![p] = "idle"]
        /\ outcome' = [outcome EXCEPT ![me] = result]
        /\ temps' = temps \ removed
        /\ entries' = [entries EXCEPT ![p] = @ \cup learned]
        /\ UNCHANGED <<target, content, calls, seen, todo, hand>>
    BY DEF Return
  <1>2. TypeOK'
    <2>1. learned \subseteq Artifacts
      BY <1>0
    <2>2. entries' \in [Processes -> SUBSET Artifacts]
      BY <1>0, <1>1, <2>1 DEF TypeOK
    <2> QED
      BY <1>0, <1>1, <2>2 DEF TypeOK, Phases
  <1>3. Published' = Published
    BY <1>1, PublishedSame
  <1>4. FilesOK'
    BY <1>0, <1>1 DEF TypeOK, FilesOK, Created
  <1>5. ASSUME NEW q \in Processes PROVE CallOK(q)' /\ HandOK(q)'
    <2>1. CASE q = p
      BY <1>0, <1>1, <2>1 DEF TypeOK, CallOK, HandOK, InCall
    <2>2. CASE q # p
      <3>1. /\ pc'[q] = pc[q] /\ entries'[q] = entries[q] /\ hand'[q] = hand[q]
            /\ CallOK(q) /\ HandOK(q)
        BY <1>0, <1>1, <2>2 DEF TypeOK, IInv
      <3>2. pc[q] \in InCall => outcome'[Current(q)] = outcome[Current(q)]
        BY <1>0, <1>1, <2>2, <3>1, CurrentApart, CurrentCall DEF TypeOK, CallOK
      <3>3. Current(q)' = Current(q)
        BY <1>1 DEF Current
      <3>4. CallOK(q)'
        BY <1>1, <3>1, <3>2, <3>3 DEF CallOK, IsLinked, FileName
      <3>5. HandOK(q)'
        BY <1>1, <1>3, <3>1 DEF HandOK, Created
      <3> QED
        BY <3>4, <3>5
    <2> QED
      BY <2>1, <2>2
  <1>6. EntriesFrozen'
    BY <1>0, <1>1, <1>3 DEF TypeOK, IInv, EntriesFrozen
  <1>7. EntriesClosed'
    <2>1. ParentsOf[content[me]] \subseteq entries[p]
      BY <1>0 DEF CallOK
    <2> QED
      BY <1>0, <1>1, <2>1 DEF TypeOK, IInv, EntriesClosed
  <1>8. OutcomeTruthful'
    BY <1>0, <1>1, <1>3 DEF TypeOK, IInv, OutcomeTruthful
  <1> QED
    BY <1>2, <1>3, <1>4, <1>5, <1>6, <1>7, <1>8 DEF IInv, PublishedClosed

\* os.link publishes the call's artifact, a step of FrozenStore.
LEMMA LinkInv ==
    ASSUME IInv, NEW p \in Processes, Link(p)
    PROVE  IInv' /\ Store!Freeze(content[Current(p)]) /\ content[Current(p)] \in Artifacts
  <1>. PICK me \in Calls : me = Current(p)
    BY CurrentCall DEF IInv, CallOK, InCall, Link
  <1>0. TypeOK /\ FilesOK /\ Created(me) /\ CallOK(p) /\ pc[p] = "written"
    BY CurrentCall DEF IInv, CallOK, InCall, Link
  <1>. PICK a \in Artifacts : a = content[me]
    BY <1>0 DEF FilesOK
  <1>. PICK id \in Ids : id = IdOf[a]
    BY RegistryAssumption
  <1>1. /\ target[id] = NoCall
        /\ target' = [target EXCEPT ![id] = me]
        /\ pc' \in {[pc EXCEPT ![p] = "linked"], [pc EXCEPT ![p] = "excepted"]}
        /\ UNCHANGED <<temps, content, entries, calls, seen, todo, hand, outcome>>
    BY DEF Link, FileName, NameIsFree
  <1>2. TypeOK'
    BY <1>0, <1>1 DEF TypeOK, Phases
  <1>3. Published' = Published \cup {a}
    <2>1. me # NoCall
      BY RegistryAssumption
    <2>2. \A i \in Ids : target'[i] = IF i = id THEN me ELSE target[i]
      BY <1>0, <1>1 DEF TypeOK
    <2>3. ASSUME NEW x \in Published' PROVE x \in Published \cup {a}
      <3>1. PICK i \in Ids : target'[i] # NoCall /\ x = content[target'[i]]
        BY <1>1, <2>3 DEF Published
      <3> QED
        BY <2>2, <3>1 DEF Published
    <2>4. ASSUME NEW x \in Published \cup {a} PROVE x \in Published'
      <3>1. CASE x = a
        BY <1>1, <2>1, <2>2, <3>1 DEF Published
      <3>2. CASE x \in Published
        <4>1. PICK i \in Ids : target[i] # NoCall /\ x = content[target[i]]
          BY <3>2 DEF Published
        <4> QED
          BY <1>1, <2>2, <4>1 DEF Published
      <3> QED
        BY <2>4, <3>1, <3>2
    <2> QED
      BY <2>3, <2>4
  <1>4. FilesOK'
    BY <1>0, <1>1 DEF TypeOK, FilesOK, Created
  <1>5. ParentsOf[a] \subseteq entries[p] /\ entries[p] \subseteq Published
    BY <1>0 DEF CallOK, InCall, IInv, EntriesFrozen
  <1>6. ASSUME NEW q \in Processes PROVE CallOK(q)' /\ HandOK(q)'
    <2>1. CASE q = p
      BY <1>0, <1>1, <2>1 DEF TypeOK, CallOK, HandOK, InCall, Current, IsLinked, FileName
    <2>2. CASE q # p
      <3>1. pc'[q] = pc[q] /\ Current(q)' = Current(q) /\ Current(q) # me /\ CallOK(q) /\ HandOK(q)
        BY <1>0, <1>1, <2>2, CurrentApart DEF TypeOK, IInv, Current
      <3>2. pc[q] = "linked" => target'[FileName(Current(q))] = Current(q)
        <4> SUFFICES ASSUME pc[q] = "linked" PROVE target'[FileName(Current(q))] = Current(q)
          OBVIOUS
        <4>1. target[FileName(Current(q))] = Current(q) /\ Current(q) \in Calls /\ Created(Current(q))
          BY <1>0, <3>1, CurrentCall DEF CallOK, InCall, IsLinked
        <4>2. FileName(Current(q)) \in Ids /\ Current(q) # NoCall
          BY <1>0, <4>1, RegistryAssumption DEF FilesOK, FileName
        <4> QED
          BY <1>0, <1>1, <4>1, <4>2 DEF TypeOK
      <3>3. CallOK(q)'
        BY <1>0, <1>1, <3>1, <3>2 DEF CallOK, IsLinked, FileName, TypeOK
      <3>4. HandOK(q)'
        BY <1>1, <1>3, <3>1 DEF HandOK, Created
      <3> QED
        BY <3>3, <3>4
    <2> QED
      BY <2>1, <2>2
  <1>7. PublishedClosed' /\ EntriesFrozen' /\ EntriesClosed'
    BY <1>1, <1>3, <1>5 DEF IInv, PublishedClosed, EntriesFrozen, EntriesClosed
  <1>8. OutcomeTruthful'
    BY <1>0, <1>1, <1>3 DEF TypeOK, IInv, OutcomeTruthful, CallOK, InCall
  <1>9. Store!Freeze(a)
    <2>1. \A b \in Published : IdOf[b] # id
      BY <1>0, <1>1 DEF FilesOK, Published
    <2> QED
      BY <1>3, <1>5, <2>1 DEF Store!Freeze
  <1> QED
    BY <1>2, <1>4, <1>6, <1>7, <1>8, <1>9 DEF IInv

\* A step of write_atomic: a step of FrozenStore, or one that publishes nothing.
LEMMA WriteInv ==
    ASSUME IInv, NEW p \in Processes, Write(p)
    PROVE  IInv' /\ (Store!Next \/ Published' = Published)
  <1> USE DEF InCall
  <1>0. TypeOK /\ EntriesFrozen /\ EntriesClosed /\ CallOK(p)
    BY DEF IInv
  <1>1. ASSUME NEW a \in Artifacts, StartWrite(p, a) PROVE IInv' /\ Published' = Published
    BY <1>1, StartWriteInv
  <1>2. CASE FillTemp(p) \/ LinkFails(p)
    <2>1. TypeOK' /\ pc'[p] \in {"written", "excepted"} /\ pc[p] \in InCall
      BY <1>0, <1>2 DEF TypeOK, FillTemp, LinkFails, disk, Phases
    <2>2. UNCHANGED <<target, content, outcome, calls, entries, temps, hand>>
      BY <1>2 DEF FillTemp, LinkFails, disk
    <2>3. pc'[p] = "written" => pc[p] = "writing"
      BY <1>0, <1>2 DEF TypeOK, FillTemp, LinkFails
    <2>4. CallOK(p)' /\ HandOK(p)'
      BY <1>0, <2>1, <2>2, <2>3 DEF CallOK, HandOK, Current, IsLinked, FileName
    <2>5. \A q \in Processes \ {p} : pc'[q] = pc[q]
      BY <1>0, <1>2 DEF TypeOK, FillTemp, LinkFails
    <2>6. entries'[p] \subseteq Published /\ \A a \in entries'[p] : ParentsOf[a] \subseteq entries'[p]
      BY <1>0, <2>2 DEF EntriesFrozen, EntriesClosed
    <2> QED
      BY <2>1, <2>2, <2>4, <2>5, <2>6, QuietStep, PublishedSame
  <1>3. CASE WriteFails(p)
    <2>1. \A i \in Ids : target[i] # Current(p)
      BY <1>0, <1>3 DEF WriteFails, CallOK
    <2> QED
      BY <1>3, <2>1, ReturnInv DEF WriteFails
  <1>4. CASE InterruptBeforeLink(p)
    <2>1. \A i \in Ids : target[i] # Current(p)
      BY <1>0, <1>4 DEF InterruptBeforeLink, CallOK
    <2> QED
      BY <1>4, <2>1, ReturnInv DEF InterruptBeforeLink
  <1>5. CASE Link(p)
    BY <1>5, LinkInv DEF Store!Next
  <1>6. CASE RecordPublished(p)
    <2>1. content[Current(p)] \in Published
      <3>1. Current(p) \in Calls /\ Created(Current(p)) /\ IsLinked(Current(p))
        BY <1>0, <1>6, CurrentCall DEF RecordPublished, CallOK
      <3>2. FileName(Current(p)) \in Ids
        BY <3>1, RegistryAssumption DEF IInv, FilesOK, FileName
      <3> QED
        BY <3>1, <3>2, RegistryAssumption DEF IsLinked, Published
    <2> QED
      BY <1>6, <2>1, ReturnInv DEF RecordPublished
  <1>7. CASE HandleException(p)
    <2>0. pc[p] \in InCall /\ Current(p) \in Calls /\ Created(Current(p))
      BY <1>0, <1>7, CurrentCall DEF HandleException, CallOK
    <2>1. FileName(Current(p)) \in Ids
      BY <2>0, RegistryAssumption DEF IInv, FilesOK, FileName
    <2>2. CASE TargetMatches(Current(p)) /\ Return(p, "success", {}, {content[Current(p)]})
      <3>1. content[Current(p)] \in Published
        BY <2>1, <2>2 DEF TargetMatches, Published
      <3> QED
        BY <2>0, <2>2, <3>1, ReturnInv
    <2>3. ASSUME ~TargetMatches(Current(p)), NEW removed \in SUBSET {Current(p)},
                 Return(p, "raised", removed, {})
          PROVE  IInv' /\ Published' = Published
      <3>1. \A i \in Ids : target[i] # Current(p)
        BY <2>0, <2>3, RegistryAssumption DEF IInv, FilesOK, TargetMatches, FileName
      <3> QED
        BY <2>0, <2>3, <3>1, ReturnInv
    <2> QED
      BY <1>7, <2>2, <2>3 DEF HandleException
  <1> QED
    BY <1>1, <1>2, <1>3, <1>4, <1>5, <1>6, <1>7 DEF Write

LEMMA NextInv ==
    ASSUME IInv, [Next]_vars
    PROVE  IInv' /\ [Store!Next]_Published
  <1>1. CASE UNCHANGED vars
    <2>1. UNCHANGED <<target, temps, content, pc, entries, calls, seen, todo, hand, outcome>>
      BY <1>1 DEF vars
    <2>2. Published' = Published
      BY <2>1, PublishedSame
    <2>3. TypeOK' /\ FilesOK' /\ PublishedClosed' /\ EntriesFrozen' /\ EntriesClosed'
      BY <2>1, <2>2
      DEF IInv, TypeOK, FilesOK, Created, PublishedClosed, EntriesFrozen, EntriesClosed
    <2>4. \A p \in Processes : CallOK(p)' /\ HandOK(p)'
      BY <2>1, <2>2 DEF IInv, CallOK, HandOK, Created, Current, IsLinked, FileName
    <2>5. OutcomeTruthful'
      BY <2>1, <2>2 DEF IInv, OutcomeTruthful
    <2> QED
      BY <2>2, <2>3, <2>4, <2>5 DEF IInv
  <1>2. ASSUME NEW p \in Processes, Open(p) \/ Write(p) \/ Crash(p)
        PROVE  IInv' /\ [Store!Next]_Published
    <2>1. CASE Open(p)
      <3>1. UNCHANGED <<target, content>>
        BY <2>1 DEF Open, BeginOpen, LoadEntries, LoadFails, CheckTemp, UnlinkTemp,
                    RecoveryFails, FinishOpen, disk
      <3> QED
        BY <2>1, <3>1, OpenInv, PublishedSame
    <2>2. CASE Write(p)
      BY <2>2, WriteInv
    <2>3. CASE Crash(p)
      BY <2>3, FailOpenInv, PublishedSame DEF Crash, disk
    <2> QED
      BY <1>2, <2>1, <2>2, <2>3
  <1> QED
    BY <1>1, <1>2 DEF Next

-----------------------------------------------------------------------------
THEOREM Invariance == Spec => []IInv
  <1>1. Init => IInv
    BY InitInv
  <1>2. IInv /\ [Next]_vars => IInv'
    BY NextInv
  <1> QED
    BY <1>1, <1>2, PTL DEF Spec

\* Every entry of every process is a frozen artifact (write_atomic, read_frozen).
THEOREM EntriesAreFrozen == Spec => []EntriesFrozen
  <1>1. IInv => EntriesFrozen
    BY DEF IInv
  <1> QED
    BY <1>1, Invariance, PTL

\* The entries of every process are closed under parents (_load_entries,
\* write_atomic).
THEOREM EntriesAreClosed == Spec => []EntriesClosed
  <1>1. IInv => EntriesClosed
    BY DEF IInv
  <1> QED
    BY <1>1, Invariance, PTL

\* The outcome write_atomic reports is what the directory holds, across
\* interrupts, failed links, crashes and recoveries by other processes.
THEOREM OutcomesAreTruthful == Spec => []OutcomeTruthful
  <1>1. IInv => OutcomeTruthful
    BY DEF IInv
  <1> QED
    BY <1>1, Invariance, PTL

\* Recovery by another process removes only temporary files of published
\* artifacts (_recover_temps).
THEOREM RecoveryIsSafe == Spec => ForeignTempPublished
  <1> DEFINE Safe == \A c \in temps \ temps' : content[c] \in Published \/ outcome'[c] # outcome[c]
  <1>1. ASSUME IInv, [Next]_vars PROVE [Safe]_vars
    <2> SUFFICES ASSUME NEW c \in temps \ temps', outcome'[c] = outcome[c]
                 PROVE  content[c] \in Published
      BY DEF Safe
    <2>1. PICK p \in Processes : Open(p) \/ Write(p) \/ Crash(p)
      BY <1>1 DEF Next, vars
    <2>2. CASE UnlinkTemp(p)
      BY <1>1, <2>2 DEF IInv, HandOK, UnlinkTemp
    <2>3. ASSUME NEW result \in {"success", "raised"}, NEW removed \in SUBSET {Current(p)},
                 NEW learned, pc[p] \in InCall, Return(p, result, removed, learned)
          PROVE  FALSE
      <3>1. Current(p) \in Calls /\ outcome[Current(p)] = "open"
        BY <1>1, <2>3, CurrentCall DEF IInv, CallOK
      <3>2. c = Current(p) /\ outcome'[c] = result
        BY <1>1, <2>3, <3>1 DEF IInv, TypeOK, Return
      <3> QED
        BY <3>1, <3>2
    <2>4. CASE Write(p)
      <3>1. CASE WriteFails(p)
        BY <2>3, <3>1 DEF WriteFails, InCall
      <3>2. CASE InterruptBeforeLink(p)
        BY <2>3, <3>2 DEF InterruptBeforeLink, InCall
      <3>3. CASE RecordPublished(p)
        BY <2>3, <3>3 DEF RecordPublished, InCall
      <3>4. CASE HandleException(p)
        BY <2>3, <3>4 DEF HandleException, InCall
      <3>5. CASE (\E a \in Artifacts : StartWrite(p, a)) \/ FillTemp(p) \/ Link(p) \/ LinkFails(p)
        BY <3>5 DEF StartWrite, FillTemp, Link, LinkFails, disk
      <3> QED
        BY <2>4, <3>1, <3>2, <3>3, <3>4, <3>5 DEF Write
    <2>5. CASE Crash(p) \/ (Open(p) /\ ~UnlinkTemp(p))
      BY <2>5 DEF Crash, Open, BeginOpen, LoadEntries, LoadFails, CheckTemp,
                  RecoveryFails, FinishOpen, disk
    <2> QED
      BY <2>1, <2>2, <2>4, <2>5
  <1> QED
    BY <1>1, Invariance, PTL DEF Spec, ForeignTempPublished

\* The registry implements the write-once store of frozen artifacts.
THEOREM RegistryImplementsStore == Spec => ImplementsStore
  <1>1. Init => Store!Init
    BY RegistryAssumption DEF Init, Published, Store!Init
  <1>2. IInv /\ [Next]_vars => [Store!Next]_Published
    BY NextInv
  <1> QED
    BY <1>1, <1>2, Invariance, PTL DEF Spec, ImplementsStore, Store!Spec


-----------------------------------------------------------------------------
(* Freezing.  The inductive invariant says which bundle is whose: what     *)
(* stands under a run id, and what is copied from there, names that run.   *)

\* A bundle whose manifest names its run.
BundleOf(b, run) ==
    /\ DOMAIN b = Parts
    /\ "run" \in DOMAIN The(b.manifest)
    /\ The(b.manifest).run = run

\* What FrozenAsReviewed says of one sealed bundle.
ReviewedBundle(b, run, reviews) ==
    \E r \in reviews : /\ r.basis = "independent" /\ r.run = run
                       /\ r.claims = b.claims /\ r.pub = b.pub /\ r.handoff = b.handoff

CandidatesNamed ==
    /\ DOMAIN candidates = Revisions
    /\ \A run \in Revisions : \A b \in candidates[run] : BundleOf(b, run)

FrozenNamed ==
    /\ DOMAIN frozen = Revisions
    /\ \A run \in Revisions : \A b \in frozen[run] :
          BundleOf(b, run) /\ (b.sentinel # {} => ReviewedBundle(b, run, signed))

MakerInv ==
    /\ DOMAIN maker = {"at", "run", "stage"} /\ maker.run \in Revisions /\ DOMAIN maker.stage = Parts
    /\ maker.at \in {"written", "cleared"} => BundleOf(maker.stage, maker.run)

PromoterInv ==
    /\ DOMAIN promoter = {"at", "run", "read", "stage"} /\ promoter.run \in Revisions
    /\ promoter.at \in {"half copied", "copied", "marked"} => BundleOf(promoter.stage, promoter.run)
    /\ promoter.at = "marked" => promoter.stage.sentinel = {}
    /\ promoter.at = "placed" =>
          frozen[promoter.run] # {} /\ \A b \in frozen[promoter.run] : b.sentinel = {}
    /\ promoter.at = "sealed" => frozen[promoter.run] # {}

FreezeInv == repo \in Revisions /\ CandidatesNamed /\ FrozenNamed /\ MakerInv /\ PromoterInv

LEMMA TheElement ==
    /\ \A s : s # {} => The(s) \in s
    /\ \A x : The({x}) = x
  BY DEF The

\* Replacing parts other than the manifest leaves a run's bundle its own; a new
\* manifest must name the run.
LEMMA PartReplaced ==
    ASSUME NEW b, NEW run, BundleOf(b, run), NEW part \in Parts, NEW contents,
           part = "manifest" => "run" \in DOMAIN The(contents) /\ The(contents).run = run
    PROVE  /\ BundleOf([b EXCEPT ![part] = contents], run)
           /\ [b EXCEPT ![part] = contents][part] = contents
           /\ \A other \in Parts : other # part => [b EXCEPT ![part] = contents][other] = b[other]
  BY DEF BundleOf, Parts

\* What a passing verification of a bundle against itself establishes.
LEMMA VerifiedReviewed ==
    ASSUME NEW b, NEW run, NEW mode, BundleOf(b, run), Verified(b, b, mode)
    PROVE  /\ ReviewedBundle(b, run, signed)
           /\ mode = "pre sentinel" => b.sentinel = {}
  <1>1. PICK r \in b.review :
           /\ r.basis = "independent" /\ r.run = The(b.manifest).run
           /\ r.claims = b.claims /\ r.pub = b.pub /\ r.handoff = b.handoff
           /\ b.review \subseteq signed
    BY DEF Verified, Reviewed
  <1>2. ReviewedBundle(b, run, signed)
    BY <1>1 DEF ReviewedBundle, BundleOf
  <1>3. mode = "pre sentinel" => b.sentinel = {}
    BY DEF Verified, Structured, Closed
  <1> QED
    BY <1>2, <1>3

LEMMA FreezeInitInv == FreezeInit => FreezeInv
  <1> SUFFICES ASSUME FreezeInit PROVE FreezeInv
    OBVIOUS
  <1>1. maker = [at |-> "idle", run |-> repo, stage |-> NoStage]
        /\ promoter = [at |-> "idle", run |-> repo, read |-> {}, stage |-> NoStage]
    BY DEF FreezeInit
  <1>2. DOMAIN NoStage = Parts
    BY DEF NoStage
  <1>3. MakerInv /\ PromoterInv
    BY <1>1, <1>2 DEF FreezeInit, MakerInv, PromoterInv
  <1> QED
    BY <1>3 DEF FreezeInit, FreezeInv, CandidatesNamed, FrozenNamed

-----------------------------------------------------------------------------
(* reproduce, the reviewer, the owner, the repository *)

LEMMA MakerInvStep ==
    ASSUME FreezeInv, UNCHANGED <<repo, frozen, promoter, signed>>,
           CandidatesNamed', MakerInv'
    PROVE  FreezeInv'
  BY DEF FreezeInv, FrozenNamed, PromoterInv

\* While a candidate is still being staged the maker owes nothing of its stage.
LEMMA StageReplaced ==
    ASSUME MakerInv, NEW part \in Parts, NEW contents, NEW next,
           next \notin {"written", "cleared"}, MakerStage(part, contents, next)
    PROVE  MakerInv'
  <1>1. maker'.at = next /\ maker'.run = maker.run /\ DOMAIN maker'.stage = Parts
        /\ DOMAIN maker' = DOMAIN maker
    BY DEF MakerInv, MakerStage
  <1> QED
    BY <1>1 DEF MakerInv

LEMMA StagingInv ==
    ASSUME FreezeInv, StartRun \/ BuildPublicationReport \/ StageHandoff
    PROVE  FreezeInv'
  <1>1. UNCHANGED <<repo, candidates, frozen, promoter, signed>>
    BY DEF StartRun, BuildPublicationReport, StageHandoff
  <1>2. MakerInv'
    <2>1. CASE StartRun
      BY <2>1 DEF StartRun, MakerInv, FreezeInv, NoStage
    <2>2. CASE BuildPublicationReport
      <3>1. CASE MakerStage("pub", {[rev |-> repo, data |-> results]}, "published")
        BY <3>1, StageReplaced DEF Parts, FreezeInv
      <3>2. CASE maker' = [maker EXCEPT !.at = "idle"]
        BY <3>2 DEF MakerInv, FreezeInv
      <3> QED
        BY <2>2, <3>1, <3>2 DEF BuildPublicationReport
    <2>3. CASE StageHandoff
      <3>1. PICK contents : MakerStage("handoff", contents, "handed off")
        BY <2>3 DEF StageHandoff
      <3>2. MakerInv /\ "handoff" \in Parts
        BY DEF FreezeInv, Parts
      <3> QED
        BY <3>1, <3>2, StageReplaced
    <2> QED
      BY <2>1, <2>2, <2>3
  <1>3. CandidatesNamed'
    BY <1>1 DEF FreezeInv, CandidatesNamed
  <1> QED
    BY <1>1, <1>2, <1>3, MakerInvStep

LEMMA WriteCandidateInv ==
    ASSUME FreezeInv, WriteCandidate
    PROVE  FreezeInv'
  <1> DEFINE pub == The(maker.stage.pub)
             manifest == CandidateManifest(maker.run, pub)
             bundle == [maker.stage EXCEPT
                           !.claims = {ClaimRows(pub)},
                           !.manifest = {manifest},
                           !.report = {Summary(maker.run, FALSE, FALSE, FALSE, "candidate", {})}]
             summary == SummaryOf(bundle, bundle, "normal")
  <1>1. UNCHANGED <<repo, candidates, frozen, promoter, signed>>
    BY DEF WriteCandidate
  <1>2. \/ maker' = [maker EXCEPT !.at = "written", !.stage = [bundle EXCEPT !.report = {summary}]]
        \/ maker' = [maker EXCEPT !.at = "idle"]
    BY DEF WriteCandidate
  <1>3. DOMAIN bundle = Parts /\ bundle.manifest = {manifest}
    BY DEF FreezeInv, MakerInv, Parts
  <1>4. "run" \in DOMAIN manifest /\ manifest.run = maker.run
    BY DEF CandidateManifest
  <1>5. BundleOf(bundle, maker.run)
    <2> HIDE DEF bundle, manifest
    <2> QED
      BY <1>3, <1>4, TheElement DEF BundleOf
  <1>6. BundleOf([bundle EXCEPT !.report = {summary}], maker.run)
    <2> HIDE DEF bundle, summary
    <2> QED
      BY <1>5, PartReplaced DEF Parts
  <1>7. MakerInv'
    <2> DEFINE written == [bundle EXCEPT !.report = {summary}]
    <2>1. DOMAIN written = Parts
      BY <1>3
    <2> HIDE DEF written
    <2> QED
      BY <1>2, <1>6, <2>1 DEF FreezeInv, MakerInv
  <1>8. CandidatesNamed'
    BY <1>1 DEF FreezeInv, CandidatesNamed
  <1> QED
    BY <1>1, <1>7, <1>8, MakerInvStep

LEMMA PlacingInv ==
    ASSUME FreezeInv, ClearCandidate \/ PlaceCandidate
    PROVE  FreezeInv'
  <1>1. UNCHANGED <<repo, frozen, promoter, signed>>
    BY DEF ClearCandidate, PlaceCandidate
  <1>2. BundleOf(maker.stage, maker.run) /\ maker.run \in Revisions
    BY DEF FreezeInv, MakerInv, ClearCandidate, PlaceCandidate
  <1>3. candidates' = [candidates EXCEPT ![maker.run] = {}]
        \/ candidates' = [candidates EXCEPT ![maker.run] = {maker.stage}]
    BY DEF ClearCandidate, PlaceCandidate
  <1>4. CandidatesNamed'
    BY <1>2, <1>3 DEF FreezeInv, CandidatesNamed
  <1>5. maker' = [maker EXCEPT !.at = "cleared"] \/ maker' = [maker EXCEPT !.at = "idle"]
    BY DEF ClearCandidate, PlaceCandidate
  <1>6. MakerInv'
    BY <1>2, <1>5 DEF FreezeInv, MakerInv
  <1> QED
    BY <1>1, <1>4, <1>6, MakerInvStep

LEMMA SignInv ==
    ASSUME FreezeInv, NEW run \in Revisions, Sign(run)
    PROVE  FreezeInv'
  <1>1. signed \subseteq signed' /\ UNCHANGED <<repo, candidates, frozen, maker, promoter>>
    BY DEF Sign
  <1>2. FrozenNamed'
    BY <1>1 DEF FreezeInv, FrozenNamed, ReviewedBundle
  <1> QED
    BY <1>1, <1>2 DEF FreezeInv, CandidatesNamed, MakerInv, PromoterInv

LEMMA PutInv ==
    ASSUME FreezeInv, NEW run \in Revisions, NEW b, Put(run, b), BundleOf(b, run),
           UNCHANGED <<repo, frozen, maker, promoter, signed>>
    PROVE  FreezeInv'
  <1>1. CandidatesNamed'
    BY DEF FreezeInv, CandidatesNamed, Put
  <1> QED
    BY <1>1 DEF FreezeInv, FrozenNamed, MakerInv, PromoterInv

LEMMA CompleteInv ==
    ASSUME FreezeInv, NEW run \in Revisions, Complete(run)
    PROVE  FreezeInv'
  <1>1. PICK b \in candidates[run], r \in signed :
           LET done == [b EXCEPT !.review = {r},
                           !.manifest = {[The(b.manifest) EXCEPT
                               !.complete = TRUE, !.blocked = FALSE, !.reviewed = TRUE]}]
           IN  Put(run, [done EXCEPT !.report = {SummaryOf(done, done, "normal")}])
    BY DEF Complete
  <1> DEFINE manifest == [The(b.manifest) EXCEPT
                             !.complete = TRUE, !.blocked = FALSE, !.reviewed = TRUE]
             reviewed == [b EXCEPT !["review"] = {r}]
             done == [reviewed EXCEPT !["manifest"] = {manifest}]
             summary == SummaryOf(done, done, "normal")
  <1>2. BundleOf(b, run)
    BY DEF FreezeInv, CandidatesNamed
  <1>3. "run" \in DOMAIN manifest /\ manifest.run = run
    BY <1>2 DEF BundleOf
  <1>4. BundleOf(reviewed, run)
    BY <1>2, PartReplaced DEF Parts
  <1>5. BundleOf(done, run)
    <2> HIDE DEF reviewed, manifest
    <2> QED
      BY <1>3, <1>4, TheElement, PartReplaced DEF Parts
  <1>6. BundleOf([done EXCEPT !["report"] = {summary}], run)
    <2> HIDE DEF done, summary
    <2> QED
      BY <1>5, PartReplaced DEF Parts
  <1>7. Put(run, [done EXCEPT !["report"] = {summary}])
    BY <1>1
  <1>8. UNCHANGED <<repo, frozen, maker, promoter, signed>>
    BY DEF Complete
  <1> HIDE DEF done, summary
  <1> QED
    BY <1>6, <1>7, <1>8, PutInv

LEMMA EditCandidateInv ==
    ASSUME FreezeInv, NEW run \in Revisions, EditCandidate(run)
    PROVE  FreezeInv'
  <1>1. PICK b \in candidates[run] :
           \E part \in Parts \ {"manifest"} : \E contents : Put(run, [b EXCEPT ![part] = contents])
    BY DEF EditCandidate, Parts
  <1>2. PICK part \in Parts \ {"manifest"} : \E contents : Put(run, [b EXCEPT ![part] = contents])
    BY <1>1
  <1>3. PICK contents : Put(run, [b EXCEPT ![part] = contents])
    BY <1>2
  <1>4. BundleOf(b, run)
    BY DEF FreezeInv, CandidatesNamed
  <1>5. BundleOf([b EXCEPT ![part] = contents], run)
    BY <1>4, PartReplaced
  <1>6. UNCHANGED <<repo, frozen, maker, promoter, signed>>
    BY DEF EditCandidate
  <1> QED
    BY <1>3, <1>5, <1>6, PutInv

LEMMA CommitInv ==
    ASSUME FreezeInv, Commit
    PROVE  FreezeInv'
  BY DEF Commit, FreezeInv, CandidatesNamed, FrozenNamed, MakerInv, PromoterInv

-----------------------------------------------------------------------------
(* promote_bundle *)

\* A step of the promotion that keeps what is frozen.
LEMMA PromoterStep ==
    ASSUME FreezeInv, UNCHANGED <<repo, candidates, frozen, maker, signed>>, PromoterInv'
    PROVE  FreezeInv'
  BY DEF FreezeInv, CandidatesNamed, FrozenNamed, MakerInv

\* A promotion that raises takes away at most what it placed.
LEMMA RaisesInv ==
    ASSUME FreezeInv, Raises, UNCHANGED <<repo, candidates, maker, signed>>
    PROVE  FreezeInv'
  <1>1. promoter' = [promoter EXCEPT !.at = "failed", !.stage = NoStage]
    BY DEF Raises, Moves
  <1>2. PromoterInv'
    BY <1>1 DEF FreezeInv, PromoterInv
  <1>3. FrozenNamed'
    BY DEF FreezeInv, Raises, FrozenNamed, PromoterInv
  <1> QED
    BY <1>2, <1>3 DEF FreezeInv, CandidatesNamed, MakerInv

LEMMA LoadInv ==
    ASSUME FreezeInv, NEW run \in Revisions, Load(run)
    PROVE  FreezeInv'
  BY PromoterStep DEF Load, Moves, PromoterInv

LEMMA JudgeInv ==
    ASSUME FreezeInv, Judge
    PROVE  FreezeInv'
  <1>1. CASE Raises
    BY <1>1, RaisesInv DEF Judge
  <1>2. CASE Moves([promoter EXCEPT !.at = "copying"]) /\ UNCHANGED frozen
    <2>1. PromoterInv'
      BY <1>2 DEF Moves, FreezeInv, PromoterInv
    <2> QED
      BY <1>2, <2>1, PromoterStep DEF Judge
  <1> QED
    BY <1>1, <1>2 DEF Judge

LEMMA StartCopyInv ==
    ASSUME FreezeInv, StartCopy
    PROVE  FreezeInv'
  <1>1. CASE candidates[promoter.run] = {}
    BY <1>1, RaisesInv DEF StartCopy
  <1>2. CASE candidates[promoter.run] # {}
    <2>1. The(candidates[promoter.run]) \in candidates[promoter.run]
      BY <1>2, TheElement
    <2>2. BundleOf(The(candidates[promoter.run]), promoter.run)
      BY <2>1 DEF FreezeInv, CandidatesNamed, PromoterInv
    <2>3. PromoterInv'
      BY <1>2, <2>2 DEF StartCopy, Moves, FreezeInv, PromoterInv
    <2> QED
      BY <1>2, <2>3, PromoterStep DEF StartCopy
  <1> QED
    BY <1>1, <1>2

LEMMA EndCopyInv ==
    ASSUME FreezeInv, EndCopy
    PROVE  FreezeInv'
  <1>1. CASE candidates[promoter.run] = {}
    BY <1>1, RaisesInv DEF EndCopy
  <1>2. CASE candidates[promoter.run] # {}
    <2> DEFINE now == The(candidates[promoter.run])
               mix(late) == [part \in Parts |-> IF part \in late THEN now[part]
                                                ELSE promoter.stage[part]]
    <2>1. now \in candidates[promoter.run]
      BY <1>2, TheElement
    <2>2. BundleOf(now, promoter.run) /\ BundleOf(promoter.stage, promoter.run)
      BY <2>1 DEF EndCopy, FreezeInv, CandidatesNamed, PromoterInv
    <2>3. PICK late : promoter' = [promoter EXCEPT !.at = "copied", !.stage = mix(late)]
      BY <1>2 DEF EndCopy, Moves
    <2>4. DOMAIN mix(late) = Parts
          /\ mix(late).manifest \in {now.manifest, promoter.stage.manifest}
      BY DEF Parts
    <2>5. BundleOf(mix(late), promoter.run)
      <3> HIDE DEF mix, now
      <3> QED
        BY <2>2, <2>4 DEF BundleOf
    <2>6. PromoterInv'
      <3> HIDE DEF mix, now
      <3> QED
        BY <2>3, <2>5 DEF FreezeInv, PromoterInv
    <2> QED
      BY <1>2, <2>6, PromoterStep DEF EndCopy
  <1> QED
    BY <1>1, <1>2

\* A marked copy is still its run's.
LEMMA MarkedNamed ==
    ASSUME NEW b, NEW run, BundleOf(b, run), NEW report
    PROVE  /\ BundleOf(Marked(b, report), run)
           /\ Marked(b, report).sentinel = b.sentinel
  <1> DEFINE manifest == [The(b.manifest) EXCEPT !.state = "frozen", !.sentinel = TRUE]
             frozenState == [b EXCEPT !["manifest"] = {manifest}]
  <1>1. "run" \in DOMAIN manifest /\ manifest.run = run
    BY DEF BundleOf
  <1>2. BundleOf(frozenState, run) /\ frozenState.sentinel = b.sentinel
    <2> HIDE DEF manifest
    <2> QED
      BY <1>1, TheElement, PartReplaced DEF Parts
  <1>3. Marked(b, report) = [frozenState EXCEPT !["report"] = {report}]
    BY DEF Marked
  <1> HIDE DEF frozenState
  <1>4. BundleOf([frozenState EXCEPT !["report"] = {report}], run)
        /\ [frozenState EXCEPT !["report"] = {report}].sentinel = frozenState.sentinel
    <2> DEFINE contents == {report}
    <2> HIDE DEF contents
    <2> QED
      BY <1>2, PartReplaced DEF Parts
  <1> QED
    BY <1>2, <1>3, <1>4

LEMMA MarkInv ==
    ASSUME FreezeInv, Mark
    PROVE  FreezeInv'
  <1> DEFINE read == The(promoter.read)
             marked == Marked(promoter.stage,
                              Summary(promoter.run, TRUE, TRUE, TRUE, "frozen", read.claims))
             summary == SummaryOf(marked, marked, "pre sentinel")
             reported == [marked EXCEPT !.report = {summary}]
  <1>1. CASE Raises
    BY <1>1, RaisesInv DEF Mark
  <1>2. CASE ~Raises
    <2>1. /\ Verified(marked, marked, "pre sentinel")
          /\ promoter' = [promoter EXCEPT !.at = "marked", !.stage = reported]
          /\ UNCHANGED frozen
      BY <1>2 DEF Mark, MarkFrozen, Moves
    <2>2. BundleOf(marked, promoter.run)
      BY MarkedNamed DEF Mark, FreezeInv, PromoterInv
    <2>3. marked.sentinel = {}
      <3> HIDE DEF marked
      <3> QED
        BY <2>1, <2>2, VerifiedReviewed
    <2>4. BundleOf(reported, promoter.run) /\ reported.sentinel = {}
      <3> HIDE DEF marked, summary
      <3> QED
        BY <2>2, <2>3, PartReplaced DEF Parts
    <2>5. PromoterInv'
      <3> HIDE DEF reported
      <3> QED
        BY <2>1, <2>4 DEF FreezeInv, PromoterInv
    <2> QED
      BY <2>1, <2>5, PromoterStep DEF Mark
  <1> QED
    BY <1>1, <1>2

LEMMA InstallInv ==
    ASSUME FreezeInv, Install
    PROVE  FreezeInv'
  <1>1. CASE Raises
    BY <1>1, RaisesInv DEF Install
  <1>2. CASE ~Raises
    <2>1. /\ frozen' = [frozen EXCEPT ![promoter.run] = {promoter.stage}]
          /\ promoter' = [promoter EXCEPT !.at = "placed", !.stage = NoStage]
      BY <1>2 DEF Install, Moves
    <2>2. BundleOf(promoter.stage, promoter.run) /\ promoter.stage.sentinel = {}
      BY DEF Install, FreezeInv, PromoterInv
    <2>3. FrozenNamed'
      BY <2>1, <2>2 DEF Install, FreezeInv, FrozenNamed, PromoterInv
    <2>4. PromoterInv'
      BY <2>1, <2>2 DEF FreezeInv, FrozenNamed, PromoterInv
    <2> QED
      BY <2>3, <2>4 DEF Install, FreezeInv, CandidatesNamed, MakerInv
  <1> QED
    BY <1>1, <1>2

LEMMA SealInv ==
    ASSUME FreezeInv, Seal
    PROVE  FreezeInv'
  <1> DEFINE b == The(frozen[promoter.run])
             sealed == [b EXCEPT !["sentinel"] = {SentinelPayload(b)}]
  <1>1. CASE Raises
    BY <1>1, RaisesInv DEF Seal
  <1>2. CASE ~Raises
    <2>1. /\ Passes(b, b, "pre sentinel")
          /\ frozen' = [frozen EXCEPT ![promoter.run] = {sealed}]
          /\ promoter' = [promoter EXCEPT !.at = "sealed"]
      BY <1>2 DEF Seal, Moves
    <2>2. b \in frozen[promoter.run] /\ promoter.run \in Revisions
      BY TheElement DEF Seal, FreezeInv, PromoterInv
    <2>3. BundleOf(b, promoter.run)
      BY <2>2 DEF FreezeInv, FrozenNamed
    <2>4. ReviewedBundle(b, promoter.run, signed)
      <3> HIDE DEF b
      <3> QED
        BY <2>1, <2>3, VerifiedReviewed DEF Passes
    <2>5. /\ BundleOf(sealed, promoter.run)
          /\ sealed.claims = b.claims /\ sealed.pub = b.pub /\ sealed.handoff = b.handoff
      <3> DEFINE payload == {SentinelPayload(b)}
      <3> HIDE DEF b, payload
      <3> QED
        BY <2>3, PartReplaced DEF Parts
    <2>6. ReviewedBundle(sealed, promoter.run, signed)
      <3> HIDE DEF b, sealed
      <3> QED
        BY <2>4, <2>5 DEF ReviewedBundle
    <2>7. FrozenNamed' /\ PromoterInv'
      <3> HIDE DEF b, sealed
      <3> QED
        BY <2>1, <2>2, <2>5, <2>6 DEF Seal, FreezeInv, FrozenNamed, PromoterInv
    <2> QED
      BY <2>7 DEF Seal, FreezeInv, CandidatesNamed, MakerInv
  <1> QED
    BY <1>1, <1>2

LEMMA ConfirmInv ==
    ASSUME FreezeInv, Confirm
    PROVE  FreezeInv'
  <1>1. CASE Raises
    BY <1>1, RaisesInv DEF Confirm
  <1>2. CASE Moves([promoter EXCEPT !.at = "done"]) /\ UNCHANGED frozen
    <2>1. PromoterInv'
      BY <1>2 DEF Moves, FreezeInv, PromoterInv
    <2> QED
      BY <1>2, <2>1, PromoterStep DEF Confirm
  <1> QED
    BY <1>1, <1>2 DEF Confirm

LEMMA KillInv ==
    ASSUME FreezeInv, Kill
    PROVE  FreezeInv'
  <1>1. PromoterInv'
    BY DEF Kill, Moves, FreezeInv, PromoterInv
  <1> QED
    BY <1>1, PromoterStep DEF Kill

LEMMA PeerPromotesInv ==
    ASSUME FreezeInv, NEW run \in Revisions, PeerPromotes(run)
    PROVE  FreezeInv'
  <1>1. PICK b \in candidates[run] :
           LET placed == Marked(b, Summary(run, TRUE, TRUE, TRUE, "frozen", b.claims)) IN
           /\ Passes(b, b, "normal") /\ Passes(placed, placed, "pre sentinel")
           /\ frozen' = [frozen EXCEPT ![run] = {[placed EXCEPT !.sentinel = {SentinelPayload(placed)}]}]
    BY DEF PeerPromotes
  <1> DEFINE placed == Marked(b, Summary(run, TRUE, TRUE, TRUE, "frozen", b.claims))
             sealed == [placed EXCEPT !["sentinel"] = {SentinelPayload(placed)}]
  <1>2. BundleOf(placed, run)
    BY MarkedNamed DEF FreezeInv, CandidatesNamed
  <1>3. ReviewedBundle(placed, run, signed)
    <2>1. Verified(placed, placed, "pre sentinel")
      BY <1>1 DEF Passes
    <2> HIDE DEF placed
    <2> QED
      BY <1>2, <2>1, VerifiedReviewed
  <1>4. /\ BundleOf(sealed, run)
        /\ sealed.claims = placed.claims /\ sealed.pub = placed.pub
        /\ sealed.handoff = placed.handoff
    <2> DEFINE payload == {SentinelPayload(placed)}
    <2> HIDE DEF placed, payload
    <2> QED
      BY <1>2, PartReplaced DEF Parts
  <1>5. ReviewedBundle(sealed, run, signed)
    <2> HIDE DEF placed, sealed
    <2> QED
      BY <1>3, <1>4 DEF ReviewedBundle
  <1>6. frozen' = [frozen EXCEPT ![run] = {sealed}]
    BY <1>1
  <1>7. FrozenNamed' /\ PromoterInv'
    <2> HIDE DEF sealed
    <2> QED
      BY <1>4, <1>5, <1>6 DEF PeerPromotes, FreezeInv, FrozenNamed, PromoterInv
  <1> QED
    BY <1>7 DEF PeerPromotes, FreezeInv, CandidatesNamed, MakerInv

-----------------------------------------------------------------------------
LEMMA FreezeNextInv == FreezeInv /\ [FreezeNext]_freezeVars => FreezeInv'
  <1> SUFFICES ASSUME FreezeInv, [FreezeNext]_freezeVars PROVE FreezeInv'
    OBVIOUS
  <1>1. CASE Reproduce
    BY <1>1, StagingInv, WriteCandidateInv, PlacingInv DEF Reproduce
  <1>2. CASE \E run \in Revisions : Sign(run) \/ Complete(run) \/ EditCandidate(run)
    BY <1>2, SignInv, CompleteInv, EditCandidateInv
  <1>3. CASE Commit
    BY <1>3, CommitInv
  <1>4. CASE \E run \in Revisions : Load(run) \/ PeerPromotes(run)
    BY <1>4, LoadInv, PeerPromotesInv
  <1>5. CASE Promote
    BY <1>5, JudgeInv, StartCopyInv, EndCopyInv, MarkInv, InstallInv, SealInv, ConfirmInv
       DEF Promote
  <1>6. CASE Kill
    BY <1>6, KillInv
  <1>7. CASE UNCHANGED freezeVars
    BY <1>7 DEF freezeVars, FreezeInv, CandidatesNamed, FrozenNamed, MakerInv, PromoterInv
  <1> QED
    BY <1>1, <1>2, <1>3, <1>4, <1>5, <1>6, <1>7 DEF FreezeNext

\* A bundle under the frozen root with a sentinel holds exactly what an
\* independent reviewer signed for its run, whatever is edited, rerun, killed
\* or promoted beside it (promote_bundle, _validate_manual_review).
THEOREM SealedIsReviewed == FreezeSpec => []FrozenAsReviewed
  <1>1. FreezeInv => FrozenAsReviewed
    BY DEF FreezeInv, FrozenNamed, ReviewedBundle, FrozenAsReviewed
  <1> QED
    BY FreezeInitInv, FreezeNextInv, <1>1, PTL DEF FreezeSpec

\* What one step may do to a sealed bundle.
LEMMA StepStays ==
    ASSUME FreezeInv, FreezeNext, NEW run \in Revisions, NEW b \in frozen[run],
           b.sentinel # {}, frozen'[run] # frozen[run]
    PROVE  promoter.at = "sealed" /\ promoter.run = run
  <1>1. frozen # frozen'
    OBVIOUS
  <1>2. CASE Raises
    BY <1>2 DEF Raises, FreezeInv, FrozenNamed, PromoterInv
  <1>3. CASE ~Raises
    <2>1. CASE Seal
      BY <1>3, <2>1 DEF Seal, FreezeInv, FrozenNamed, PromoterInv
    <2>2. CASE Install
      BY <1>3, <2>2 DEF Install, Installable, FreezeInv, FrozenNamed
    <2>3. CASE \E other \in Revisions : PeerPromotes(other)
      BY <2>3 DEF PeerPromotes, FreezeInv, FrozenNamed
    <2> QED
      BY <1>1, <1>3, <2>1, <2>2, <2>3
         DEF FreezeNext, Reproduce, StartRun, BuildPublicationReport, StageHandoff,
             WriteCandidate, ClearCandidate, PlaceCandidate, Sign, Complete, EditCandidate,
             Commit, Load, Promote, Judge, StartCopy, EndCopy, Mark, MarkFrozen, Confirm, Kill
  <1> QED
    BY <1>2, <1>3

\* No promotion, no rerun and no failure takes a sealed bundle away except the
\* promotion that sealed it and could not confirm it (promote_bundle's cleanup).
THEOREM SealedStays == FreezeSpec => FrozenStays
  <1>1. FreezeInv /\ [FreezeNext]_freezeVars =>
          [\A run \in Revisions : \A b \in frozen[run] :
               b.sentinel # {} /\ frozen'[run] # frozen[run] =>
                   promoter.at = "sealed" /\ promoter.run = run]_freezeVars
    BY StepStays
  <1> QED
    BY FreezeInitInv, FreezeNextInv, <1>1, PTL DEF FreezeSpec, FrozenStays

-----------------------------------------------------------------------------
(* The report.  First, what flattening a sequence of sequences gives. *)

\* flat is what flattening ss gives: its sequences one after the other, from at[i] on.
InARow(ss, n, flat, at) ==
    /\ \A i \in 1..n : at[i] + Len(ss[i]) <= Len(flat) /\ \A k \in 1..Len(ss[i]) : flat[at[i] + k] = ss[i][k]
    /\ \A j \in 1..Len(flat) : \E i \in 1..n : \E k \in 1..Len(ss[i]) : j = at[i] + k

Flattens(ss, n, f, g) == f = [i \in 1..n |-> IF i = 1 THEN ss[i] ELSE g[i - 1] \o ss[i]]

LEMMA FlattensAt ==
    ASSUME NEW ss, NEW n \in Nat, NEW f, NEW g, Flattens(ss, n, f, g)
    PROVE  \A i \in 1..n : f[i] = IF i = 1 THEN ss[i] ELSE g[i - 1] \o ss[i]
  BY DEF Flattens

LEMMA FlattenExists ==
    ASSUME NEW T, NEW ss \in Seq(Seq(T))
    PROVE  \E f : Flattens(ss, Len(ss), f, f)
<1> DEFINE n == Len(ss)
           Good == {m \in 1..n : \E f : Flattens(ss, m, f, f)}
<1>1. n \in Nat
    OBVIOUS
<1>2. n > 0 => 1 \in Good
  <2> DEFINE f == [i \in 1..1 |-> ss[i]]
  <2>1. f = [i \in 1..1 |-> IF i = 1 THEN ss[i] ELSE f[i - 1] \o ss[i]]
    OBVIOUS
  <2>2. Flattens(ss, 1, f, f)
    <3> HIDE DEF f
    <3> QED
      BY <2>1 DEF Flattens
  <2>3. \E h : Flattens(ss, 1, h, h)
    BY <2>2
  <2> QED
    BY <1>1, <2>3
<1>3. ASSUME NEW m \in Good, m < n PROVE m + 1 \in Good
  <2>1. PICK f : Flattens(ss, m, f, f)
    OBVIOUS
  <2> DEFINE g == [i \in 1..(m + 1) |-> IF i <= m THEN f[i] ELSE f[m] \o ss[i]]
  <2>2. m \in 1..n /\ m + 1 \in 1..n /\ m \in Nat
    BY <1>1, <1>3
  <2>3. \A i \in 1..(m + 1) : g[i] = IF i = 1 THEN ss[i] ELSE g[i - 1] \o ss[i]
    <3> SUFFICES ASSUME NEW i \in 1..(m + 1) PROVE g[i] = IF i = 1 THEN ss[i] ELSE g[i - 1] \o ss[i]
      OBVIOUS
    <3>1. CASE i <= m
      <4>1. g[i] = f[i] /\ (i # 1 => g[i - 1] = f[i - 1])
        BY <2>2, <3>1
      <4>2. f[i] = IF i = 1 THEN ss[i] ELSE f[i - 1] \o ss[i]
        <5>1. i \in 1..m
          BY <2>2, <3>1
        <5>2. \A k \in 1..m : f[k] = IF k = 1 THEN ss[k] ELSE f[k - 1] \o ss[k]
          BY <2>1, <2>2, FlattensAt
        <5> HIDE DEF g
        <5> QED
          BY <5>1, <5>2
      <4> QED
        BY <4>1, <4>2
    <3>2. CASE i = m + 1
      BY <2>2, <3>2
    <3> QED
      BY <2>2, <3>1, <3>2
  <2>4. Flattens(ss, m + 1, g, g)
    <3>1. g = [i \in 1..(m + 1) |-> g[i]]
      OBVIOUS
    <3> HIDE DEF g
    <3>2. [i \in 1..(m + 1) |-> g[i]] =
              [i \in 1..(m + 1) |-> IF i = 1 THEN ss[i] ELSE g[i - 1] \o ss[i]]
      BY <2>3
    <3> QED
      BY <3>1, <3>2 DEF Flattens
  <2>5. \E h : Flattens(ss, m + 1, h, h)
    BY <2>4
  <2> QED
    BY <2>2, <2>5
<1>4. n > 0 => n \in Good
  <2> HIDE DEF Good
  <2>1. Good \in SUBSET (1..n)
    BY DEF Good
  <2> QED
    BY <1>1, <1>2, <1>3, <2>1, CountingUp
<1>5. CASE n = 0
  <2> DEFINE f == [i \in 1..0 |-> ss[i]]
  <2>1. Flattens(ss, Len(ss), f, f)
    BY <1>5 DEF Flattens
  <2> QED
    BY <2>1
<1> QED
    BY <1>1, <1>4, <1>5

LEMMA RowGrows ==
    ASSUME NEW T, NEW m \in Nat, NEW ss, \A i \in 1..m : ss[i] \in Seq(T), ss[m + 1] \in Seq(T),
           NEW s \in Seq(T), NEW at \in [1..m -> Nat], InARow(ss, m, s, at)
    PROVE  \E to \in [1..(m + 1) -> Nat] : InARow(ss, m + 1, s \o ss[m + 1], to)
<1>1. PICK t \in Seq(T) : t = ss[m + 1]
    OBVIOUS
<1> DEFINE to == [i \in 1..(m + 1) |-> IF i <= m THEN at[i] ELSE Len(s)]
<1>2. /\ Len(s) \in Nat /\ Len(t) \in Nat
      /\ s \o t \in Seq(T) /\ Len(s \o t) = Len(s) + Len(t)
      /\ \A i \in 1..(Len(s) + Len(t)) : (s \o t)[i] = IF i <= Len(s) THEN s[i] ELSE t[i - Len(s)]
    BY ConcatProperties
<1>3. to \in [1..(m + 1) -> Nat] /\ to[m + 1] = Len(s) /\ \A i \in 1..m : to[i] = at[i] /\ at[i] \in Nat
    BY <1>2
<1> HIDE DEF to
<1>4. ASSUME NEW i \in 1..(m + 1)
      PROVE  /\ to[i] + Len(ss[i]) <= Len(s \o t)
             /\ \A k \in 1..Len(ss[i]) : (s \o t)[to[i] + k] = ss[i][k]
  <2>1. CASE i = m + 1
    <3>1. to[i] = Len(s) /\ ss[i] = t
      BY <1>1, <1>3, <2>1
    <3> QED
      BY <1>2, <3>1
  <2>2. CASE i \in 1..m
    <3>1. to[i] = at[i] /\ at[i] \in Nat /\ Len(ss[i]) \in Nat
      BY <1>3, <2>2
    <3>2. at[i] + Len(ss[i]) <= Len(s) /\ \A k \in 1..Len(ss[i]) : s[at[i] + k] = ss[i][k]
      BY <2>2 DEF InARow
    <3>3. ASSUME NEW k \in 1..Len(ss[i]) PROVE (s \o t)[to[i] + k] = ss[i][k]
      <4>1. at[i] + k \in 1..(Len(s) + Len(t)) /\ at[i] + k <= Len(s)
        <5>1. at[i] \in Nat /\ k \in Nat /\ 1 <= k /\ k <= Len(ss[i]) /\ Len(ss[i]) \in Nat
          BY <3>1
        <5>2. Len(s) \in Nat /\ Len(t) \in Nat /\ at[i] + Len(ss[i]) <= Len(s)
          BY <1>2, <3>2
        <5> QED
          BY <5>1, <5>2
      <4>2. (s \o t)[at[i] + k] = s[at[i] + k]
        BY <1>2, <4>1
      <4> QED
        BY <3>1, <3>2, <4>2
    <3>4. to[i] + Len(ss[i]) <= Len(s \o t)
      BY <1>2, <3>1, <3>2
    <3> QED
      BY <3>3, <3>4
  <2>3. i = m + 1 \/ i \in 1..m
    OBVIOUS
  <2> QED
    BY <2>1, <2>2, <2>3
<1>5. ASSUME NEW j \in 1..Len(s \o t)
      PROVE  \E i \in 1..(m + 1) : \E k \in 1..Len(ss[i]) : j = to[i] + k
  <2>1. CASE j <= Len(s)
    <3>1. PICK i \in 1..m : \E k \in 1..Len(ss[i]) : j = at[i] + k
      BY <1>2, <2>1 DEF InARow
    <3>2. i \in 1..(m + 1) /\ to[i] = at[i]
      BY <1>3
    <3> QED
      BY <3>1, <3>2
  <2>2. CASE j > Len(s)
    <3>1. j - Len(s) \in 1..Len(t) /\ j = Len(s) + (j - Len(s))
      BY <1>2, <2>2
    <3>2. m + 1 \in 1..(m + 1)
      OBVIOUS
    <3> QED
      BY <1>1, <1>3, <3>1, <3>2
  <2> QED
    BY <1>2, <2>1, <2>2
<1> QED
    BY <1>1, <1>3, <1>4, <1>5 DEF InARow

LEMMA FlattenInARow ==
    ASSUME NEW T, NEW ss \in Seq(Seq(T))
    PROVE  /\ FlattenSeq(ss) \in Seq(T)
           /\ \E at \in [1..Len(ss) -> Nat] : InARow(ss, Len(ss), FlattenSeq(ss), at)
<1> DEFINE n == Len(ss)
<1>1. n \in Nat /\ \A i \in 1..n : ss[i] \in Seq(T)
    OBVIOUS
<1>2. CASE n = 0
  <2>1. FlattenSeq(ss) = ss /\ ss = <<>>
    BY <1>2 DEF FlattenSeq
  <2> DEFINE at == [i \in 1..n |-> 0]
  <2>2. at \in [1..Len(ss) -> Nat]
    OBVIOUS
  <2>3. Len(FlattenSeq(ss)) = 0 /\ FlattenSeq(ss) \in Seq(T)
    BY <2>1
  <2>4. InARow(ss, Len(ss), FlattenSeq(ss), at)
    BY <1>2, <2>3 DEF InARow
  <2> QED
    BY <2>2, <2>3, <2>4
<1>3. CASE n # 0
  <2> DEFINE f == CHOOSE f : f = [i \in 1..Len(ss) |-> IF i = 1 THEN ss[i] ELSE f[i - 1] \o ss[i]]
  <2>1. \A i \in 1..n : f[i] = IF i = 1 THEN ss[i] ELSE f[i - 1] \o ss[i]
    <3>1. Flattens(ss, n, f, f)
      <4>1. \E h : Flattens(ss, Len(ss), h, h)
        BY FlattenExists
      <4>2. \E h : h = [i \in 1..Len(ss) |-> IF i = 1 THEN ss[i] ELSE h[i - 1] \o ss[i]]
        BY <4>1, Zenon DEF Flattens
      <4> QED
        BY <4>2, Zenon DEF Flattens
    <3> HIDE DEF f
    <3> QED
      BY <1>1, <3>1, FlattensAt
  <2>2. FlattenSeq(ss) = f[n]
    BY <1>3 DEF FlattenSeq
  <2> HIDE DEF f
  <2> DEFINE Good == {m \in 1..n : f[m] \in Seq(T) /\ \E at \in [1..m -> Nat] : InARow(ss, m, f[m], at)}
  <2>3. 1 \in Good
    <3> DEFINE at == [i \in 1..1 |-> 0]
    <3>1. f[1] = ss[1] /\ ss[1] \in Seq(T)
      BY <1>1, <1>3, <2>1
    <3>2. Len(ss[1]) \in Nat
      BY <3>1
    <3>3. \A k \in 1..Len(ss[1]) : at[1] + k = k
      OBVIOUS
    <3>4. InARow(ss, 1, f[1], at)
      BY <3>1, <3>2, <3>3 DEF InARow
    <3>5. at \in [1..1 -> Nat]
      OBVIOUS
    <3> HIDE DEF at
    <3> QED
      BY <1>1, <1>3, <3>1, <3>4, <3>5
  <2>4. ASSUME NEW m \in Good, m < n PROVE m + 1 \in Good
    <3>1. m \in 1..n /\ m + 1 \in 1..n /\ f[m] \in Seq(T) /\ ss[m + 1] \in Seq(T)
      BY <1>1, <2>4
    <3>2. PICK at \in [1..m -> Nat] : InARow(ss, m, f[m], at)
      OBVIOUS
    <3>3. f[m + 1] = f[m] \o ss[m + 1]
      <4>1. m + 1 # 1 /\ (m + 1) - 1 = m
        BY <3>1
      <4> QED
        BY <2>1, <3>1, <4>1
    <3>4. \A i \in 1..m : ss[i] \in Seq(T)
      BY <1>1, <3>1
    <3>5. \E to \in [1..(m + 1) -> Nat] : InARow(ss, m + 1, f[m] \o ss[m + 1], to)
      <4>1. m \in Nat
        BY <3>1
      <4> QED
        BY <3>1, <3>2, <3>4, <4>1, RowGrows
    <3>6. f[m] \o ss[m + 1] \in Seq(T)
      BY <3>1, ConcatProperties
    <3> QED
      BY <3>1, <3>3, <3>5, <3>6
  <2>5. n \in Good
    <3> HIDE DEF Good
    <3>1. Good \in SUBSET (1..n)
      BY DEF Good
    <3> QED
      BY <1>1, <1>3, <2>3, <2>4, <3>1, CountingUp
  <2> QED
    BY <2>2, <2>5
<1> QED
    BY <1>2, <1>3

-----------------------------------------------------------------------------
(* What each experiment reads and writes *)

Reads(f) == {<<"parse", f>>, <<"both", f>>}
Hashes(f) == {<<"hash", f>>, <<"both", f>>}
Loaded ==
    {"E1_rows", "E2_rows", "E2_summary", "E3_receipt", "E3_artifacts", "E4_rows", "E4_summary", "E4_metadata",
     "E5_rows", "E5_contract", "E6_rows", "E6_contract", "E7_config", "E8_rows", "E8_contract",
     "E2", "E3", "E4", "E7"}
LoadKinds == {"parse", "hash", "both", "check", "measure", "tear", "generate"}

\* What the proofs need of an experiment's readings and writings: its files are parsed
\* and hashed, those that must agree before they are compared, and a generated output
\* is written as soon as it is torn or measured.
LoadsWell(e, s) ==
    /\ s \in Seq(LoadKinds \X Loaded)
    /\ \A k \in 1..Len(s) : s[k][1] \in LoadKinds
    /\ \A f \in FilesOf(e) : (\E k \in 1..Len(s) : s[k] \in Reads(f)) /\ (\E k \in 1..Len(s) : s[k] \in Hashes(f))
    /\ e \in DOMAIN Alike => Alike[e] \subseteq FilesOf(e) /\ \E k \in 1..Len(s) : s[k] = <<"check", e>>
    /\ e \in DOMAIN Judged => Judged[e] \subseteq FilesOf(e)
    /\ \A k \in 1..Len(s) : s[k][1] = "check" =>
          s[k][2] = e /\ e \in DOMAIN Alike /\ \A f \in Alike[e] : \E i \in 1..(k - 1) : s[i] \in Reads(f)
    /\ \A k \in 1..Len(s) : (s[k][1] = "tear" => e = "E3") /\ (s[k][1] = "measure" => e = "E7")
    /\ \A k \in 1..Len(s) : s[k][1] \in {"tear", "measure"} =>
          s[k][2] = e /\ k + 1 \in 1..Len(s) /\ s[k + 1] = <<"generate", e>>
    /\ \A k \in 1..Len(s) : s[k][1] = "generate" =>
          s[k][2] = e /\ e \in DOMAIN GeneratedOf /\ (\A f \in FilesOf(e) : \E i \in 1..(k - 1) : s[i] \in Reads(f))
    /\ e \in DOMAIN GeneratedOf => \E k \in 1..Len(s) : s[k] = <<"generate", e>>

LEMMA E1Listed ==
    LET s == E1Steps
    IN  /\ s \in Seq(LoadKinds \X Loaded) /\ Len(s) = 2
        /\ s[1] = <<"parse", "E1_rows">> /\ s[2] = <<"hash", "E1_rows">>
  BY DEF E1Steps, Twice, LoadKinds, Loaded

LEMMA E2Listed ==
    LET s == E2Steps
    IN  /\ s \in Seq(LoadKinds \X Loaded) /\ Len(s) = 5
        /\ s[1] = <<"parse", "E2_rows">> /\ s[2] = <<"hash", "E2_rows">> /\ s[3] = <<"parse", "E2_summary">>
        /\ s[4] = <<"hash", "E2_summary">> /\ s[5] = <<"check", "E2">>
  BY DEF E2Steps, Twice, LoadKinds, Loaded

LEMMA E3Listed ==
    LET s == E3Steps
    IN  /\ s \in Seq(LoadKinds \X Loaded) /\ Len(s) = 6
        /\ s[1] = <<"parse", "E3_receipt">> /\ s[2] = <<"hash", "E3_receipt">> /\ s[3] = <<"both", "E3_artifacts">>
        /\ s[4] = <<"check", "E3">> /\ s[5] = <<"tear", "E3">> /\ s[6] = <<"generate", "E3">>
  BY DEF E3Steps, Twice, LoadKinds, Loaded

LEMMA E4Listed ==
    LET s == E4Steps
    IN  /\ s \in Seq(LoadKinds \X Loaded) /\ Len(s) = 7
        /\ s[1] = <<"parse", "E4_rows">> /\ s[2] = <<"hash", "E4_rows">> /\ s[3] = <<"parse", "E4_summary">>
        /\ s[4] = <<"hash", "E4_summary">> /\ s[5] = <<"parse", "E4_metadata">> /\ s[6] = <<"hash", "E4_metadata">>
        /\ s[7] = <<"check", "E4">>
  BY DEF E4Steps, Twice, LoadKinds, Loaded

LEMMA E5Listed ==
    LET s == E5Steps
    IN  /\ s \in Seq(LoadKinds \X Loaded) /\ Len(s) = 4
        /\ s[1] = <<"parse", "E5_rows">> /\ s[2] = <<"hash", "E5_rows">> /\ s[3] = <<"parse", "E5_contract">>
        /\ s[4] = <<"hash", "E5_contract">>
  BY DEF E5Steps, Twice, LoadKinds, Loaded

LEMMA E6Listed ==
    LET s == E6Steps
    IN  /\ s \in Seq(LoadKinds \X Loaded) /\ Len(s) = 4
        /\ s[1] = <<"parse", "E6_rows">> /\ s[2] = <<"hash", "E6_rows">> /\ s[3] = <<"parse", "E6_contract">>
        /\ s[4] = <<"hash", "E6_contract">>
  BY DEF E6Steps, Twice, LoadKinds, Loaded

LEMMA E7Listed ==
    LET s == E7Steps
    IN  /\ s \in Seq(LoadKinds \X Loaded) /\ Len(s) = 4
        /\ s[1] = <<"parse", "E7_config">> /\ s[2] = <<"measure", "E7">> /\ s[3] = <<"generate", "E7">>
        /\ s[4] = <<"hash", "E7_config">>
  BY DEF E7Steps, Twice, LoadKinds, Loaded

LEMMA E8Listed ==
    LET s == E8Steps
    IN  /\ s \in Seq(LoadKinds \X Loaded) /\ Len(s) = 5
        /\ s[1] = <<"parse", "E8_rows">> /\ s[2] = <<"hash", "E8_rows">> /\ s[3] = <<"parse", "E8_contract">>
        /\ s[4] = <<"hash", "E8_contract">> /\ s[5] = <<"parse", "E8_contract">>
  BY DEF E8Steps, Twice, LoadKinds, Loaded

FilesIn(s) == {s[i][2] : i \in {j \in DOMAIN s : s[j][1] \in {"parse", "hash", "both"}}}

LEMMA FilesLoaded ==
    /\ FilesOf("E1") = {"E1_rows"}
    /\ FilesOf("E2") = {"E2_rows", "E2_summary"}
    /\ FilesOf("E3") = {"E3_receipt", "E3_artifacts"}
    /\ FilesOf("E4") = {"E4_rows", "E4_summary", "E4_metadata"}
    /\ FilesOf("E5") = {"E5_rows", "E5_contract"}
    /\ FilesOf("E6") = {"E6_rows", "E6_contract"}
    /\ FilesOf("E7") = {"E7_config"}
    /\ FilesOf("E8") = {"E8_rows", "E8_contract"}
<1>1. /\ FilesOf("E1") = FilesIn(E1Steps) /\ FilesOf("E2") = FilesIn(E2Steps)
      /\ FilesOf("E3") = FilesIn(E3Steps) /\ FilesOf("E4") = FilesIn(E4Steps)
      /\ FilesOf("E5") = FilesIn(E5Steps) /\ FilesOf("E6") = FilesIn(E6Steps)
      /\ FilesOf("E7") = FilesIn(E7Steps) /\ FilesOf("E8") = FilesIn(E8Steps)
    BY DEF FilesOf, FilesIn, LoadSteps
<1>2. FilesIn(E1Steps) = {"E1_rows"}
    BY E1Listed DEF FilesIn
<1>3. FilesIn(E2Steps) = {"E2_rows", "E2_summary"}
    BY E2Listed DEF FilesIn
<1>4. FilesIn(E3Steps) = {"E3_receipt", "E3_artifacts"}
    BY E3Listed DEF FilesIn
<1>5. FilesIn(E4Steps) = {"E4_rows", "E4_summary", "E4_metadata"}
    BY E4Listed DEF FilesIn
<1>6. FilesIn(E5Steps) = {"E5_rows", "E5_contract"}
    BY E5Listed DEF FilesIn
<1>7. FilesIn(E6Steps) = {"E6_rows", "E6_contract"}
    BY E6Listed DEF FilesIn
<1>8. FilesIn(E7Steps) = {"E7_config"}
    BY E7Listed DEF FilesIn
<1>9. FilesIn(E8Steps) = {"E8_rows", "E8_contract"}
    BY E8Listed DEF FilesIn
<1> QED
    BY <1>1, <1>2, <1>3, <1>4, <1>5, <1>6, <1>7, <1>8, <1>9

LEMMA LoadsAreWell == \A e \in DOMAIN LoadSteps : LoadsWell(e, LoadSteps[e])
<1> USE FilesLoaded DEF LoadsWell, Reads, Hashes, LoadKinds, Alike, Judged, GeneratedOf
<1>1. LoadsWell("E1", E1Steps)
    BY E1Listed
<1>2. LoadsWell("E2", E2Steps)
    BY E2Listed
<1>3. LoadsWell("E3", E3Steps)
    BY E3Listed
<1>4. LoadsWell("E4", E4Steps)
  <2>1. /\ \A f \in FilesOf("E4") : \E k \in 1..Len(E4Steps) : E4Steps[k] \in Reads(f)
        /\ \A f \in FilesOf("E4") : \E k \in 1..Len(E4Steps) : E4Steps[k] \in Hashes(f)
    <3>1. FilesOf("E4") = {"E4_rows", "E4_summary", "E4_metadata"}
      OBVIOUS
    <3> HIDE FilesLoaded
    <3>2. /\ E4Steps[1] \in Reads("E4_rows") /\ E4Steps[3] \in Reads("E4_summary")
          /\ E4Steps[5] \in Reads("E4_metadata")
          /\ E4Steps[2] \in Hashes("E4_rows") /\ E4Steps[4] \in Hashes("E4_summary")
          /\ E4Steps[6] \in Hashes("E4_metadata")
      BY E4Listed
    <3>3. 1..Len(E4Steps) = 1..7
      BY E4Listed
    <3> HIDE DEF Reads, Hashes
    <3>4. ASSUME NEW f \in {"E4_rows", "E4_summary", "E4_metadata"}
          PROVE  (\E k \in 1..7 : E4Steps[k] \in Reads(f)) /\ (\E k \in 1..7 : E4Steps[k] \in Hashes(f))
      BY <3>2
    <3> QED
      BY <3>1, <3>3, <3>4
  <2>2. \A k \in 1..Len(E4Steps) : /\ E4Steps[k][1] \in {"parse", "hash", "check"}
                                  /\ E4Steps[k][1] = "check" => k = 7
    BY E4Listed
  <2>3. \A f \in Alike["E4"] : \E i \in 1..6 : E4Steps[i] \in Reads(f)
    BY E4Listed
  <2>4. \E k \in 1..Len(E4Steps) : E4Steps[k] = <<"check", "E4">>
    BY E4Listed
  <2> HIDE DEF Reads, Hashes
  <2>5. \A k \in 1..Len(E4Steps) : /\ E4Steps[k][1] \in LoadKinds
                                  /\ E4Steps[k][1] # "tear" /\ E4Steps[k][1] # "measure" /\ E4Steps[k][1] # "generate"
    BY E4Listed
  <2>6. \A k \in 1..Len(E4Steps) : E4Steps[k][1] = "check" =>
           E4Steps[k][2] = "E4" /\ \A f \in Alike["E4"] : \E i \in 1..(k - 1) : E4Steps[i] \in Reads(f)
    BY <2>2, <2>3, E4Listed
  <2>7. "E4" \in DOMAIN Alike /\ "E4" \notin DOMAIN Judged /\ "E4" \notin DOMAIN GeneratedOf
    OBVIOUS
  <2>8. Alike["E4"] \subseteq FilesOf("E4")
    OBVIOUS
  <2>9. E4Steps \in Seq(LoadKinds \X Loaded)
    <3> HIDE DEF LoadKinds
    <3> QED
      BY E4Listed
  <2> HIDE FilesLoaded DEF Alike, Judged, GeneratedOf, LoadKinds
  <2> QED
    BY <2>1, <2>4, <2>5, <2>6, <2>7, <2>8, <2>9
<1>5. LoadsWell("E5", E5Steps)
    BY E5Listed
<1>6. LoadsWell("E6", E6Steps)
    BY E6Listed
<1>7. LoadsWell("E7", E7Steps)
    BY E7Listed
<1>8. LoadsWell("E8", E8Steps)
    BY E8Listed
<1> QED
  <2> HIDE FilesLoaded DEF LoadsWell
  <2> QED
    BY <1>1, <1>2, <1>3, <1>4, <1>5, <1>6, <1>7, <1>8 DEF LoadSteps

-----------------------------------------------------------------------------
(* The steps of a build, of any configuration *)

\* One step for each experiment that map knows.
Singles(config, map, kind) ==
    [i \in DOMAIN config |-> IF config[i] \in DOMAIN map THEN <<<<kind, map[config[i]]>>>> ELSE <<>>]

SinglesAre(config, map, kind, flat) ==
    /\ \A j \in 1..Len(flat) : \E i \in DOMAIN config : config[i] \in DOMAIN map /\ flat[j] = <<kind, map[config[i]]>>
    /\ \A i \in DOMAIN config : config[i] \in DOMAIN map => \E j \in 1..Len(flat) : flat[j] = <<kind, map[config[i]]>>

LEMMA SinglesFlat ==
    ASSUME NEW T, NEW config \in Seq(DOMAIN LoadSteps), NEW map, NEW kind,
           \A e \in DOMAIN map : <<kind, map[e]>> \in T
    PROVE  /\ FlattenSeq(Singles(config, map, kind)) \in Seq(T)
           /\ SinglesAre(config, map, kind, FlattenSeq(Singles(config, map, kind)))
<1> DEFINE ss == Singles(config, map, kind)
           flat == FlattenSeq(ss)
<1>1. DOMAIN config = 1..Len(config) /\ Len(config) \in Nat
    OBVIOUS
<1>2. \A i \in DOMAIN config : ss[i] = IF config[i] \in DOMAIN map THEN <<<<kind, map[config[i]]>>>> ELSE <<>>
    BY DEF Singles
<1>0. ASSUME NEW i \in DOMAIN config
      PROVE  /\ config[i] \in DOMAIN map =>
                    ss[i] \in Seq(T) /\ Len(ss[i]) = 1 /\ ss[i][1] = <<kind, map[config[i]]>>
             /\ config[i] \notin DOMAIN map => ss[i] \in Seq(T) /\ Len(ss[i]) = 0
  <2> DEFINE x == <<kind, map[config[i]]>>
  <2>1. CASE config[i] \in DOMAIN map
    <3>1. ss[i] = <<x>> /\ x \in T
      BY <1>2, <2>1
    <3> HIDE DEF x, ss
    <3>2. ss[i] \in Seq(T) /\ Len(ss[i]) = 1 /\ ss[i][1] = x
      BY <3>1
    <3> QED
      BY <2>1, <3>2 DEF x
  <2>2. CASE config[i] \notin DOMAIN map
    <3>1. ss[i] = <<>>
      BY <1>2, <2>2
    <3> HIDE DEF ss
    <3> QED
      BY <2>2, <3>1
  <2> QED
    BY <2>1, <2>2
<1>3. \A i \in 1..Len(config) : ss[i] \in Seq(T)
    BY <1>0, <1>1
<1>4. ss \in Seq(Seq(T)) /\ Len(ss) = Len(config)
  <2>1. ss = [i \in 1..Len(config) |-> ss[i]]
    BY <1>1 DEF Singles
  <2> HIDE DEF ss
  <2> QED
    BY <1>1, <1>3, <2>1
<1>5. PICK at \in [1..Len(ss) -> Nat] : flat \in Seq(T) /\ InARow(ss, Len(ss), flat, at)
  <2> HIDE DEF ss
  <2> QED
    BY <1>4, FlattenInARow
<1> HIDE DEF flat, ss
<1>6. ASSUME NEW i \in DOMAIN config
      PROVE  \A k \in 1..Len(ss[i]) : config[i] \in DOMAIN map /\ k = 1 /\ ss[i][k] = <<kind, map[config[i]]>>
  <2>1. CASE config[i] \in DOMAIN map
    <3>1. Len(ss[i]) = 1 /\ ss[i][1] = <<kind, map[config[i]]>>
      BY <1>0, <2>1
    <3>2. \A k \in 1..Len(ss[i]) : k = 1
      BY <3>1
    <3> QED
      BY <2>1, <3>1, <3>2
  <2>2. CASE config[i] \notin DOMAIN map
    <3>1. Len(ss[i]) = 0
      BY <1>0, <2>2
    <3> QED
      BY <3>1
  <2> QED
    BY <2>1, <2>2
<1>7. ASSUME NEW j \in 1..Len(flat)
      PROVE  \E i \in DOMAIN config : config[i] \in DOMAIN map /\ flat[j] = <<kind, map[config[i]]>>
  <2>0. PICK i \in 1..Len(ss) : \E k \in 1..Len(ss[i]) : j = at[i] + k
    BY <1>5 DEF InARow
  <2>1. PICK k \in 1..Len(ss[i]) : j = at[i] + k
    BY <2>0
  <2>2. flat[j] = ss[i][k] /\ i \in DOMAIN config
    <3>1. i \in DOMAIN config
      BY <1>1, <1>4
    <3>2. \A l \in 1..Len(ss[i]) : flat[at[i] + l] = ss[i][l]
      BY <1>5, Zenon DEF InARow
    <3> QED
      BY <2>1, <3>1, <3>2
  <2> QED
    BY <1>6, <2>2
<1>8. ASSUME NEW i \in DOMAIN config, config[i] \in DOMAIN map
      PROVE  \E j \in 1..Len(flat) : flat[j] = <<kind, map[config[i]]>>
  <2>1. Len(ss[i]) = 1 /\ ss[i][1] = <<kind, map[config[i]]>> /\ i \in 1..Len(ss)
    BY <1>0, <1>1, <1>4, <1>8
  <2>2. at[i] \in Nat /\ at[i] + 1 <= Len(flat) /\ flat[at[i] + 1] = ss[i][1]
    <3>1. at[i] \in Nat /\ 1 \in 1..Len(ss[i])
      BY <1>5, <2>1
    <3>2. at[i] + Len(ss[i]) <= Len(flat) /\ \A k \in 1..Len(ss[i]) : flat[at[i] + k] = ss[i][k]
      BY <1>5, <2>1, Zenon DEF InARow
    <3> QED
      BY <2>1, <3>1, <3>2
  <2>3. Len(flat) \in Nat
    BY <1>5
  <2>4. at[i] + 1 \in 1..Len(flat)
    BY <2>2, <2>3
  <2> QED
    BY <2>1, <2>2, <2>4
<1> QED
  <2>1. SinglesAre(config, map, kind, flat)
    BY <1>7, <1>8 DEF SinglesAre
  <2> QED
    BY <1>5, <2>1 DEF flat, ss

\* s is a prefix, then t, from one position on.
From(s, n, t) == n + Len(t) <= Len(s) /\ \A i \in 1..Len(t) : s[n + i] = t[i]

LEMMA TwoParts ==
    ASSUME NEW T, NEW s \in Seq(T), NEW t \in Seq(T)
    PROVE  /\ s \o t \in Seq(T) /\ Len(s \o t) = Len(s) + Len(t) /\ Len(s) \in Nat /\ Len(t) \in Nat
           /\ From(s \o t, Len(s), t)
           /\ \A n \in Nat : \A u : Len(u) \in Nat /\ From(s, n, u) => From(s \o t, n, u)
<1>1. /\ s \o t \in Seq(T) /\ Len(s \o t) = Len(s) + Len(t) /\ Len(s) \in Nat /\ Len(t) \in Nat
      /\ \A i \in 1..(Len(s) + Len(t)) : (s \o t)[i] = IF i <= Len(s) THEN s[i] ELSE t[i - Len(s)]
    BY ConcatProperties
<1>2. From(s \o t, Len(s), t)
  <2>1. ASSUME NEW i \in 1..Len(t) PROVE (s \o t)[Len(s) + i] = t[i]
    <3>1. Len(s) + i \in 1..(Len(s) + Len(t)) /\ ~(Len(s) + i <= Len(s)) /\ (Len(s) + i) - Len(s) = i
      BY <1>1
    <3> QED
      BY <1>1, <3>1
  <2> QED
    BY <1>1, <2>1 DEF From
<1>3. ASSUME NEW n \in Nat, NEW u, Len(u) \in Nat, From(s, n, u) PROVE From(s \o t, n, u)
  <2>1. n + Len(u) <= Len(s \o t)
    BY <1>1, <1>3 DEF From
  <2>2. ASSUME NEW i \in 1..Len(u) PROVE (s \o t)[n + i] = u[i]
    <3>1. n + i \in 1..(Len(s) + Len(t)) /\ n + i <= Len(s) /\ s[n + i] = u[i]
      BY <1>1, <1>3 DEF From
    <3> QED
      BY <1>1, <3>1
  <2> QED
    BY <2>1, <2>2 DEF From
<1> QED
    BY <1>1, <1>2, <1>3

LEMMA OneStep == \A T : \A x \in T : <<x>> \in Seq(T) /\ Len(<<x>>) = 1 /\ <<x>>[1] = x
  OBVIOUS

Names == Loaded \cup Tables \cup Generated \cup {"generator", "manifest"}
StepSet == (LoadKinds \cup {"write", "rehash", "manifest"}) \X Names

LoadParts(config) == FlattenSeq([i \in DOMAIN config |-> LoadSteps[config[i]]])

\* The readings, then the generator's hash, the writings, the hashes of generated
\* outputs, and the manifest.
LEMMA StepParts ==
    ASSUME NEW config \in Seq(DOMAIN LoadSteps)
    PROVE  LET s == StepsOf(config)
               loads == LoadParts(config)
               writes == WritesOf(config)
               n == 1 + Len(loads)
           IN  /\ s \in Seq(StepSet) /\ loads \in Seq(StepSet) /\ writes \in Seq(StepSet)
               /\ RehashesOf(config) \in Seq(StepSet)
               /\ s[1] = <<"parse", "generator">> /\ From(s, 1, loads)
               /\ s[n + 1] = <<"hash", "generator">>
               /\ From(s, n + 1, writes)
               /\ From(s, n + 1 + Len(writes), RehashesOf(config))
               /\ Len(s) = n + 1 + Len(writes) + Len(RehashesOf(config)) + 1
               /\ s[Len(s)] = <<"manifest", "manifest">>
<1> DEFINE loads == LoadParts(config)
           writes == WritesOf(config)
           rehashes == RehashesOf(config)
           a == <<<<"parse", "generator">>>>
           h == <<<<"hash", "generator">>>>
           m == <<<<"manifest", "manifest">>>>
           s == StepsOf(config)
<1>1. s = a \o loads \o h \o writes \o rehashes \o m
    BY DEF StepsOf, LoadParts
<1>2. a \in Seq(StepSet) /\ h \in Seq(StepSet) /\ m \in Seq(StepSet)
  <2>1. <<"parse", "generator">> \in StepSet /\ <<"hash", "generator">> \in StepSet /\ <<"manifest", "manifest">> \in StepSet
    BY DEF StepSet, Names, LoadKinds
  <2> QED
    BY <2>1, OneStep
<1>3. Len(a) = 1 /\ a[1] = <<"parse", "generator">> /\ Len(h) = 1 /\ h[1] = <<"hash", "generator">>
      /\ Len(m) = 1 /\ m[1] = <<"manifest", "manifest">>
    OBVIOUS
<1>4. loads \in Seq(StepSet)
  <2> DEFINE ss == [i \in DOMAIN config |-> LoadSteps[config[i]]]
  <2>1. \A i \in 1..Len(config) : ss[i] \in Seq(StepSet)
    <3>1. LoadKinds \X Loaded \subseteq StepSet
      BY DEF StepSet, Names
    <3>2. \A e \in DOMAIN LoadSteps : LoadSteps[e] \in Seq(LoadKinds \X Loaded)
      BY LoadsAreWell DEF LoadsWell
    <3>3. \A e \in DOMAIN LoadSteps : LoadSteps[e] \in Seq(StepSet)
      BY <3>1, <3>2
    <3> QED
      BY <3>3
  <2>2. ss \in Seq(Seq(StepSet))
    <3>1. ss = [i \in 1..Len(config) |-> ss[i]] /\ Len(config) \in Nat
      OBVIOUS
    <3> HIDE DEF ss
    <3> QED
      BY <2>1, <3>1
  <2> HIDE DEF ss
  <2>3. FlattenSeq(ss) \in Seq(StepSet)
    BY <2>2, FlattenInARow
  <2> QED
    BY <2>3 DEF LoadParts, ss
<1>5. writes \in Seq(StepSet)
  <2>1. \A e \in DOMAIN TableOf : <<"write", TableOf[e]>> \in StepSet
    BY DEF StepSet, Names, Tables
  <2>2. FlattenSeq(Singles(config, TableOf, "write")) \in Seq(StepSet)
    BY <2>1, SinglesFlat
  <2>3. <<<<"write", "claims">>>> \in Seq(StepSet)
    <3>1. <<"write", "claims">> \in StepSet
      BY DEF StepSet, Names, Tables
    <3> QED
      BY <3>1
  <2> QED
    BY <2>2, <2>3, TwoParts DEF WritesOf, Singles
<1>6. rehashes \in Seq(StepSet)
  <2>0. \A e \in DOMAIN GeneratedOf : GeneratedOf[e] \in Generated
    BY DEF GeneratedOf, Generated
  <2>1. \A e \in DOMAIN GeneratedOf : <<"rehash", GeneratedOf[e]>> \in StepSet
    BY <2>0 DEF StepSet, Names
  <2>2. FlattenSeq(Singles(config, GeneratedOf, "rehash")) \in Seq(StepSet)
    BY <2>1, SinglesFlat
  <2> QED
    BY <2>2 DEF RehashesOf, Singles
<1> HIDE DEF loads, writes, rehashes, a, h, m, s
<1> DEFINE s2 == a \o loads
           s3 == s2 \o h
           s4 == s3 \o writes
           s5 == s4 \o rehashes
<1>7. s2 \in Seq(StepSet) /\ Len(s2) = 1 + Len(loads) /\ From(s2, 1, loads) /\ From(s2, 0, a) /\ Len(loads) \in Nat
  <2>1. From(a, 0, a)
    BY <1>3 DEF From
  <2> QED
    BY <1>2, <1>3, <1>4, <2>1, TwoParts
<1> DEFINE n == 1 + Len(loads)
           p == n + 1 + Len(writes)
<1>a. Len(a) \in Nat /\ Len(h) \in Nat /\ Len(m) \in Nat /\ n \in Nat /\ Len(s2) = n
    BY <1>3, <1>7
<1>b. Len(writes) \in Nat /\ Len(rehashes) \in Nat /\ p \in Nat
    BY <1>5, <1>6, <1>a
<1> HIDE DEF s2, n, p
<1>8. /\ s3 \in Seq(StepSet) /\ Len(s3) = n + 1 /\ Len(h) \in Nat
      /\ From(s3, 0, a) /\ From(s3, 1, loads) /\ From(s3, n, h)
  <2>1. s3 \in Seq(StepSet) /\ Len(s3) = Len(s2) + Len(h) /\ From(s3, Len(s2), h)
    BY <1>2, <1>7, TwoParts
  <2>2. \A k \in Nat : \A u : Len(u) \in Nat /\ From(s2, k, u) => From(s3, k, u)
    BY <1>2, <1>7, TwoParts
  <2> HIDE DEF s3
  <2>3. Len(s3) = n + 1
    BY <1>3, <1>a, <1>b, <1>7, <2>1
  <2> QED
    BY <1>3, <1>7, <1>a, <1>b, <1>7, <2>1, <2>2, <2>3
<1> HIDE DEF s3
<1>9. /\ s4 \in Seq(StepSet) /\ Len(s4) = p /\ Len(writes) \in Nat
      /\ From(s4, 0, a) /\ From(s4, 1, loads) /\ From(s4, n, h)
      /\ From(s4, n + 1, writes)
  <2>1. s4 \in Seq(StepSet) /\ Len(s4) = Len(s3) + Len(writes) /\ From(s4, Len(s3), writes)
    BY <1>5, <1>8, TwoParts
  <2>2. \A k \in Nat : \A u : Len(u) \in Nat /\ From(s3, k, u) => From(s4, k, u)
    BY <1>5, <1>8, TwoParts
  <2> HIDE DEF s4
  <2>3. Len(s4) = p
    BY <1>3, <1>a, <1>b, <1>8, <2>1 DEF p
  <2> QED
    BY <1>3, <1>7, <1>a, <1>b, <1>8, <2>1, <2>2, <2>3 DEF p
<1> HIDE DEF s4
<1>10. /\ s5 \in Seq(StepSet) /\ Len(s5) = p + Len(rehashes) /\ Len(rehashes) \in Nat
      /\ From(s5, 0, a) /\ From(s5, 1, loads) /\ From(s5, n, h)
      /\ From(s5, n + 1, writes) /\ From(s5, p, rehashes)
  <2>1. s5 \in Seq(StepSet) /\ Len(s5) = Len(s4) + Len(rehashes) /\ From(s5, Len(s4), rehashes)
    BY <1>6, <1>9, TwoParts
  <2>2. \A k \in Nat : \A u : Len(u) \in Nat /\ From(s4, k, u) => From(s5, k, u)
    BY <1>6, <1>9, TwoParts
  <2> HIDE DEF s5
  <2>3. Len(s5) = p + Len(rehashes)
    BY <1>3, <1>a, <1>b, <1>9, <2>1
  <2> QED
    BY <1>3, <1>7, <1>a, <1>b, <1>9, <2>1, <2>2, <2>3
<1> HIDE DEF s5
<1>11. s = s5 \o m
    BY <1>1 DEF s5, s4, s3, s2
<1>12. /\ s \in Seq(StepSet) /\ Len(s) = p + Len(rehashes) + 1 /\ Len(m) \in Nat
      /\ From(s, 0, a) /\ From(s, 1, loads) /\ From(s, n, h)
      /\ From(s, n + 1, writes) /\ From(s, p, rehashes) /\ From(s, p + Len(rehashes), m)
  <2>1. s \in Seq(StepSet) /\ Len(s) = Len(s5) + Len(m) /\ From(s, Len(s5), m)
    BY <1>2, <1>10, <1>11, TwoParts
  <2>2. \A k \in Nat : \A u : Len(u) \in Nat /\ From(s5, k, u) => From(s, k, u)
    BY <1>2, <1>10, <1>11, TwoParts
  <2>3. Len(s) = p + Len(rehashes) + 1
    BY <1>3, <1>a, <1>b, <1>10, <2>1
  <2> QED
    BY <1>3, <1>7, <1>a, <1>b, <1>10, <2>1, <2>2, <2>3
<1>13. s[1] = <<"parse", "generator">> /\ s[n + 1] = <<"hash", "generator">> /\ s[Len(s)] = <<"manifest", "manifest">>
  <2>1. 1 \in 1..Len(a) /\ 1 \in 1..Len(h) /\ 1 \in 1..Len(m)
    BY <1>3
  <2>2. s[0 + 1] = a[1] /\ s[n + 1] = h[1] /\ s[p + Len(rehashes) + 1] = m[1]
    BY <1>12, <2>1 DEF From
  <2> QED
    BY <1>3, <1>12, <2>2
<1> QED
    BY <1>4, <1>5, <1>6, <1>12, <1>13 DEF loads, writes, rehashes, s, n, p

LastLoad(config) == 1 + Len(LoadParts(config))

\* Where the steps of the i-th experiment are.
Placed(config, i, base) ==
    /\ base \in Nat \ {0} /\ base + Len(LoadSteps[config[i]]) <= LastLoad(config)
    /\ \A k \in 1..Len(LoadSteps[config[i]]) : StepsOf(config)[base + k] = LoadSteps[config[i]][k]

LEMMA LoadsPlaced ==
    ASSUME NEW config \in Seq(DOMAIN LoadSteps)
    PROVE  /\ \A i \in DOMAIN config : \E base : Placed(config, i, base)
           /\ \A j \in 2..LastLoad(config) : \E i \in DOMAIN config, base \in Nat :
                 Placed(config, i, base) /\ \E k \in 1..Len(LoadSteps[config[i]]) : j = base + k
<1> DEFINE ss == [i \in DOMAIN config |-> LoadSteps[config[i]]]
           loads == LoadParts(config)
           s == StepsOf(config)
<1>1. Len(config) \in Nat /\ DOMAIN config = 1..Len(config) /\ \A i \in DOMAIN config : config[i] \in DOMAIN LoadSteps
    OBVIOUS
<1>2. \A e \in DOMAIN LoadSteps : LoadSteps[e] \in Seq(LoadKinds \X Loaded)
    BY LoadsAreWell DEF LoadsWell
<1>3. \A i \in DOMAIN config : ss[i] = LoadSteps[config[i]] /\ ss[i] \in Seq(LoadKinds \X Loaded) /\ Len(ss[i]) \in Nat
    BY <1>1, <1>2
<1>4. ss \in Seq(Seq(LoadKinds \X Loaded)) /\ Len(ss) = Len(config)
  <2>1. ss = [i \in 1..Len(config) |-> ss[i]]
    BY <1>1
  <2> HIDE DEF ss
  <2> QED
    BY <1>1, <1>3, <2>1
<1>5. PICK at \in [1..Len(ss) -> Nat] : InARow(ss, Len(ss), loads, at) /\ Len(loads) \in Nat
  <2>1. loads = FlattenSeq(ss)
    BY DEF LoadParts
  <2> HIDE DEF ss, loads
  <2>2. loads \in Seq(LoadKinds \X Loaded) /\ \E at \in [1..Len(ss) -> Nat] : InARow(ss, Len(ss), loads, at)
    BY <1>4, <2>1, FlattenInARow
  <2> QED
    BY <2>2
<1>6. \A j \in 1..Len(loads) : s[1 + j] = loads[j]
    BY StepParts DEF From
<1> HIDE DEF ss, loads, s
<1>7. ASSUME NEW i \in DOMAIN config PROVE Placed(config, i, at[i] + 1)
  <2>1. /\ i \in 1..Len(ss) /\ at[i] \in Nat /\ at[i] + Len(ss[i]) <= Len(loads)
        /\ \A k \in 1..Len(ss[i]) : loads[at[i] + k] = ss[i][k]
    BY <1>1, <1>4, <1>5 DEF InARow
  <2>2. ASSUME NEW k \in 1..Len(ss[i]) PROVE s[at[i] + 1 + k] = ss[i][k]
    <3>1. at[i] + k \in 1..Len(loads) /\ 1 + (at[i] + k) = at[i] + 1 + k
      BY <1>3, <1>5, <2>1
    <3> QED
      BY <1>6, <2>1, <3>1
  <2>3. at[i] + 1 + Len(ss[i]) <= 1 + Len(loads) /\ at[i] + 1 \in Nat \ {0}
    BY <1>3, <1>5, <2>1
  <2> QED
    BY <1>3, <2>2, <2>3 DEF Placed, LastLoad, s, loads
<1>8. ASSUME NEW j \in 2..LastLoad(config)
      PROVE  \E i \in DOMAIN config, base \in Nat :
                Placed(config, i, base) /\ \E k \in 1..Len(LoadSteps[config[i]]) : j = base + k
  <2>1. j - 1 \in 1..Len(loads) /\ j \in Nat
    BY <1>5 DEF LastLoad, loads
  <2>2. PICK i \in 1..Len(ss) : \E k \in 1..Len(ss[i]) : j - 1 = at[i] + k
    BY <1>5, <2>1 DEF InARow
  <2>3. PICK k \in 1..Len(ss[i]) : j - 1 = at[i] + k
    BY <2>2
  <2>4. i \in DOMAIN config /\ k \in 1..Len(LoadSteps[config[i]]) /\ at[i] \in Nat
    BY <1>1, <1>3, <1>4, <1>5
  <2>5. j = (at[i] + 1) + k
    <3>1. k \in Nat
      BY <1>3, <2>4
    <3> QED
      BY <2>1, <2>3, <2>4, <3>1
  <2> QED
    BY <1>7, <2>4, <2>5
<1> QED
    BY <1>7, <1>8

Written(config, x) == x = "claims" \/ \E i \in DOMAIN config : config[i] \in DOMAIN TableOf /\ x = TableOf[config[i]]
Rehashed(config, x) == \E i \in DOMAIN config : config[i] \in DOMAIN GeneratedOf /\ x = GeneratedOf[config[i]]

\* What a build has done before each of its readings, and that it does all of them.
LoadOrder(config, s, n) ==
    /\ \A j \in 1..n : s[j][1] \in LoadKinds
    /\ \A i \in DOMAIN config : \A f \in FilesOf(config[i]) :
          (\E j \in 1..n : s[j] \in Reads(f)) /\ (\E j \in 1..n : s[j] \in Hashes(f))
    /\ \A j \in 1..n : s[j][1] = "check" =>
          s[j][2] \in DOMAIN Alike /\ \A f \in Alike[s[j][2]] : \E l \in 1..(j - 1) : s[l] \in Reads(f)
    /\ \A i \in DOMAIN config : config[i] \in DOMAIN Alike => \E j \in 1..n : s[j] = <<"check", config[i]>>
    /\ \A j \in 1..n : s[j][1] = "tear" => s[j][2] = "E3" /\ j + 1 \in 1..n /\ s[j + 1] = <<"generate", "E3">>
    /\ \A j \in 1..n : s[j][1] = "measure" => s[j][2] = "E7" /\ j + 1 \in 1..n /\ s[j + 1] = <<"generate", "E7">>
    /\ \A j \in 1..n : s[j][1] = "generate" =>
          s[j][2] \in DOMAIN GeneratedOf /\ \A f \in FilesOf(s[j][2]) : \E l \in 1..(j - 1) : s[l] \in Reads(f)
    /\ \A i \in DOMAIN config : config[i] \in DOMAIN GeneratedOf => \E j \in 1..n : s[j] = <<"generate", config[i]>>

LEMMA LoadsOrdered ==
    ASSUME NEW config \in Seq(DOMAIN LoadSteps)
    PROVE  LoadOrder(config, StepsOf(config), LastLoad(config))
<1> DEFINE s == StepsOf(config)
           n == LastLoad(config)
<1>1. n \in Nat /\ n >= 1 /\ s[1] = <<"parse", "generator">>
  <2>1. Len(LoadParts(config)) \in Nat
    BY StepParts
  <2> QED
    BY <2>1, StepParts DEF LastLoad
<1>2. ASSUME NEW i \in DOMAIN config
      PROVE  /\ \A f \in FilesOf(config[i]) : (\E j \in 1..n : s[j] \in Reads(f)) /\ (\E j \in 1..n : s[j] \in Hashes(f))
             /\ config[i] \in DOMAIN Alike => \E j \in 1..n : s[j] = <<"check", config[i]>>
             /\ config[i] \in DOMAIN GeneratedOf => \E j \in 1..n : s[j] = <<"generate", config[i]>>
  <2> DEFINE L == LoadSteps[config[i]]
  <2>1. PICK base : Placed(config, i, base)
    BY LoadsPlaced
  <2>2. LoadsWell(config[i], L)
    BY LoadsAreWell
  <2>3. Len(L) \in Nat
    BY <2>2 DEF LoadsWell
  <2> HIDE DEF L, n, s
  <2>4. \A k \in 1..Len(L) : base + k \in 1..n /\ s[base + k] = L[k]
    BY <1>1, <2>1, <2>3 DEF Placed, L, s, n
  <2>5. ASSUME NEW S, \E k \in 1..Len(L) : L[k] \in S PROVE \E j \in 1..n : s[j] \in S
    <3>1. PICK k \in 1..Len(L) : L[k] \in S
      BY <2>5
    <3>2. base + k \in 1..n /\ s[base + k] \in S
      BY <2>4, <3>1
    <3> QED
      BY <3>2
  <2>6. ASSUME NEW f \in FilesOf(config[i])
        PROVE  (\E j \in 1..n : s[j] \in Reads(f)) /\ (\E j \in 1..n : s[j] \in Hashes(f))
    <3>1. (\E k \in 1..Len(L) : L[k] \in Reads(f)) /\ (\E k \in 1..Len(L) : L[k] \in Hashes(f))
      BY <2>2, Zenon DEF LoadsWell
    <3> QED
      BY <2>5, <3>1, Zenon
  <2>7. ASSUME config[i] \in DOMAIN Alike PROVE \E j \in 1..n : s[j] = <<"check", config[i]>>
    <3>1. \E k \in 1..Len(L) : L[k] = <<"check", config[i]>>
      BY <2>2, <2>7, Zenon DEF LoadsWell
    <3>2. \E j \in 1..n : s[j] \in {<<"check", config[i]>>}
      BY <2>5, <3>1
    <3> QED
      BY <3>2
  <2>8. ASSUME config[i] \in DOMAIN GeneratedOf PROVE \E j \in 1..n : s[j] = <<"generate", config[i]>>
    <3>1. \E k \in 1..Len(L) : L[k] = <<"generate", config[i]>>
      BY <2>2, <2>8, Zenon DEF LoadsWell
    <3>2. \E j \in 1..n : s[j] \in {<<"generate", config[i]>>}
      BY <2>5, <3>1
    <3> QED
      BY <3>2
  <2> QED
    BY <2>6, <2>7, <2>8
<1>3. ASSUME NEW j \in 1..n
      PROVE  /\ s[j][1] \in LoadKinds
             /\ s[j][1] = "check" =>
                   s[j][2] \in DOMAIN Alike /\ \A f \in Alike[s[j][2]] : \E l \in 1..(j - 1) : s[l] \in Reads(f)
             /\ s[j][1] = "tear" => s[j][2] = "E3" /\ j + 1 \in 1..n /\ s[j + 1] = <<"generate", "E3">>
             /\ s[j][1] = "measure" => s[j][2] = "E7" /\ j + 1 \in 1..n /\ s[j + 1] = <<"generate", "E7">>
             /\ s[j][1] = "generate" =>
                   s[j][2] \in DOMAIN GeneratedOf /\ \A f \in FilesOf(s[j][2]) : \E l \in 1..(j - 1) : s[l] \in Reads(f)
  <2>1. CASE j = 1
    BY <1>1, <2>1 DEF LoadKinds
  <2>2. CASE j # 1
    <3>0. j \in 2..n
      BY <1>1, <2>2
    <3>1. PICK i \in DOMAIN config, base \in Nat : Placed(config, i, base) /\ \E k \in 1..Len(LoadSteps[config[i]]) : j = base + k
      BY <3>0, LoadsPlaced
    <3> DEFINE L == LoadSteps[config[i]]
               e == config[i]
    <3>2. PICK k \in 1..Len(L) : j = base + k
      BY <3>1
    <3>3. LoadsWell(e, L)
      BY LoadsAreWell
    <3>4. Len(L) \in Nat
      BY <3>3 DEF LoadsWell
    <3> HIDE DEF L, n, s, e
    <3>5. base \in Nat \ {0} /\ \A l \in 1..Len(L) : base + l \in 1..n /\ s[base + l] = L[l]
      BY <1>1, <3>1, <3>4 DEF Placed, L, s, n
    <3>6. s[j] = L[k] /\ \A l \in 1..(k - 1) : base + l \in 1..(j - 1) /\ s[base + l] = L[l]
      BY <3>2, <3>4, <3>5
    <3>7. k + 1 \in 1..Len(L) => j + 1 \in 1..n /\ s[j + 1] = L[k + 1]
      <4> SUFFICES ASSUME k + 1 \in 1..Len(L) PROVE j + 1 \in 1..n /\ s[j + 1] = L[k + 1]
        OBVIOUS
      <4>1. base + (k + 1) = j + 1
        BY <3>2, <3>4, <3>5
      <4>2. base + (k + 1) \in 1..n /\ s[base + (k + 1)] = L[k + 1]
        BY <3>5
      <4> QED
        BY <4>1, <4>2
    <3>8. /\ s[j][1] \in LoadKinds
          /\ s[j][1] = "tear" => s[j][2] = "E3" /\ j + 1 \in 1..n /\ s[j + 1] = <<"generate", "E3">>
          /\ s[j][1] = "measure" => s[j][2] = "E7" /\ j + 1 \in 1..n /\ s[j + 1] = <<"generate", "E7">>
      BY <3>3, <3>6, <3>7 DEF LoadsWell
    <3>c. ASSUME NEW f, \E l \in 1..(k - 1) : L[l] \in Reads(f) PROVE \E l \in 1..(j - 1) : s[l] \in Reads(f)
      <4>1. PICK l \in 1..(k - 1) : L[l] \in Reads(f)
        BY <3>c
      <4>2. base + l \in 1..(j - 1) /\ s[base + l] \in Reads(f)
        BY <3>6, <4>1
      <4> QED
        BY <4>2
    <3>9. ASSUME s[j][1] = "check"
          PROVE  s[j][2] \in DOMAIN Alike /\ \A f \in Alike[s[j][2]] : \E l \in 1..(j - 1) : s[l] \in Reads(f)
      <4>1. L[k][1] = "check" => L[k][2] = e /\ e \in DOMAIN Alike /\ \A f \in Alike[e] : \E l \in 1..(k - 1) : L[l] \in Reads(f)
        BY <3>3, Zenon DEF LoadsWell
      <4>2. s[j] = L[k]
        BY <3>6
      <4> QED
        BY <3>c, <3>9, <4>1, <4>2, Zenon
    <3>10. ASSUME s[j][1] = "generate"
           PROVE  s[j][2] \in DOMAIN GeneratedOf /\ \A f \in FilesOf(s[j][2]) : \E l \in 1..(j - 1) : s[l] \in Reads(f)
      <4>1. L[k][1] = "generate" => L[k][2] = e /\ e \in DOMAIN GeneratedOf /\ \A f \in FilesOf(e) : \E l \in 1..(k - 1) : L[l] \in Reads(f)
        BY <3>3, Zenon DEF LoadsWell
      <4>2. s[j] = L[k]
        BY <3>6
      <4> QED
        BY <3>c, <3>10, <4>1, <4>2, Zenon
    <3> QED
      BY <3>8, <3>9, <3>10
  <2> QED
    BY <2>1, <2>2
<1> HIDE DEF s, n
<1>4. LoadOrder(config, s, n)
    BY <1>2, <1>3 DEF LoadOrder
<1> QED
    BY <1>4 DEF s, n

\* The steps after the readings.
WriteOrder(config, s, n) ==
    /\ s \in Seq(StepSet) /\ n \in Nat \ {0} /\ n + 1 < Len(s)
    /\ s[1] = <<"parse", "generator">> /\ s[n + 1] = <<"hash", "generator">> /\ s[Len(s)] = <<"manifest", "manifest">>
    /\ \A j \in (n + 2)..(Len(s) - 1) :
          (\E x : s[j] = <<"write", x>> /\ Written(config, x)) \/ (\E x : s[j] = <<"rehash", x>> /\ Rehashed(config, x))
    /\ \A x : Written(config, x) => \E j \in (n + 2)..(Len(s) - 1) : s[j] = <<"write", x>>
    /\ \A x : Rehashed(config, x) => \E j \in (n + 2)..(Len(s) - 1) : s[j] = <<"rehash", x>>

LEMMA WritesOrdered ==
    ASSUME NEW config \in Seq(DOMAIN LoadSteps)
    PROVE  WriteOrder(config, StepsOf(config), LastLoad(config))
<1> DEFINE s == StepsOf(config)
           n == LastLoad(config)
           w == WritesOf(config)
           r == RehashesOf(config)
           flat == FlattenSeq(Singles(config, TableOf, "write"))
<1>1. /\ s \in Seq(StepSet) /\ w \in Seq(StepSet) /\ r \in Seq(StepSet) /\ n \in Nat \ {0}
      /\ s[1] = <<"parse", "generator">> /\ s[n + 1] = <<"hash", "generator">> /\ s[Len(s)] = <<"manifest", "manifest">>
      /\ From(s, n + 1, w) /\ From(s, n + 1 + Len(w), r) /\ Len(s) = n + 1 + Len(w) + Len(r) + 1
      /\ Len(w) \in Nat /\ Len(r) \in Nat
  <2>1. LoadParts(config) \in Seq(StepSet)
    BY StepParts
  <2> QED
    BY <2>1, StepParts DEF LastLoad
<1>2. flat \in Seq(StepSet) /\ SinglesAre(config, TableOf, "write", flat)
  <2>1. \A e \in DOMAIN TableOf : <<"write", TableOf[e]>> \in StepSet
    BY DEF StepSet, Names, Tables
  <2> QED
    BY <2>1, SinglesFlat
<1>3. SinglesAre(config, GeneratedOf, "rehash", r)
  <2>0. \A e \in DOMAIN GeneratedOf : GeneratedOf[e] \in Generated
    BY DEF GeneratedOf, Generated
  <2>1. \A e \in DOMAIN GeneratedOf : <<"rehash", GeneratedOf[e]>> \in StepSet
    BY <2>0 DEF StepSet, Names
  <2>2. r = FlattenSeq(Singles(config, GeneratedOf, "rehash"))
    BY DEF RehashesOf, Singles
  <2> QED
    BY <2>1, <2>2, SinglesFlat
<1>4. w = flat \o <<<<"write", "claims">>>>
    BY DEF WritesOf, Singles
<1>5. /\ \A j \in 1..Len(w) : \E x : w[j] = <<"write", x>> /\ Written(config, x)
      /\ \A x : Written(config, x) => \E j \in 1..Len(w) : w[j] = <<"write", x>>
  <2> DEFINE c == <<<<"write", "claims">>>>
  <2>1. c \in Seq(StepSet) /\ Len(c) = 1 /\ c[1] = <<"write", "claims">>
    <3>1. <<"write", "claims">> \in StepSet
      BY DEF StepSet, Names, Tables
    <3> QED
      BY <3>1, OneStep
  <2> HIDE DEF c, flat, w
  <2>2. /\ Len(flat) \in Nat /\ Len(w) = Len(flat) + 1
        /\ \A j \in 1..(Len(flat) + 1) : w[j] = IF j <= Len(flat) THEN flat[j] ELSE c[j - Len(flat)]
    BY <1>2, <1>4, <2>1, ConcatProperties DEF c
  <2>3. w[Len(flat) + 1] = <<"write", "claims">> /\ \A j \in 1..Len(flat) : w[j] = flat[j]
    BY <2>1, <2>2
  <2>4. ASSUME NEW j \in 1..Len(w) PROVE \E x : w[j] = <<"write", x>> /\ Written(config, x)
    <3>1. CASE j = Len(flat) + 1
      BY <2>3, <3>1 DEF Written
    <3>2. CASE j \in 1..Len(flat)
      <4>1. PICK i \in DOMAIN config : config[i] \in DOMAIN TableOf /\ flat[j] = <<"write", TableOf[config[i]]>>
        BY <1>2, <3>2 DEF SinglesAre
      <4>2. Written(config, TableOf[config[i]])
        BY <4>1 DEF Written
      <4> QED
        BY <2>3, <3>2, <4>1, <4>2
    <3> QED
      BY <2>2, <3>1, <3>2
  <2>5. ASSUME NEW x, Written(config, x) PROVE \E j \in 1..Len(w) : w[j] = <<"write", x>>
    <3>1. CASE x = "claims"
      <4>1. Len(flat) + 1 \in 1..Len(w)
        BY <2>2
      <4> QED
        BY <2>3, <3>1, <4>1
    <3>2. CASE \E i \in DOMAIN config : config[i] \in DOMAIN TableOf /\ x = TableOf[config[i]]
      <4>1. PICK j \in 1..Len(flat) : flat[j] = <<"write", x>>
        BY <1>2, <3>2 DEF SinglesAre
      <4>2. j \in 1..Len(w)
        BY <2>2
      <4> QED
        BY <2>3, <4>1, <4>2
    <3> QED
      BY <2>5, <3>1, <3>2 DEF Written
  <2> QED
    BY <2>4, <2>5
<1> HIDE DEF s, n, w, r, flat
<1> DEFINE p == n + 1 + Len(w)
<1>6. /\ p \in Nat /\ Len(s) - 1 = p + Len(r) /\ Len(s) \in Nat /\ p = (n + 1) + Len(w)
      /\ \A j \in 1..Len(w) : s[(n + 1) + j] = w[j]
      /\ \A j \in 1..Len(r) : s[p + j] = r[j]
    BY <1>1 DEF From
<1> HIDE DEF p
<1>7. /\ \A j \in 1..Len(w) : (n + 1) + j \in (n + 2)..(Len(s) - 1)
      /\ \A j \in 1..Len(r) : p + j \in (n + 2)..(Len(s) - 1)
    BY <1>1, <1>6
<1>8. ASSUME NEW j \in (n + 2)..(Len(s) - 1)
      PROVE  (\E x : s[j] = <<"write", x>> /\ Written(config, x)) \/ (\E x : s[j] = <<"rehash", x>> /\ Rehashed(config, x))
  <2>1. CASE j <= p
    <3>1. j - (n + 1) \in 1..Len(w) /\ (n + 1) + (j - (n + 1)) = j
      BY <1>1, <1>6, <2>1
    <3>2. s[j] = w[j - (n + 1)]
      BY <1>6, <3>1
    <3> QED
      BY <1>5, <3>1, <3>2
  <2>2. CASE ~(j <= p)
    <3>1. j - p \in 1..Len(r) /\ p + (j - p) = j
      BY <1>1, <1>6, <2>2
    <3>2. PICK i \in DOMAIN config : config[i] \in DOMAIN GeneratedOf /\ r[j - p] = <<"rehash", GeneratedOf[config[i]]>>
      BY <1>3, <3>1 DEF SinglesAre
    <3>3. s[j] = <<"rehash", GeneratedOf[config[i]]>> /\ Rehashed(config, GeneratedOf[config[i]])
      <4>1. s[j] = r[j - p]
        BY <1>6, <3>1
      <4> QED
        BY <3>2, <4>1 DEF Rehashed
    <3> QED
      BY <3>3
  <2> QED
    BY <2>1, <2>2
<1>9. n + 1 < Len(s)
    BY <1>1
<1>10. ASSUME NEW x, Written(config, x) PROVE \E j \in (n + 2)..(Len(s) - 1) : s[j] = <<"write", x>>
  <2>1. PICK j \in 1..Len(w) : w[j] = <<"write", x>>
    BY <1>5, <1>10
  <2> QED
    BY <1>6, <1>7, <2>1
<1>11. ASSUME NEW x, Rehashed(config, x) PROVE \E j \in (n + 2)..(Len(s) - 1) : s[j] = <<"rehash", x>>
  <2>1. PICK j \in 1..Len(r) : r[j] = <<"rehash", x>>
    BY <1>3, <1>11 DEF SinglesAre, Rehashed
  <2> QED
    BY <1>6, <1>7, <2>1
<1>12. WriteOrder(config, s, n)
    BY <1>1, <1>8, <1>9, <1>10, <1>11 DEF WriteOrder
<1> QED
    BY <1>12 DEF s, n

-----------------------------------------------------------------------------
(* The inductive invariant of the builds: of a build that has been alone and  *)
(* whose inputs have stayed, what it holds and what it wrote is of the inputs; *)
(* of a manifest of such a build, what it names is of the inputs it names.     *)

\* What a file of the report says agrees with the inputs and the measurement.
FileRight(x, says, in, gas, config) ==
    /\ says # Torn
    /\ x \in Tables => says.code = in["generator"]
    /\ \A e \in DOMAIN TableOf : x = TableOf[e] => \A f \in FilesOf(e) : says.of[f] = in[f]
    /\ x = "E3_generated" => says.of["E3_artifacts"] = in["E3_artifacts"]
    /\ x = "claims" => \A e \in says.claimed : e \in DOMAIN Judged /\ Contains(config, e) /\ Agree(in, Judged[e])
    /\ x \in {"T12", "E7_generated"} => says.gas = gas

\* The parts of what holds of a steady build that has done d of its steps s.
TakenWell(s, d, taken, in, kind) ==
    /\ \A f \in DOMAIN taken : taken[f] = in[f]
    /\ \A j \in 1..d : s[j][1] \in {kind, "both"} => s[j][2] \in DOMAIN taken

CheckedWell(s, d, in) == \A j \in 1..d : s[j][1] = "check" => Agree(in, Alike[s[j][2]])

WroteWell(config, s, d, wrote, in, gas) ==
    /\ \A j \in 1..d : s[j][1] \in {"write", "rehash"} => s[j][2] \in DOMAIN wrote
    /\ \A x \in DOMAIN wrote :
          /\ d > LastLoad(config) + 1
          /\ Written(config, x) \/ Rehashed(config, x)
          /\ FileRight(x, wrote[x], in, gas, config)

Undone(step, e) == step \in {<<"tear", e>>, <<"measure", e>>}
Made(s, d, e) == (\E j \in 1..d : s[j] = <<"generate", e>>) /\ ~Undone(s[d], e)

MadeWell(config, s, d, files, in, gas) ==
    \A e \in DOMAIN GeneratedOf :
       Made(s, d, e) => FileRight(GeneratedOf[e], files[GeneratedOf[e]], in, gas, config)

SteadyWell(w, in, files) ==
    LET s == StepsOf(w.config)
    IN  /\ TakenWell(s, w.done, w.parsed, in, "parse")
        /\ TakenWell(s, w.done, w.hashed, in, "hash")
        /\ CheckedWell(s, w.done, in)
        /\ WroteWell(w.config, s, w.done, w.wrote, in, w.measured)
        /\ MadeWell(w.config, s, w.done, files, in, w.measured)

\* What a manifest of a steady build says of the outputs it names.
ManifestWell(h, o) ==
    /\ "generator" \in DOMAIN h /\ "claims" \in DOMAIN o
    /\ \A x \in DOMAIN o : o[x] # Torn /\ (x \in Tables => o[x].code = h["generator"])
    /\ \A e \in DOMAIN TableOf : TableOf[e] \in DOMAIN o =>
          /\ FilesOf(e) \subseteq DOMAIN h
          /\ \A f \in FilesOf(e) : o[TableOf[e]].of[f] = h[f]
          /\ e \in DOMAIN Alike => Agree(h, Alike[e])
    /\ "E3_generated" \in DOMAIN o =>
          /\ FilesOf("E3") \subseteq DOMAIN h
          /\ o["E3_generated"].of["E3_artifacts"] = h["E3_artifacts"]
          /\ Agree(h, Alike["E3"])
    /\ \A e \in o["claims"].claimed :
          e \in DOMAIN Judged /\ TableOf[e] \in DOMAIN o /\ FilesOf(e) \subseteq DOMAIN h /\ Agree(h, Judged[e])
    /\ ("T12" \in DOMAIN o) = ("E7_generated" \in DOMAIN o)
    /\ "T12" \in DOMAIN o => o["T12"].gas = o["E7_generated"].gas

WorkFields == {"at", "config", "done", "parsed", "hashed", "wrote", "measured", "steady"}

Shaped ==
    /\ DOMAIN root = {"files", "manifest", "litter"} /\ DOMAIN root.files = Tables \cup Generated
    /\ DOMAIN build = Builders
    /\ \A b \in Builders : Working(b) =>
          /\ DOMAIN build[b] = WorkFields
          /\ build[b].config \in Configured /\ build[b].done \in Nat /\ build[b].done < Len(StepsOf(build[b].config))
          /\ build[b].steady \in BOOLEAN

Steady(b) == Working(b) /\ build[b].steady

Alone == \A b, other \in Builders : Steady(b) /\ Working(other) => other = b

BuildsWell == \A b \in Builders : Steady(b) => SteadyWell(build[b], input, root.files)

ManifestsWell ==
    root.manifest # Missing /\ root.manifest.steady => ManifestWell(root.manifest.inputs, root.manifest.outputs)

ReportInvariant == Shaped /\ Alone /\ BuildsWell /\ ManifestsWell

-----------------------------------------------------------------------------

LEMMA StepKinds ==
    ASSUME NEW config \in Seq(DOMAIN LoadSteps), NEW s, s = StepsOf(config),
           NEW d \in Nat, d < Len(s)
    PROVE  LET n == LastLoad(config)
               k == s[d + 1][1]
           IN  /\ n \in Nat \ {0} /\ Len(s) \in Nat
               /\ k \in LoadKinds \ {"hash"} => d + 1 <= n
               /\ k = "hash" => d + 1 <= n + 1
               /\ k \in LoadKinds => d + 1 < Len(s)
               /\ k \in {"write", "rehash"} => n + 1 <= d /\ d + 1 < Len(s)
               /\ k = "write" => Written(config, s[d + 1][2])
               /\ k = "rehash" => Rehashed(config, s[d + 1][2])
               /\ k = "manifest" => d + 1 = Len(s)
               /\ \A e \in DOMAIN GeneratedOf : d > 0 /\ Undone(s[d], e) => s[d + 1] = <<"generate", e>>
<1> DEFINE n == LastLoad(config)
           k == s[d + 1][1]
<1>1. LoadOrder(config, s, n) /\ WriteOrder(config, s, n)
    BY LoadsOrdered, WritesOrdered
<1> HIDE DEF n
<1>2. n \in Nat \ {0} /\ Len(s) \in Nat /\ n + 1 < Len(s)
    BY <1>1 DEF WriteOrder
<1>3. CASE d + 1 <= n
  <2>1. d + 1 \in 1..n
    BY <1>2, <1>3
  <2>2. k \in LoadKinds
    BY <1>1, <2>1 DEF LoadOrder
  <2>3. k \notin {"write", "rehash", "manifest"}
    BY <2>2 DEF LoadKinds
  <2>4. d + 1 < Len(s)
    BY <1>2, <1>3
  <2>5. ASSUME NEW e \in DOMAIN GeneratedOf, d > 0, Undone(s[d], e) PROVE s[d + 1] = <<"generate", e>>
    <3>1. d \in 1..n
      BY <1>2, <1>3, <2>5
    <3>2. s[d] = <<"tear", e>> \/ s[d] = <<"measure", e>>
      BY <2>5 DEF Undone
    <3>3. (s[d][1] = "tear" /\ s[d][2] = e) \/ (s[d][1] = "measure" /\ s[d][2] = e)
      BY <3>2
    <3> QED
      BY <1>1, <3>1, <3>3 DEF LoadOrder
  <2> QED
    BY <1>2, <1>3, <2>3, <2>4, <2>5 DEF n
<1>4. CASE ~(d + 1 <= n)
  <2>1. ASSUME NEW e \in DOMAIN GeneratedOf, d > 0, Undone(s[d], e) PROVE FALSE
    <3>1. s[d][1] \in {"tear", "measure"}
      BY <2>1 DEF Undone
    <3>2. CASE d = n
      BY <1>1, <1>2, <3>1, <3>2 DEF LoadOrder
    <3>3. CASE d = n + 1
      BY <1>1, <3>1, <3>3 DEF WriteOrder
    <3>4. CASE d \in (n + 2)..(Len(s) - 1)
      <4>1. (\E x : s[d] = <<"write", x>>) \/ (\E x : s[d] = <<"rehash", x>>)
        BY <1>1, <3>4 DEF WriteOrder
      <4>2. s[d][1] \in {"write", "rehash"}
        BY <4>1
      <4> QED
        BY <3>1, <4>2
    <3> QED
      BY <1>2, <1>4, <3>2, <3>3, <3>4
  <2>2. CASE d = n
    <3>1. k = "hash"
      BY <1>1, <2>2 DEF WriteOrder
    <3> QED
      BY <1>2, <2>1, <2>2, <3>1 DEF n
  <2>3. CASE d + 1 \in (n + 2)..(Len(s) - 1)
    <3>1. \/ \E x : s[d + 1] = <<"write", x>> /\ Written(config, x)
          \/ \E x : s[d + 1] = <<"rehash", x>> /\ Rehashed(config, x)
      BY <1>1, <2>3 DEF WriteOrder
    <3>2. (k = "write" /\ Written(config, s[d + 1][2])) \/ (k = "rehash" /\ Rehashed(config, s[d + 1][2]))
      BY <3>1
    <3>3. n + 1 <= d /\ d + 1 < Len(s)
      BY <1>2, <2>3
    <3>4. k \notin LoadKinds /\ k # "manifest"
      BY <3>2 DEF LoadKinds
    <3> QED
      BY <1>2, <2>1, <3>2, <3>3, <3>4 DEF n, LoadKinds
  <2>4. CASE d + 1 = Len(s)
    <3>1. k = "manifest"
      BY <1>1, <2>4 DEF WriteOrder
    <3>2. k \notin LoadKinds /\ k \notin {"write", "rehash", "hash"}
      BY <3>1 DEF LoadKinds
    <3> QED
      BY <1>2, <2>1, <2>4, <3>1, <3>2 DEF n
  <2> QED
    BY <1>2, <1>4, <2>2, <2>3, <2>4
<1> QED
    BY <1>3, <1>4

-----------------------------------------------------------------------------

LEMMA OneMore == \A d \in Nat : \A j \in 1..(d + 1) : j = d + 1 \/ j \in 1..d
  OBVIOUS

LEMMA TakenKept ==
    ASSUME NEW s, NEW d \in Nat, NEW taken, NEW in, NEW kind, TakenWell(s, d, taken, in, kind),
           s[d + 1][1] \notin {kind, "both"}
    PROVE  TakenWell(s, d + 1, taken, in, kind)
  BY OneMore DEF TakenWell

LEMMA TakenMore ==
    ASSUME NEW s, NEW d \in Nat, NEW taken, NEW in, NEW kind, TakenWell(s, d, taken, in, kind)
    PROVE  TakenWell(s, d + 1, With(taken, s[d + 1][2], in[s[d + 1][2]]), in, kind)
  BY OneMore DEF TakenWell, With

LEMMA CheckedKept ==
    ASSUME NEW s, NEW d \in Nat, NEW in, CheckedWell(s, d, in),
           s[d + 1][1] = "check" => Agree(in, Alike[s[d + 1][2]])
    PROVE  CheckedWell(s, d + 1, in)
  BY OneMore DEF CheckedWell

LEMMA WroteNothing ==
    ASSUME NEW config, NEW s, NEW d \in Nat, NEW wrote, NEW in, NEW gas, NEW gas2,
           WroteWell(config, s, d, wrote, in, gas), LastLoad(config) \in Nat, d <= LastLoad(config),
           s[d + 1][1] \notin {"write", "rehash"}
    PROVE  WroteWell(config, s, d + 1, wrote, in, gas2)
<1>1. \A x \in DOMAIN wrote : FALSE
    BY DEF WroteWell
<1> QED
    BY <1>1, OneMore DEF WroteWell

LEMMA WroteMore ==
    ASSUME NEW config, NEW s, NEW d \in Nat, NEW wrote, NEW in, NEW gas, NEW says,
           WroteWell(config, s, d, wrote, in, gas), LastLoad(config) \in Nat, LastLoad(config) + 1 <= d,
           Written(config, s[d + 1][2]) \/ Rehashed(config, s[d + 1][2]),
           FileRight(s[d + 1][2], says, in, gas, config)
    PROVE  WroteWell(config, s, d + 1, With(wrote, s[d + 1][2], says), in, gas)
<1> DEFINE x == s[d + 1][2]
           wrote2 == With(wrote, x, says)
<1>1. DOMAIN wrote2 = DOMAIN wrote \cup {x} /\ wrote2[x] = says /\ \A y \in DOMAIN wrote : y # x => wrote2[y] = wrote[y]
    BY DEF With
<1> HIDE DEF wrote2
<1>2. \A j \in 1..(d + 1) : s[j][1] \in {"write", "rehash"} => s[j][2] \in DOMAIN wrote2
    BY <1>1, OneMore DEF WroteWell
<1>3. ASSUME NEW y \in DOMAIN wrote2
      PROVE  /\ d + 1 > LastLoad(config) + 1
             /\ Written(config, y) \/ Rehashed(config, y)
             /\ FileRight(y, wrote2[y], in, gas, config)
  <2>1. CASE y = x
    BY <1>1, <2>1
  <2>2. CASE y # x
    BY <1>1, <2>2 DEF WroteWell
  <2> QED
    BY <2>1, <2>2
<1> QED
    BY <1>2, <1>3 DEF WroteWell, wrote2

LEMMA MadeStep ==
    ASSUME NEW config, NEW s, NEW d \in Nat, NEW files, NEW files2, NEW in, NEW gas, NEW gas2,
           MadeWell(config, s, d, files, in, gas),
           \A e \in DOMAIN GeneratedOf :
              \/ Undone(s[d + 1], e)
              \/ FileRight(GeneratedOf[e], files2[GeneratedOf[e]], in, gas2, config)
              \/ /\ s[d + 1] # <<"generate", e>>
                 /\ d > 0 => ~Undone(s[d], e)
                 /\ FileRight(GeneratedOf[e], files[GeneratedOf[e]], in, gas, config) =>
                       FileRight(GeneratedOf[e], files2[GeneratedOf[e]], in, gas2, config)
    PROVE  MadeWell(config, s, d + 1, files2, in, gas2)
<1> SUFFICES ASSUME NEW e \in DOMAIN GeneratedOf, Made(s, d + 1, e)
             PROVE  FileRight(GeneratedOf[e], files2[GeneratedOf[e]], in, gas2, config)
    BY DEF MadeWell
<1>1. ~Undone(s[d + 1], e)
    BY DEF Made
<1>2. CASE s[d + 1] # <<"generate", e>> /\ (d > 0 => ~Undone(s[d], e))
  <2>1. PICK j \in 1..(d + 1) : s[j] = <<"generate", e>>
    BY DEF Made
  <2>2. j \in 1..d
    BY <1>2, <2>1, OneMore
  <2>3. Made(s, d, e)
    BY <1>2, <2>1, <2>2 DEF Made
  <2> QED
    BY <1>1, <1>2, <2>3 DEF MadeWell
<1> QED
    BY <1>1, <1>2

LEMMA TableNames ==
    /\ DOMAIN TableOf = {"E1", "E2", "E4", "E5", "E6", "E7", "E8"}
    /\ \A e, g \in DOMAIN TableOf : TableOf[e] = TableOf[g] => e = g
    /\ \A e \in DOMAIN TableOf : TableOf[e] # "claims" /\ TableOf[e] \notin Generated /\ (TableOf[e] = "T12" => e = "E7")
    /\ TableOf["E7"] = "T12" /\ "claims" \notin Generated
    /\ Tables \cap Generated = {} /\ "claims" \in Tables /\ \A e \in DOMAIN TableOf : TableOf[e] \in Tables
    /\ DOMAIN GeneratedOf = {"E3", "E7"} /\ GeneratedOf["E3"] = "E3_generated" /\ GeneratedOf["E7"] = "E7_generated"
    /\ Generated = {"E3_generated", "E7_generated"}
<1>1. TableOf \in [{"E1", "E2", "E4", "E5", "E6", "E7", "E8"} -> {"T6", "T7", "T9", "T10", "T11", "T12", "T13"}]
    BY DEF TableOf
<1>2. \A e, g \in DOMAIN TableOf : TableOf[e] = TableOf[g] => e = g
    BY DEF TableOf
<1>3. \A e \in DOMAIN TableOf : TableOf[e] # "claims" /\ TableOf[e] \notin Generated /\ (TableOf[e] = "T12" => e = "E7")
    BY DEF TableOf, Generated
<1>4. TableOf["E7"] = "T12"
    BY DEF TableOf
<1> QED
    BY <1>1, <1>2, <1>3, <1>4 DEF Tables, Generated, GeneratedOf

LEMMA NotTorn ==
    /\ \A x : [of |-> x] # Torn
    /\ \A x : [gas |-> x] # Torn
    /\ \A x, y : [claimed |-> x, code |-> y] # Torn
    /\ \A x, y : [of |-> x, code |-> y] # Torn
    /\ \A x, y, z : [gas |-> x, of |-> y, code |-> z] # Torn
<1>1. DOMAIN Torn = {"is"}
    BY DEF Torn
<1>2. ASSUME NEW x, NEW y, NEW z
      PROVE  /\ "is" \notin DOMAIN [of |-> x] /\ "is" \notin DOMAIN [gas |-> x]
             /\ "is" \notin DOMAIN [claimed |-> x, code |-> y] /\ "is" \notin DOMAIN [of |-> x, code |-> y]
             /\ "is" \notin DOMAIN [gas |-> x, of |-> y, code |-> z]
    OBVIOUS
<1> QED
    BY <1>1, <1>2

LEMMA ContentRight ==
    ASSUME NEW b, NEW x \in Tables \cup Generated,
           \A f \in DOMAIN build[b].parsed : build[b].parsed[f] = input[f],
           x \in Tables => "generator" \in DOMAIN build[b].parsed,
           x \in Tables => \A e \in DOMAIN Judged : Contains(build[b].config, e) => Judged[e] \subseteq DOMAIN build[b].parsed,
           \A e \in DOMAIN TableOf : x = TableOf[e] => FilesOf(e) \subseteq DOMAIN build[b].parsed,
           x = "E3_generated" => FilesOf("E3") \subseteq DOMAIN build[b].parsed
    PROVE  FileRight(x, Content(b, x), input, build[b].measured, build[b].config)
<1> DEFINE parsed == build[b].parsed
           gas == build[b].measured
           Held(e) == [f \in FilesOf(e) |-> parsed[f]]
           says == Content(b, x)
<1>1. \A e : \A f \in FilesOf(e) : Held(e)[f] = parsed[f]
    OBVIOUS
<1>2. CASE x = "E3_generated"
  <2>1. says = [of |-> Held("E3")]
    BY <1>2 DEF Content
  <2>2. says # Torn
    BY <2>1, NotTorn
  <2>3. "E3_artifacts" \in FilesOf("E3")
    BY FilesLoaded
  <2>4. says.of["E3_artifacts"] = input["E3_artifacts"]
    BY <1>1, <1>2, <2>1, <2>3
  <2> HIDE DEF says
  <2>5. x \notin Tables
    BY <1>2, TableNames
  <2> QED
    BY <1>2, <2>2, <2>4, <2>5, TableNames DEF FileRight, says
<1>3. CASE x = "E7_generated"
  <2>1. says = [gas |-> gas]
    BY <1>3 DEF Content
  <2>2. says # Torn /\ says.gas = gas
    BY <2>1, NotTorn
  <2>3. x \notin Tables
    BY <1>3, TableNames
  <2> HIDE DEF says
  <2> QED
    BY <1>3, <2>2, <2>3, TableNames DEF FileRight, says
<1>4. CASE x = "claims"
  <2> DEFINE claimed == {e \in DOMAIN Judged : Contains(build[b].config, e) /\ Agree(parsed, Judged[e])}
  <2>1. says = [claimed |-> claimed, code |-> parsed["generator"]]
    BY <1>4 DEF Content
  <2>2. says # Torn /\ says.claimed = claimed /\ says.code = parsed["generator"]
    BY <2>1, NotTorn
  <2> HIDE DEF says
  <2>3. says.code = input["generator"]
    BY <1>4, <2>2, TableNames
  <2>4. ASSUME NEW e \in claimed PROVE e \in DOMAIN Judged /\ Contains(build[b].config, e) /\ Agree(input, Judged[e])
    <3>1. Judged[e] \subseteq DOMAIN parsed /\ Agree(parsed, Judged[e])
      BY <1>4, TableNames
    <3>2. Agree(input, Judged[e])
      BY <3>1 DEF Agree
    <3> QED
      BY <3>2
  <2> QED
    BY <1>4, <2>2, <2>3, <2>4, TableNames DEF FileRight, says
<1>5. CASE x = "T12"
  <2>1. says = [gas |-> gas, of |-> Held("E7"), code |-> parsed["generator"]]
    BY <1>5 DEF Content
  <2>2. says # Torn /\ says.gas = gas /\ says.of = Held("E7") /\ says.code = parsed["generator"]
    BY <2>1, NotTorn
  <2> HIDE DEF says
  <2>3. x \in Tables
    BY <1>5, TableNames
  <2>4. says.code = input["generator"] /\ \A f \in FilesOf("E7") : says.of[f] = input[f]
    BY <1>1, <1>5, <2>2, <2>3, TableNames
  <2> QED
    BY <1>5, <2>2, <2>4, TableNames DEF FileRight, says
<1>6. CASE x \notin {"E3_generated", "E7_generated", "claims", "T12"}
  <2>1. PICK e \in DOMAIN TableOf : TableOf[e] = x
    BY <1>6, TableNames DEF Tables
  <2>2. e = CHOOSE g \in DOMAIN TableOf : TableOf[g] = x
    BY <2>1, TableNames
  <2>3. says = [of |-> Held(CHOOSE g \in DOMAIN TableOf : TableOf[g] = x), code |-> parsed["generator"]]
    BY <1>6 DEF Content
  <2> HIDE DEF says
  <2>4. says = [of |-> Held(e), code |-> parsed["generator"]]
    BY <2>2, <2>3
  <2>5. says # Torn /\ says.of = Held(e) /\ says.code = parsed["generator"]
    BY <2>4, NotTorn
  <2>6. says.code = input["generator"] /\ \A f \in FilesOf(e) : says.of[f] = input[f]
    BY <1>1, <2>1, <2>5, TableNames
  <2> QED
    BY <1>6, <2>1, <2>5, <2>6, TableNames DEF FileRight, says
<1> QED
    BY <1>2, <1>3, <1>4, <1>5, <1>6

-----------------------------------------------------------------------------

LEMMA ConfiguredSteps ==
    ASSUME Shaped, NEW b \in Builders, Working(b)
    PROVE  LET w == build[b]
               s == StepsOf(w.config)
           IN  /\ w.config \in Seq(DOMAIN LoadSteps) /\ w.done \in Nat /\ w.done < Len(s)
               /\ s[w.done + 1] = Step(b)
  BY ReportAssumption DEF Shaped, Step, ValidSources

\* Build b does its next step, not its last, and nothing else moves but files it writes.
GoesOn(b) ==
    /\ DOMAIN build' = Builders /\ \A a \in Builders : a # b => build'[a] = build[a]
    /\ DOMAIN build'[b] = WorkFields /\ build'[b].at = "work"
    /\ build'[b].config = build[b].config /\ build'[b].steady = build[b].steady
    /\ build'[b].done = build[b].done + 1 /\ build'[b].done < Len(StepsOf(build[b].config))
    /\ input' = input /\ DOMAIN root' = DOMAIN root /\ DOMAIN root'.files = DOMAIN root.files
    /\ root'.manifest = root.manifest

LEMMA StepAlone ==
    ASSUME ReportInvariant, NEW b \in Builders, Working(b), GoesOn(b),
           build[b].steady => SteadyWell(build'[b], input, root'.files)
    PROVE  ReportInvariant'
<1> USE DEF GoesOn
<1>1. \A a \in Builders : (Working(a)' <=> Working(a)) /\ build'[a].steady = build[a].steady
    BY DEF Working
<1>2. Shaped'
  <2>1. DOMAIN root' = {"files", "manifest", "litter"} /\ DOMAIN root'.files = Tables \cup Generated
    BY DEF ReportInvariant, Shaped
  <2>2. ASSUME NEW a \in Builders, Working(a)'
        PROVE  /\ DOMAIN build'[a] = WorkFields
               /\ build'[a].config \in Configured /\ build'[a].done \in Nat
               /\ build'[a].done < Len(StepsOf(build'[a].config))
               /\ build'[a].steady \in BOOLEAN
    <3>1. CASE a = b
      BY <3>1 DEF ReportInvariant, Shaped
    <3>2. CASE a # b
      BY <1>1, <2>2, <3>2 DEF ReportInvariant, Shaped
    <3> QED
      BY <3>1, <3>2
  <2> QED
    BY <2>1, <2>2 DEF Shaped
<1>3. \A a \in Builders : Steady(a)' <=> Steady(a)
    BY <1>1 DEF Steady
<1>4. Alone'
    BY <1>1, <1>3 DEF ReportInvariant, Alone
<1>5. BuildsWell'
  <2>1. ASSUME NEW a \in Builders, Steady(a)' PROVE SteadyWell(build'[a], input', root'.files)
    <3>1. a = b
      BY <1>3, <2>1 DEF ReportInvariant, Alone
    <3> QED
      BY <1>3, <2>1, <3>1 DEF Steady
  <2> QED
    BY <2>1 DEF BuildsWell
<1>6. ManifestsWell'
    BY DEF ReportInvariant, ManifestsWell
<1> QED
    BY <1>2, <1>4, <1>5, <1>6 DEF ReportInvariant

\* A build that has stopped leaves the others and what they hold as they were.
LEMMA StopAlone ==
    ASSUME ReportInvariant, NEW b \in Builders, Stop(b),
           input' = input, DOMAIN root' = DOMAIN root, root'.files = root.files,
           ManifestsWell'
    PROVE  ReportInvariant'
<1>1. DOMAIN build' = Builders /\ build'[b] = Resting /\ \A a \in Builders : a # b => build'[a] = build[a]
    BY DEF Stop, ReportInvariant, Shaped
<1>2. ~Working(b)' /\ \A a \in Builders : a # b => (Working(a)' <=> Working(a)) /\ (Steady(a)' <=> Steady(a))
    BY <1>1 DEF Working, Steady, Resting
<1>3. Shaped'
  <2>1. DOMAIN root' = {"files", "manifest", "litter"} /\ DOMAIN root'.files = Tables \cup Generated
    BY DEF ReportInvariant, Shaped
  <2>2. ASSUME NEW a \in Builders, Working(a)' PROVE build'[a] = build[a] /\ Working(a)
    BY <1>1, <1>2, <2>2
  <2> QED
    BY <1>1, <2>1, <2>2 DEF Shaped, ReportInvariant
<1>4. Alone'
    BY <1>2 DEF Alone, ReportInvariant, Steady
<1>5. BuildsWell'
  <2>1. ASSUME NEW a \in Builders, Steady(a)' PROVE SteadyWell(build'[a], input', root'.files)
    <3>1. a # b /\ Steady(a) /\ build'[a] = build[a]
      BY <1>1, <1>2, <2>1 DEF Steady
    <3> QED
      BY <3>1 DEF ReportInvariant, BuildsWell
  <2> QED
    BY <2>1 DEF BuildsWell
<1> QED
    BY <1>3, <1>4, <1>5 DEF ReportInvariant

LEMMA HoldingIs ==
    ASSUME Shaped, NEW b \in Builders, Working(b), NEW field \in WorkFields, field # "done", NEW value,
           Holding(b, field, value)
    PROVE  /\ DOMAIN build' = Builders /\ \A a \in Builders : a # b => build'[a] = build[a]
           /\ DOMAIN build'[b] = WorkFields
           /\ build'[b].done = build[b].done + 1 /\ build'[b][field] = value
           /\ \A x \in WorkFields : x # "done" /\ x # field => build'[b][x] = build[b][x]
<1>1. DOMAIN build = Builders /\ DOMAIN build[b] = WorkFields /\ "done" \in WorkFields
    BY DEF Shaped, WorkFields
<1>2. build' = [build EXCEPT ![b] = [[build[b] EXCEPT !["done"] = build[b]["done"] + 1] EXCEPT ![field] = value]]
    BY <1>1 DEF Holding
<1> QED
    BY <1>1, <1>2

-----------------------------------------------------------------------------
(* Steps of a build *)

LEMMA StepsPaired ==
    ASSUME NEW config \in Seq(DOMAIN LoadSteps), NEW s, s = StepsOf(config), NEW j \in 1..Len(s)
    PROVE  s[j] = <<s[j][1], s[j][2]>>
<1>1. s \in Seq(StepSet)
    BY WritesOrdered DEF WriteOrder
<1>2. s[j] \in StepSet
    BY <1>1
<1> QED
    BY <1>2 DEF StepSet

LEMMA LoadedFiles == \A e \in DOMAIN LoadSteps :
    /\ e \in DOMAIN Alike => Alike[e] \subseteq FilesOf(e)
    /\ e \in DOMAIN Judged => Judged[e] \subseteq FilesOf(e)
  BY LoadsAreWell DEF LoadsWell

\* What has been parsed before a step that uses it.
LEMMA ParsedBefore ==
    ASSUME NEW config \in Seq(DOMAIN LoadSteps), NEW s, s = StepsOf(config), NEW d \in Nat, d < Len(s),
           NEW taken, NEW in, TakenWell(s, d, taken, in, "parse")
    PROVE  /\ s[d + 1][1] = "check" => s[d + 1][2] \in DOMAIN Alike /\ Alike[s[d + 1][2]] \subseteq DOMAIN taken
           /\ s[d + 1][1] = "generate" =>
                 s[d + 1][2] \in DOMAIN GeneratedOf /\ FilesOf(s[d + 1][2]) \subseteq DOMAIN taken
           /\ LastLoad(config) <= d =>
                 "generator" \in DOMAIN taken /\ \A i \in DOMAIN config : FilesOf(config[i]) \subseteq DOMAIN taken
<1> DEFINE n == LastLoad(config)
<1>1. LoadOrder(config, s, n) /\ WriteOrder(config, s, n)
    BY LoadsOrdered, WritesOrdered
<1>2. s[d + 1][1] \in {"check", "generate"} => d + 1 \in 1..n
  <2>1. n \in Nat /\ (s[d + 1][1] \in LoadKinds \ {"hash"} => d + 1 <= n)
    BY StepKinds
  <2> QED
    BY <2>1 DEF LoadKinds
<1> HIDE DEF n
<1>3. \A j \in 1..d : \A f : s[j] \in Reads(f) => f \in DOMAIN taken
  <2>1. \A j \in 1..d : \A f : s[j] \in Reads(f) => s[j][1] \in {"parse", "both"} /\ s[j][2] = f
    BY DEF Reads
  <2> QED
    BY <2>1 DEF TakenWell
<1>4. n \in Nat \ {0} /\ (d + 1) - 1 = d /\ s[1] = <<"parse", "generator">>
    BY <1>1 DEF WriteOrder
<1>5. ASSUME s[d + 1][1] = "check"
      PROVE  s[d + 1][2] \in DOMAIN Alike /\ Alike[s[d + 1][2]] \subseteq DOMAIN taken
  <2>1. s[d + 1][2] \in DOMAIN Alike /\ \A f \in Alike[s[d + 1][2]] : \E l \in 1..((d + 1) - 1) : s[l] \in Reads(f)
    BY <1>1, <1>2, <1>5 DEF LoadOrder
  <2> QED
    BY <1>3, <1>4, <2>1
<1>6. ASSUME s[d + 1][1] = "generate"
      PROVE  s[d + 1][2] \in DOMAIN GeneratedOf /\ FilesOf(s[d + 1][2]) \subseteq DOMAIN taken
  <2>1. /\ s[d + 1][2] \in DOMAIN GeneratedOf
        /\ \A f \in FilesOf(s[d + 1][2]) : \E l \in 1..((d + 1) - 1) : s[l] \in Reads(f)
    BY <1>1, <1>2, <1>6 DEF LoadOrder
  <2> QED
    BY <1>3, <1>4, <2>1
<1>7. ASSUME n <= d
      PROVE  "generator" \in DOMAIN taken /\ \A i \in DOMAIN config : FilesOf(config[i]) \subseteq DOMAIN taken
  <2>1. 1 \in 1..d /\ \A j \in 1..n : j \in 1..d
    BY <1>4, <1>7
  <2>2. s[1] \in Reads("generator")
    BY <1>4 DEF Reads
  <2>3. \A i \in DOMAIN config : \A f \in FilesOf(config[i]) : \E j \in 1..n : s[j] \in Reads(f)
    BY <1>1 DEF LoadOrder
  <2> QED
    BY <1>3, <2>1, <2>2, <2>3
<1> QED
    BY <1>5, <1>6, <1>7 DEF n

LEMMA HashedBefore ==
    ASSUME NEW config \in Seq(DOMAIN LoadSteps), NEW s, s = StepsOf(config), NEW d \in Nat,
           NEW taken, NEW in, TakenWell(s, d, taken, in, "hash"), LastLoad(config) + 1 <= d
    PROVE  "generator" \in DOMAIN taken /\ \A i \in DOMAIN config : FilesOf(config[i]) \subseteq DOMAIN taken
<1> DEFINE n == LastLoad(config)
<1>1. LoadOrder(config, s, n) /\ WriteOrder(config, s, n)
    BY LoadsOrdered, WritesOrdered
<1>2. \A j \in 1..d : \A f : s[j] \in Hashes(f) => f \in DOMAIN taken
  <2>1. \A j \in 1..d : \A f : s[j] \in Hashes(f) => s[j][1] \in {"hash", "both"} /\ s[j][2] = f
    BY DEF Hashes
  <2> QED
    BY <2>1 DEF TakenWell
<1> HIDE DEF n
<1>3. n \in Nat \ {0} /\ s[n + 1] = <<"hash", "generator">> /\ n + 1 <= d
    BY <1>1 DEF WriteOrder, n
<1>4. n + 1 \in 1..d /\ \A j \in 1..n : j \in 1..d
    BY <1>3
<1>5. s[n + 1] \in Hashes("generator")
    BY <1>3 DEF Hashes
<1>6. \A i \in DOMAIN config : \A f \in FilesOf(config[i]) : \E j \in 1..n : s[j] \in Hashes(f)
    BY <1>1 DEF LoadOrder
<1> QED
    BY <1>2, <1>4, <1>5, <1>6

\* A step that is not the making of a generated output, and leaves them alone.
LEMMA MadeQuiet ==
    ASSUME NEW config \in Seq(DOMAIN LoadSteps), NEW s, s = StepsOf(config), NEW d \in Nat, d < Len(s),
           NEW files, NEW files2, NEW in, NEW gas, MadeWell(config, s, d, files, in, gas),
           s[d + 1][1] # "generate", \A e \in DOMAIN GeneratedOf : files2[GeneratedOf[e]] = files[GeneratedOf[e]]
    PROVE  MadeWell(config, s, d + 1, files2, in, gas)
<1>1. ASSUME NEW e \in DOMAIN GeneratedOf
      PROVE  s[d + 1] # <<"generate", e>> /\ (d > 0 => ~Undone(s[d], e))
  <2>1. s[d + 1] # <<"generate", e>>
    OBVIOUS
  <2> QED
    BY <2>1, StepKinds
<1> QED
    BY <1>1, MadeStep

\* A reading or a check: nothing has been written, and the generated outputs stay.
LEMMA LoadQuiet ==
    ASSUME NEW config \in Seq(DOMAIN LoadSteps), NEW s, s = StepsOf(config), NEW d \in Nat, d < Len(s),
           NEW wrote, NEW files, NEW in, NEW gas,
           WroteWell(config, s, d, wrote, in, gas), MadeWell(config, s, d, files, in, gas),
           s[d + 1][1] \in {"parse", "hash", "both", "check"}
    PROVE  /\ d + 1 < Len(s)
           /\ WroteWell(config, s, d + 1, wrote, in, gas)
           /\ MadeWell(config, s, d + 1, files, in, gas)
<1> DEFINE k == s[d + 1][1]
           n == LastLoad(config)
<1>0. /\ n \in Nat \ {0} /\ (k \in LoadKinds \ {"hash"} => d + 1 <= n) /\ (k = "hash" => d + 1 <= n + 1)
      /\ k \in LoadKinds => d + 1 < Len(s)
    BY StepKinds
<1>1. n \in Nat /\ d <= n /\ d + 1 < Len(s)
  <2>1. k \in LoadKinds
    BY DEF LoadKinds
  <2> HIDE DEF n, k
  <2> QED
    BY <1>0, <2>1
<1>2. WroteWell(config, s, d + 1, wrote, in, gas)
    BY <1>1, WroteNothing
<1>3. MadeWell(config, s, d + 1, files, in, gas)
    BY MadeQuiet
<1> QED
    BY <1>1, <1>2, <1>3

-----------------------------------------------------------------------------

LEMMA ParsePreserves ==
    ASSUME ReportInvariant, NEW b \in Builders, Parse(b)
    PROVE  ReportInvariant'
<1> DEFINE w == build[b]
           s == StepsOf(w.config)
           d == w.done
           r == build'[b]
           f == s[d + 1][2]
<1>1. Working(b) /\ Shaped /\ s[d + 1][1] = "parse" /\ File(b) = f
    BY ConfiguredSteps DEF Parse, Doing, File, ReportInvariant
<1>2. w.config \in Seq(DOMAIN LoadSteps) /\ d \in Nat /\ d < Len(s)
  <2>1. Shaped /\ Working(b)
    BY <1>1, Zenon
  <2> QED
    BY <2>1, ConfiguredSteps
<1>3. /\ DOMAIN build' = Builders /\ \A a \in Builders : a # b => build'[a] = build[a]
      /\ DOMAIN r = WorkFields
      /\ r.done = d + 1 /\ r.parsed = With(w.parsed, f, input[f])
      /\ \A x \in WorkFields : x # "done" /\ x # "parsed" => r[x] = w[x]
  <2> DEFINE value == With(w.parsed, File(b), input[File(b)])
  <2>1. Holding(b, "parsed", value) /\ Working(b) /\ Shaped
    BY <1>1, Zenon DEF Parse
  <2> HIDE DEF value
  <2>2. /\ DOMAIN build' = Builders /\ \A a \in Builders : a # b => build'[a] = build[a]
        /\ DOMAIN r = WorkFields /\ r.done = w.done + 1 /\ r["parsed"] = value
        /\ \A y \in WorkFields : y # "done" /\ y # "parsed" => r[y] = w[y]
    BY <2>1, HoldingIs DEF WorkFields
  <2> QED
    BY <1>1, <2>2, Zenon DEF value
<1>4. /\ r.at = "work" /\ r.config = w.config /\ r.steady = w.steady
      /\ r.hashed = w.hashed /\ r.wrote = w.wrote /\ r.measured = w.measured
    BY <1>1, <1>3 DEF WorkFields, Working
<1>5. input' = input /\ root' = root
    BY DEF Parse
<1>6. d + 1 < Len(s)
  <2>1. s[d + 1][1] \in LoadKinds
    BY <1>1 DEF LoadKinds
  <2> QED
    BY <1>2, <2>1, StepKinds
<1>7. ASSUME w.steady PROVE SteadyWell(r, input, root'.files)
  <2>1. SteadyWell(w, input, root.files)
    BY <1>1, <1>7 DEF ReportInvariant, BuildsWell, Steady
  <2> HIDE DEF w, s, d, r, f
  <2>2. TakenWell(s, d + 1, r.parsed, input, "parse")
    BY <1>2, <1>3, <2>1, TakenMore DEF SteadyWell, s, d, f
  <2>3. TakenWell(s, d + 1, r.hashed, input, "hash")
    BY <1>1, <1>2, <1>4, <2>1, TakenKept DEF SteadyWell, s, d
  <2>4. CheckedWell(s, d + 1, input)
    BY <1>1, <1>2, <2>1, CheckedKept DEF SteadyWell, s, d
  <2>5. /\ WroteWell(w.config, s, d + 1, r.wrote, input, w.measured)
        /\ MadeWell(w.config, s, d + 1, root.files, input, w.measured)
    BY <1>1, <1>2, <1>4, <2>1, LoadQuiet DEF SteadyWell, s, d
  <2> QED
    BY <1>3, <1>4, <1>5, <2>2, <2>3, <2>4, <2>5 DEF SteadyWell, s
<1> QED
  <2>1. GoesOn(b)
    BY <1>1, <1>2, <1>3, <1>4, <1>5, <1>6 DEF GoesOn
  <2>2. Working(b) /\ (build[b].steady => SteadyWell(build'[b], input, root'.files))
    BY <1>1, <1>7
  <2> QED
    BY <2>1, <2>2, StepAlone, Zenon

LEMMA HashInputPreserves ==
    ASSUME ReportInvariant, NEW b \in Builders, HashInput(b)
    PROVE  ReportInvariant'
<1> DEFINE w == build[b]
           s == StepsOf(w.config)
           d == w.done
           r == build'[b]
           f == s[d + 1][2]
<1>1. Working(b) /\ Shaped /\ s[d + 1][1] = "hash" /\ File(b) = f
    BY ConfiguredSteps DEF HashInput, Doing, File, ReportInvariant
<1>2. w.config \in Seq(DOMAIN LoadSteps) /\ d \in Nat /\ d < Len(s)
  <2>1. Shaped /\ Working(b)
    BY <1>1, Zenon
  <2> QED
    BY <2>1, ConfiguredSteps
<1>3. /\ DOMAIN build' = Builders /\ \A a \in Builders : a # b => build'[a] = build[a]
      /\ DOMAIN r = WorkFields
      /\ r.done = d + 1 /\ r.hashed = With(w.hashed, f, input[f])
      /\ \A x \in WorkFields : x # "done" /\ x # "hashed" => r[x] = w[x]
  <2> DEFINE value == With(w.hashed, File(b), input[File(b)])
  <2>1. Holding(b, "hashed", value) /\ Working(b) /\ Shaped
    BY <1>1, Zenon DEF HashInput
  <2> HIDE DEF value
  <2>2. /\ DOMAIN build' = Builders /\ \A a \in Builders : a # b => build'[a] = build[a]
        /\ DOMAIN r = WorkFields /\ r.done = w.done + 1 /\ r["hashed"] = value
        /\ \A y \in WorkFields : y # "done" /\ y # "hashed" => r[y] = w[y]
    BY <2>1, HoldingIs DEF WorkFields
  <2> QED
    BY <1>1, <2>2, Zenon DEF value
<1>4. /\ r.at = "work" /\ r.config = w.config /\ r.steady = w.steady
      /\ r.parsed = w.parsed /\ r.wrote = w.wrote /\ r.measured = w.measured
    BY <1>1, <1>3 DEF WorkFields, Working
<1>5. input' = input /\ root' = root
    BY DEF HashInput
<1>6. d + 1 < Len(s)
  <2>1. s[d + 1][1] \in LoadKinds
    BY <1>1 DEF LoadKinds
  <2> QED
    BY <1>2, <2>1, StepKinds
<1>7. ASSUME w.steady PROVE SteadyWell(r, input, root'.files)
  <2>1. SteadyWell(w, input, root.files)
    BY <1>1, <1>7 DEF ReportInvariant, BuildsWell, Steady
  <2> HIDE DEF w, s, d, r, f
  <2>2. TakenWell(s, d + 1, r.hashed, input, "hash")
    BY <1>2, <1>3, <2>1, TakenMore DEF SteadyWell, s, d, f
  <2>3. TakenWell(s, d + 1, r.parsed, input, "parse")
    BY <1>1, <1>2, <1>4, <2>1, TakenKept DEF SteadyWell, s, d
  <2>4. CheckedWell(s, d + 1, input)
    BY <1>1, <1>2, <2>1, CheckedKept DEF SteadyWell, s, d
  <2>5. /\ WroteWell(w.config, s, d + 1, r.wrote, input, w.measured)
        /\ MadeWell(w.config, s, d + 1, root.files, input, w.measured)
    BY <1>1, <1>2, <1>4, <2>1, LoadQuiet DEF SteadyWell, s, d
  <2> QED
    BY <1>3, <1>4, <1>5, <2>2, <2>3, <2>4, <2>5 DEF SteadyWell, s
<1> QED
  <2>1. GoesOn(b)
    BY <1>1, <1>2, <1>3, <1>4, <1>5, <1>6 DEF GoesOn
  <2>2. Working(b) /\ (build[b].steady => SteadyWell(build'[b], input, root'.files))
    BY <1>1, <1>7
  <2> QED
    BY <2>1, <2>2, StepAlone, Zenon

LEMMA ParseHashedPreserves ==
    ASSUME ReportInvariant, NEW b \in Builders, ParseHashed(b)
    PROVE  ReportInvariant'
<1> DEFINE w == build[b]
           s == StepsOf(w.config)
           d == w.done
           r == build'[b]
           f == s[d + 1][2]
<1>1. Working(b) /\ Shaped /\ s[d + 1][1] = "both" /\ File(b) = f
    BY ConfiguredSteps DEF ParseHashed, Doing, File, ReportInvariant
<1>2. w.config \in Seq(DOMAIN LoadSteps) /\ d \in Nat /\ d < Len(s)
  <2>1. Shaped /\ Working(b)
    BY <1>1, Zenon
  <2> QED
    BY <2>1, ConfiguredSteps
<1>3. /\ DOMAIN build' = Builders /\ \A a \in Builders : a # b => build'[a] = build[a]
      /\ DOMAIN r = WorkFields
      /\ r.done = d + 1 /\ r.parsed = With(w.parsed, f, input[f]) /\ r.hashed = With(w.hashed, f, input[f])
      /\ \A x \in WorkFields : x # "done" /\ x # "hashed" /\ x # "parsed" => r[x] = w[x]
  <2>1. DOMAIN build = Builders /\ DOMAIN w = WorkFields
    BY <1>1 DEF Shaped
  <2> QED
    BY <1>1, <2>1 DEF ParseHashed, WorkFields
<1>4. /\ r.at = "work" /\ r.config = w.config /\ r.steady = w.steady
      /\ r.wrote = w.wrote /\ r.measured = w.measured
    BY <1>1, <1>3 DEF WorkFields, Working
<1>5. input' = input /\ root' = root
    BY DEF ParseHashed
<1>6. d + 1 < Len(s)
  <2>1. s[d + 1][1] \in LoadKinds
    BY <1>1 DEF LoadKinds
  <2> QED
    BY <1>2, <2>1, StepKinds
<1>7. ASSUME w.steady PROVE SteadyWell(r, input, root'.files)
  <2>1. SteadyWell(w, input, root.files)
    BY <1>1, <1>7 DEF ReportInvariant, BuildsWell, Steady
  <2> HIDE DEF w, s, d, r, f
  <2>2. TakenWell(s, d + 1, r.hashed, input, "hash")
    BY <1>2, <1>3, <2>1, TakenMore DEF SteadyWell, s, d, f
  <2>3. TakenWell(s, d + 1, r.parsed, input, "parse")
    BY <1>2, <1>3, <2>1, TakenMore DEF SteadyWell, s, d, f
  <2>4. CheckedWell(s, d + 1, input)
    BY <1>1, <1>2, <2>1, CheckedKept DEF SteadyWell, s, d
  <2>5. /\ WroteWell(w.config, s, d + 1, r.wrote, input, w.measured)
        /\ MadeWell(w.config, s, d + 1, root.files, input, w.measured)
    BY <1>1, <1>2, <1>4, <2>1, LoadQuiet DEF SteadyWell, s, d
  <2> QED
    BY <1>3, <1>4, <1>5, <2>2, <2>3, <2>4, <2>5 DEF SteadyWell, s
<1> QED
  <2>1. GoesOn(b)
    BY <1>1, <1>2, <1>3, <1>4, <1>5, <1>6 DEF GoesOn
  <2>2. Working(b) /\ (build[b].steady => SteadyWell(build'[b], input, root'.files))
    BY <1>1, <1>7
  <2> QED
    BY <2>1, <2>2, StepAlone, Zenon

\* A step that only counts itself as done.
LEMMA CountingIs ==
    ASSUME Shaped, NEW b \in Builders, Working(b), build' = [build EXCEPT ![b].done = @ + 1]
    PROVE  /\ DOMAIN build' = Builders /\ \A a \in Builders : a # b => build'[a] = build[a]
           /\ DOMAIN build'[b] = WorkFields
           /\ build'[b].done = build[b].done + 1
           /\ \A x \in WorkFields : x # "done" => build'[b][x] = build[b][x]
           /\ build'[b].at = "work" /\ build'[b].config = build[b].config /\ build'[b].steady = build[b].steady
           /\ build'[b].parsed = build[b].parsed /\ build'[b].hashed = build[b].hashed
           /\ build'[b].wrote = build[b].wrote /\ build'[b].measured = build[b].measured
<1>1. DOMAIN build = Builders /\ DOMAIN build[b] = WorkFields /\ build[b].at = "work"
    BY DEF Shaped, Working
<1> QED
    BY <1>1 DEF WorkFields

LEMMA CheckLoadedPreserves ==
    ASSUME ReportInvariant, NEW b \in Builders, CheckLoaded(b)
    PROVE  ReportInvariant'
<1> DEFINE w == build[b]
           s == StepsOf(w.config)
           d == w.done
           r == build'[b]
           f == s[d + 1][2]
<1>1. Working(b) /\ Shaped /\ s[d + 1][1] = "check" /\ File(b) = f
    BY ConfiguredSteps DEF CheckLoaded, Doing, File, ReportInvariant
<1>2. w.config \in Seq(DOMAIN LoadSteps) /\ d \in Nat /\ d < Len(s)
  <2>1. Shaped /\ Working(b)
    BY <1>1, Zenon
  <2> QED
    BY <2>1, ConfiguredSteps
<1>3. input' = input /\ root' = root
    BY DEF CheckLoaded
<1>4. CASE Agree(w.parsed, Alike[f])
  <2>1. build' = [build EXCEPT ![b].done = @ + 1]
    BY <1>1, <1>4 DEF CheckLoaded
  <2>2. /\ DOMAIN build' = Builders /\ \A a \in Builders : a # b => build'[a] = build[a]
        /\ DOMAIN r = WorkFields /\ r.done = d + 1
        /\ r.at = "work" /\ r.config = w.config /\ r.steady = w.steady
        /\ r.parsed = w.parsed /\ r.hashed = w.hashed /\ r.wrote = w.wrote /\ r.measured = w.measured
    BY <1>1, <2>1, CountingIs
  <2>3. d + 1 < Len(s)
    <3>1. s[d + 1][1] \in LoadKinds
      BY <1>1 DEF LoadKinds
    <3> QED
      BY <1>2, <3>1, StepKinds
  <2>4. ASSUME w.steady PROVE SteadyWell(r, input, root'.files)
    <3>1. SteadyWell(w, input, root.files)
      BY <1>1, <2>4 DEF ReportInvariant, BuildsWell, Steady
    <3> HIDE DEF w, s, d, r, f
    <3>2. TakenWell(s, d, w.parsed, input, "parse")
      BY <3>1 DEF SteadyWell, s, d
    <3>3. Agree(input, Alike[f])
      <4>1. Alike[f] \subseteq DOMAIN w.parsed
        BY <1>1, <1>2, <3>2, ParsedBefore DEF s, f
      <4> QED
        BY <1>4, <3>2, <4>1 DEF Agree, TakenWell
    <3>4. TakenWell(s, d + 1, r.parsed, input, "parse") /\ TakenWell(s, d + 1, r.hashed, input, "hash")
      BY <1>1, <1>2, <2>2, <3>1, TakenKept DEF SteadyWell, s, d
    <3>5. CheckedWell(s, d + 1, input)
      BY <1>1, <1>2, <3>1, <3>3, CheckedKept DEF SteadyWell, s, d, f
    <3>6. /\ WroteWell(w.config, s, d + 1, r.wrote, input, w.measured)
          /\ MadeWell(w.config, s, d + 1, root.files, input, w.measured)
      BY <1>1, <1>2, <2>2, <3>1, LoadQuiet DEF SteadyWell, s, d
    <3> QED
      BY <1>3, <2>2, <3>4, <3>5, <3>6 DEF SteadyWell, s
  <2> QED
    <3>1. GoesOn(b)
      BY <1>1, <1>2, <1>3, <2>2, <2>3 DEF GoesOn
    <3>2. Working(b) /\ (build[b].steady => SteadyWell(build'[b], input, root'.files))
      BY <1>1, <2>4
    <3> QED
      BY <3>1, <3>2, StepAlone, Zenon
<1>5. CASE ~Agree(w.parsed, Alike[f])
  <2>1. Stop(b)
    BY <1>1, <1>5 DEF CheckLoaded
  <2>2. ManifestsWell'
    BY <1>3 DEF ReportInvariant, ManifestsWell
  <2> QED
    BY <1>3, <2>1, <2>2, StopAlone
<1> QED
    BY <1>4, <1>5

LEMMA FileRightOf ==
    ASSUME NEW x, NEW says, NEW in, NEW gas, NEW gas2, NEW config, FileRight(x, says, in, gas, config),
           x \notin {"T12", "E7_generated"}
    PROVE  FileRight(x, says, in, gas2, config)
  BY DEF FileRight

\* The generated outputs' own steps, which only E3 and E7 have.
LEMMA OwnSteps ==
    ASSUME NEW config \in Seq(DOMAIN LoadSteps), NEW s, s = StepsOf(config), NEW d \in Nat, d < Len(s)
    PROVE  /\ s[d + 1][1] = "tear" => s[d + 1] = <<"tear", "E3">>
           /\ s[d + 1][1] = "measure" => s[d + 1] = <<"measure", "E7">>
<1> DEFINE n == LastLoad(config)
<1>1. LoadOrder(config, s, n)
    BY LoadsOrdered
<1>2. Len(s) \in Nat /\ (s[d + 1][1] \in {"tear", "measure"} => d + 1 \in 1..n)
  <2>1. n \in Nat /\ Len(s) \in Nat /\ (s[d + 1][1] \in LoadKinds \ {"hash"} => d + 1 <= n)
    BY StepKinds
  <2> HIDE DEF n
  <2> QED
    BY <2>1 DEF LoadKinds
<1> HIDE DEF n
<1>3. d + 1 \in 1..Len(s)
    BY <1>2
<1>4. s[d + 1] = <<s[d + 1][1], s[d + 1][2]>>
    BY <1>3, StepsPaired
<1> QED
    BY <1>1, <1>2, <1>4 DEF LoadOrder

LEMMA MeasureGasPreserves ==
    ASSUME ReportInvariant, NEW b \in Builders, MeasureGas(b)
    PROVE  ReportInvariant'
<1> DEFINE w == build[b]
           s == StepsOf(w.config)
           d == w.done
           r == build'[b]
<1>1. Working(b) /\ Shaped /\ s[d + 1][1] = "measure"
    BY ConfiguredSteps DEF MeasureGas, Doing, ReportInvariant
<1>2. w.config \in Seq(DOMAIN LoadSteps) /\ d \in Nat /\ d < Len(s)
  <2>1. Shaped /\ Working(b)
    BY <1>1, Zenon
  <2> QED
    BY <2>1, ConfiguredSteps
<1>3. PICK gas : Holding(b, "measured", gas)
    BY DEF MeasureGas
<1>4. /\ DOMAIN build' = Builders /\ \A a \in Builders : a # b => build'[a] = build[a]
      /\ DOMAIN r = WorkFields
      /\ r.done = d + 1 /\ r.measured = gas
      /\ \A x \in WorkFields : x # "done" /\ x # "measured" => r[x] = w[x]
    BY <1>1, <1>3, HoldingIs DEF WorkFields
<1>5. /\ r.at = "work" /\ r.config = w.config /\ r.steady = w.steady
      /\ r.parsed = w.parsed /\ r.hashed = w.hashed /\ r.wrote = w.wrote
    BY <1>1, <1>4 DEF WorkFields, Working
<1>6. input' = input /\ root' = root
    BY DEF MeasureGas
<1>7. d + 1 < Len(s) /\ LastLoad(w.config) \in Nat /\ d <= LastLoad(w.config)
  <2>1. s[d + 1][1] \in LoadKinds \ {"hash"}
    BY <1>1 DEF LoadKinds
  <2> DEFINE n == LastLoad(w.config)
  <2>2. n \in Nat /\ d + 1 <= n /\ d + 1 < Len(s)
    BY <1>2, <2>1, StepKinds
  <2> HIDE DEF n
  <2>3. d <= n
    BY <1>2, <2>2
  <2> QED
    BY <2>2, <2>3 DEF n
<1>8. ASSUME w.steady PROVE SteadyWell(r, input, root'.files)
  <2>1. SteadyWell(w, input, root.files)
    BY <1>1, <1>8 DEF ReportInvariant, BuildsWell, Steady
  <2>a. s[d + 1] = <<"measure", "E7">>
    BY <1>1, <1>2, OwnSteps
  <2>b. \A e \in DOMAIN GeneratedOf : d > 0 /\ Undone(s[d], e) => s[d + 1] = <<"generate", e>>
    BY <1>2, StepKinds
  <2> HIDE DEF w, s, d, r
  <2>2. TakenWell(s, d + 1, r.parsed, input, "parse") /\ TakenWell(s, d + 1, r.hashed, input, "hash")
    BY <1>1, <1>2, <1>5, <2>1, TakenKept DEF SteadyWell, s, d
  <2>3. CheckedWell(s, d + 1, input)
    BY <1>1, <1>2, <2>1, CheckedKept DEF SteadyWell, s, d
  <2>4. WroteWell(w.config, s, d + 1, r.wrote, input, gas)
    BY <1>1, <1>2, <1>5, <1>7, <2>1, WroteNothing DEF SteadyWell, s, d
  <2>5. MadeWell(w.config, s, d + 1, root.files, input, gas)
    <3>1. MadeWell(w.config, s, d, root.files, input, w.measured)
      BY <2>1 DEF SteadyWell, s, d
    <3>2. ASSUME NEW e \in DOMAIN GeneratedOf
          PROVE  \/ Undone(s[d + 1], e)
                 \/ /\ s[d + 1] # <<"generate", e>>
                    /\ d > 0 => ~Undone(s[d], e)
                    /\ FileRight(GeneratedOf[e], root.files[GeneratedOf[e]], input, w.measured, w.config) =>
                          FileRight(GeneratedOf[e], root.files[GeneratedOf[e]], input, gas, w.config)
      <4>1. CASE e = "E7"
        BY <2>a, <4>1 DEF Undone
      <4>2. CASE e = "E3"
        <5>1. GeneratedOf[e] \notin {"T12", "E7_generated"}
          BY <4>2, TableNames
        <5>2. s[d + 1] # <<"generate", e>>
          BY <2>a
        <5> QED
          BY <2>b, <5>1, <5>2, FileRightOf
      <4> QED
        BY <4>1, <4>2, TableNames
    <3> QED
      BY <1>2, <3>1, <3>2, MadeStep
  <2> QED
    BY <1>4, <1>5, <1>6, <2>2, <2>3, <2>4, <2>5 DEF SteadyWell, s
<1> QED
  <2>1. GoesOn(b)
    BY <1>1, <1>2, <1>4, <1>5, <1>6, <1>7 DEF GoesOn
  <2>2. Working(b) /\ (build[b].steady => SteadyWell(build'[b], input, root'.files))
    BY <1>1, <1>8
  <2> QED
    BY <2>1, <2>2, StepAlone, Zenon

LEMMA FileWritten ==
    ASSUME Shaped, NEW x \in Tables \cup Generated, NEW says, root' = [root EXCEPT !.files[x] = says]
    PROVE  /\ DOMAIN root' = DOMAIN root /\ DOMAIN root'.files = DOMAIN root.files /\ root'.manifest = root.manifest
           /\ root'.files[x] = says /\ \A y \in Tables \cup Generated : y # x => root'.files[y] = root.files[y]
<1>1. DOMAIN root = {"files", "manifest", "litter"} /\ DOMAIN root.files = Tables \cup Generated
    BY DEF Shaped
<1> QED
    BY <1>1

LEMMA TearPreserves ==
    ASSUME ReportInvariant, NEW b \in Builders, Tear(b)
    PROVE  ReportInvariant'
<1> DEFINE w == build[b]
           s == StepsOf(w.config)
           d == w.done
           r == build'[b]
<1>1. Working(b) /\ Shaped /\ s[d + 1][1] = "tear" /\ File(b) = s[d + 1][2]
    BY ConfiguredSteps DEF Tear, Doing, File, ReportInvariant
<1>2. w.config \in Seq(DOMAIN LoadSteps) /\ d \in Nat /\ d < Len(s)
  <2>1. Shaped /\ Working(b)
    BY <1>1, Zenon
  <2> QED
    BY <2>1, ConfiguredSteps
<1>3. s[d + 1] = <<"tear", "E3">> /\ File(b) = "E3"
  <2>1. s[d + 1] = <<"tear", "E3">>
    BY <1>1, <1>2, OwnSteps
  <2> QED
    BY <1>1, <2>1
<1>4. /\ DOMAIN build' = Builders /\ \A a \in Builders : a # b => build'[a] = build[a]
      /\ DOMAIN r = WorkFields /\ r.done = d + 1
      /\ r.at = "work" /\ r.config = w.config /\ r.steady = w.steady
      /\ r.parsed = w.parsed /\ r.hashed = w.hashed /\ r.wrote = w.wrote /\ r.measured = w.measured
    BY <1>1, CountingIs DEF Tear
<1>5. root' = [root EXCEPT !.files["E3_generated"] = Torn] /\ input' = input
    BY <1>3, TableNames DEF Tear
<1>6. /\ DOMAIN root' = DOMAIN root /\ DOMAIN root'.files = DOMAIN root.files /\ root'.manifest = root.manifest
      /\ \A y \in Tables \cup Generated : y # "E3_generated" => root'.files[y] = root.files[y]
  <2>1. "E3_generated" \in Tables \cup Generated
    BY TableNames
  <2> QED
    BY <1>1, <1>5, <2>1, FileWritten
<1>7. d + 1 < Len(s) /\ LastLoad(w.config) \in Nat /\ d <= LastLoad(w.config)
  <2>1. s[d + 1][1] \in LoadKinds \ {"hash"}
    BY <1>1 DEF LoadKinds
  <2> DEFINE n == LastLoad(w.config)
  <2>2. n \in Nat /\ d + 1 <= n /\ d + 1 < Len(s)
    BY <1>2, <2>1, StepKinds
  <2> HIDE DEF n
  <2>3. d <= n
    BY <1>2, <2>2
  <2> QED
    BY <2>2, <2>3 DEF n
<1>8. ASSUME w.steady PROVE SteadyWell(r, input, root'.files)
  <2>1. SteadyWell(w, input, root.files)
    BY <1>1, <1>8 DEF ReportInvariant, BuildsWell, Steady
  <2>b. \A e \in DOMAIN GeneratedOf : d > 0 /\ Undone(s[d], e) => s[d + 1] = <<"generate", e>>
    BY <1>2, StepKinds
  <2> HIDE DEF w, s, d, r
  <2>2. TakenWell(s, d + 1, r.parsed, input, "parse") /\ TakenWell(s, d + 1, r.hashed, input, "hash")
    BY <1>1, <1>2, <1>4, <2>1, TakenKept DEF SteadyWell, s, d
  <2>3. CheckedWell(s, d + 1, input)
    BY <1>1, <1>2, <2>1, CheckedKept DEF SteadyWell, s, d
  <2>4. WroteWell(w.config, s, d + 1, r.wrote, input, w.measured)
    BY <1>1, <1>2, <1>4, <1>7, <2>1, WroteNothing DEF SteadyWell, s, d
  <2>5. MadeWell(w.config, s, d + 1, root'.files, input, w.measured)
    <3>1. MadeWell(w.config, s, d, root.files, input, w.measured)
      BY <2>1 DEF SteadyWell, s, d
    <3>2. ASSUME NEW e \in DOMAIN GeneratedOf
          PROVE  \/ Undone(s[d + 1], e)
                 \/ /\ s[d + 1] # <<"generate", e>>
                    /\ d > 0 => ~Undone(s[d], e)
                    /\ FileRight(GeneratedOf[e], root.files[GeneratedOf[e]], input, w.measured, w.config) =>
                          FileRight(GeneratedOf[e], root'.files[GeneratedOf[e]], input, w.measured, w.config)
      <4>1. CASE e = "E3"
        BY <1>3, <4>1 DEF Undone
      <4>2. CASE e = "E7"
        <5>1. root'.files[GeneratedOf[e]] = root.files[GeneratedOf[e]]
          BY <1>6, <4>2, TableNames
        <5>2. s[d + 1] # <<"generate", e>>
          BY <1>3
        <5>3. d > 0 => ~Undone(s[d], e)
          BY <2>b, <5>2, Zenon
        <5> QED
          BY <5>1, <5>2, <5>3, Zenon
      <4> QED
        BY <4>1, <4>2, TableNames
    <3> QED
      BY <1>2, <3>1, <3>2, MadeStep
  <2> QED
    BY <1>4, <2>2, <2>3, <2>4, <2>5 DEF SteadyWell, s
<1> QED
  <2>1. GoesOn(b)
    BY <1>1, <1>2, <1>4, <1>5, <1>6, <1>7 DEF GoesOn
  <2>2. Working(b) /\ (build[b].steady => SteadyWell(build'[b], input, root'.files))
    BY <1>1, <1>8
  <2> QED
    BY <2>1, <2>2, StepAlone, Zenon

LEMMA GeneratePreserves ==
    ASSUME ReportInvariant, NEW b \in Builders, Generate(b)
    PROVE  ReportInvariant'
<1> DEFINE w == build[b]
           s == StepsOf(w.config)
           d == w.done
           r == build'[b]
           g == s[d + 1][2]
           x == GeneratedOf[g]
<1>1. Working(b) /\ Shaped /\ s[d + 1][1] = "generate" /\ File(b) = g
    BY ConfiguredSteps DEF Generate, Doing, File, ReportInvariant
<1>2. w.config \in Seq(DOMAIN LoadSteps) /\ d \in Nat /\ d < Len(s)
  <2>1. Shaped /\ Working(b)
    BY <1>1, Zenon
  <2> QED
    BY <2>1, ConfiguredSteps
<1>3. g \in DOMAIN GeneratedOf /\ s[d + 1] = <<"generate", g>>
  <2>1. d + 1 \in 1..LastLoad(w.config) /\ d + 1 \in 1..Len(s)
    <3> DEFINE n == LastLoad(w.config)
    <3>1. s[d + 1][1] \in LoadKinds \ {"hash"}
      BY <1>1 DEF LoadKinds
    <3>2. n \in Nat /\ d + 1 <= n /\ d + 1 < Len(s) /\ Len(s) \in Nat
      BY <1>2, <3>1, StepKinds
    <3> HIDE DEF n, d, s
    <3>3. d + 1 \in 1..n /\ d + 1 \in 1..Len(s)
      BY <1>2, <3>2
    <3> QED
      BY <3>3 DEF n
  <2>2. g \in DOMAIN GeneratedOf
    BY <1>1, <1>2, <2>1, LoadsOrdered DEF LoadOrder
  <2>3. s[d + 1] = <<s[d + 1][1], g>>
    BY <1>2, <2>1, StepsPaired
  <2> QED
    BY <1>1, <2>2, <2>3
<1>4. /\ DOMAIN build' = Builders /\ \A a \in Builders : a # b => build'[a] = build[a]
      /\ DOMAIN r = WorkFields /\ r.done = d + 1
      /\ r.at = "work" /\ r.config = w.config /\ r.steady = w.steady
      /\ r.parsed = w.parsed /\ r.hashed = w.hashed /\ r.wrote = w.wrote /\ r.measured = w.measured
    BY <1>1, CountingIs DEF Generate
<1>5. root' = [root EXCEPT !.files[x] = Content(b, x)] /\ input' = input
    BY <1>1 DEF Generate
<1>a. x \in Generated
    BY <1>3, TableNames
<1>6. /\ DOMAIN root' = DOMAIN root /\ DOMAIN root'.files = DOMAIN root.files /\ root'.manifest = root.manifest
      /\ root'.files[x] = Content(b, x)
      /\ \A y \in Tables \cup Generated : y # x => root'.files[y] = root.files[y]
  <2>1. x \in Tables \cup Generated
    BY <1>a
  <2> HIDE DEF x
  <2> QED
    BY <1>1, <1>5, <2>1, FileWritten
<1>7. d + 1 < Len(s) /\ LastLoad(w.config) \in Nat /\ d <= LastLoad(w.config)
  <2>1. s[d + 1][1] \in LoadKinds \ {"hash"}
    BY <1>1 DEF LoadKinds
  <2> DEFINE n == LastLoad(w.config)
  <2>2. n \in Nat /\ d + 1 <= n /\ d + 1 < Len(s)
    BY <1>2, <2>1, StepKinds
  <2> HIDE DEF n
  <2>3. d <= n
    BY <1>2, <2>2
  <2> QED
    BY <2>2, <2>3 DEF n
<1>8. ASSUME w.steady PROVE SteadyWell(r, input, root'.files)
  <2>1. SteadyWell(w, input, root.files)
    BY <1>1, <1>8 DEF ReportInvariant, BuildsWell, Steady
  <2>b. \A e \in DOMAIN GeneratedOf : d > 0 /\ Undone(s[d], e) => s[d + 1] = <<"generate", e>>
    BY <1>2, StepKinds
  <2>c. TakenWell(s, d, w.parsed, input, "parse")
    BY <2>1 DEF SteadyWell
  <2>d. FilesOf(g) \subseteq DOMAIN w.parsed
    BY <1>1, <1>2, <2>c, ParsedBefore
  <2>e. FileRight(x, Content(b, x), input, w.measured, w.config)
    <3>1. x \notin Tables /\ (\A e \in DOMAIN TableOf : x # TableOf[e]) /\ (x = "E3_generated" => g = "E3")
      BY <1>3, <1>a, TableNames
    <3>2. \A f \in DOMAIN w.parsed : w.parsed[f] = input[f]
      BY <2>c DEF TakenWell
    <3> HIDE DEF x, g
    <3> QED
      BY <1>a, <2>d, <3>1, <3>2, ContentRight
  <2> HIDE DEF w, s, d, r
  <2>2. TakenWell(s, d + 1, r.parsed, input, "parse") /\ TakenWell(s, d + 1, r.hashed, input, "hash")
    BY <1>1, <1>2, <1>4, <2>1, TakenKept DEF SteadyWell, s, d
  <2>3. CheckedWell(s, d + 1, input)
    BY <1>1, <1>2, <2>1, CheckedKept DEF SteadyWell, s, d
  <2>4. WroteWell(w.config, s, d + 1, r.wrote, input, w.measured)
    BY <1>1, <1>2, <1>4, <1>7, <2>1, WroteNothing DEF SteadyWell, s, d
  <2>5. MadeWell(w.config, s, d + 1, root'.files, input, w.measured)
    <3>1. MadeWell(w.config, s, d, root.files, input, w.measured)
      BY <2>1 DEF SteadyWell, s, d
    <3>2. ASSUME NEW e \in DOMAIN GeneratedOf
          PROVE  \/ FileRight(GeneratedOf[e], root'.files[GeneratedOf[e]], input, w.measured, w.config)
                 \/ /\ s[d + 1] # <<"generate", e>>
                    /\ d > 0 => ~Undone(s[d], e)
                    /\ FileRight(GeneratedOf[e], root.files[GeneratedOf[e]], input, w.measured, w.config) =>
                          FileRight(GeneratedOf[e], root'.files[GeneratedOf[e]], input, w.measured, w.config)
      <4> HIDE DEF g
      <4>1. CASE e = g
        BY <1>6, <2>e, <4>1
      <4>2. CASE e # g
        <5>1. root'.files[GeneratedOf[e]] = root.files[GeneratedOf[e]]
          <6>1. GeneratedOf[e] # x /\ GeneratedOf[e] \in Generated
            BY <1>3, <4>2, TableNames
          <6> QED
            BY <1>6, <6>1
        <5>2. s[d + 1] # <<"generate", e>>
          BY <1>3, <4>2
        <5>3. d > 0 => ~Undone(s[d], e)
          BY <2>b, <5>2, Zenon
        <5> QED
          BY <5>1, <5>2, <5>3, Zenon
      <4> QED
        BY <4>1, <4>2
    <3> QED
      BY <1>2, <3>1, <3>2, MadeStep
  <2> QED
    BY <1>4, <2>2, <2>3, <2>4, <2>5 DEF SteadyWell, s
<1> QED
  <2>1. GoesOn(b)
    BY <1>1, <1>2, <1>4, <1>5, <1>6, <1>7 DEF GoesOn
  <2>2. Working(b) /\ (build[b].steady => SteadyWell(build'[b], input, root'.files))
    BY <1>1, <1>8
  <2> QED
    BY <2>1, <2>2, StepAlone, Zenon

\* After the readings, what the tables are made of has been parsed.
LEMMA TableRight ==
    ASSUME NEW b, NEW x, NEW s, build[b].config \in Seq(DOMAIN LoadSteps), s = StepsOf(build[b].config),
           build[b].done \in Nat, build[b].done < Len(s), LastLoad(build[b].config) <= build[b].done,
           TakenWell(s, build[b].done, build[b].parsed, input, "parse"), Written(build[b].config, x)
    PROVE  x \in Tables /\ FileRight(x, Content(b, x), input, build[b].measured, build[b].config)
<1> DEFINE config == build[b].config
           parsed == build[b].parsed
<1>1. "generator" \in DOMAIN parsed /\ \A i \in DOMAIN config : FilesOf(config[i]) \subseteq DOMAIN parsed
    BY ParsedBefore
<1>2. \A f \in DOMAIN parsed : parsed[f] = input[f]
    BY DEF TakenWell
<1>3. \A i \in DOMAIN config : config[i] \in DOMAIN LoadSteps
    OBVIOUS
<1> HIDE DEF config, parsed
<1>4. x \in Tables /\ x \notin Generated
    BY TableNames DEF Written, config
<1>5. ASSUME NEW e \in DOMAIN Judged, Contains(config, e) PROVE Judged[e] \subseteq DOMAIN parsed
  <2>1. PICK i \in DOMAIN config : config[i] = e
    BY <1>5 DEF Contains, Range
  <2> QED
    BY <1>1, <1>3, <2>1, LoadedFiles
<1>6. ASSUME NEW e \in DOMAIN TableOf, x = TableOf[e] PROVE FilesOf(e) \subseteq DOMAIN parsed
  <2>1. PICK i \in DOMAIN config : config[i] \in DOMAIN TableOf /\ x = TableOf[config[i]]
    BY <1>6, TableNames DEF Written, config
  <2>2. config[i] = e
    BY <1>6, <2>1, TableNames
  <2> QED
    BY <1>1, <2>1, <2>2
<1>7. x # "E3_generated"
    BY <1>4, TableNames
<1> QED
    BY <1>1, <1>2, <1>4, <1>5, <1>6, <1>7, ContentRight DEF config, parsed

LEMMA WriteTablePreserves ==
    ASSUME ReportInvariant, NEW b \in Builders, WriteTable(b)
    PROVE  ReportInvariant'
<1> DEFINE w == build[b]
           s == StepsOf(w.config)
           d == w.done
           r == build'[b]
           x == s[d + 1][2]
           n == LastLoad(w.config)
<1>1. Working(b) /\ Shaped /\ s[d + 1][1] = "write" /\ File(b) = x
    BY ConfiguredSteps DEF WriteTable, Doing, File, ReportInvariant
<1>2. w.config \in Seq(DOMAIN LoadSteps) /\ d \in Nat /\ d < Len(s)
  <2>1. Shaped /\ Working(b)
    BY <1>1, Zenon
  <2> QED
    BY <2>1, ConfiguredSteps
<1>3. /\ DOMAIN build' = Builders /\ \A a \in Builders : a # b => build'[a] = build[a]
      /\ DOMAIN r = WorkFields
      /\ r.done = d + 1 /\ r.wrote = With(w.wrote, x, Content(b, x))
      /\ \A y \in WorkFields : y # "done" /\ y # "wrote" => r[y] = w[y]
  <2> DEFINE value == With(w.wrote, File(b), Content(b, File(b)))
  <2>1. Holding(b, "wrote", value) /\ Working(b) /\ Shaped
    BY <1>1, Zenon DEF WriteTable
  <2> HIDE DEF value
  <2>2. /\ DOMAIN build' = Builders /\ \A a \in Builders : a # b => build'[a] = build[a]
        /\ DOMAIN r = WorkFields /\ r.done = w.done + 1 /\ r["wrote"] = value
        /\ \A y \in WorkFields : y # "done" /\ y # "wrote" => r[y] = w[y]
    BY <2>1, HoldingIs DEF WorkFields
  <2> QED
    BY <1>1, <2>2, Zenon DEF value
<1>4. /\ r.at = "work" /\ r.config = w.config /\ r.steady = w.steady
      /\ r.parsed = w.parsed /\ r.hashed = w.hashed /\ r.measured = w.measured
    BY <1>1, <1>3 DEF WorkFields, Working
<1>5. n \in Nat /\ n + 1 <= d /\ d + 1 < Len(s) /\ Written(w.config, x)
    BY <1>1, <1>2, StepKinds
<1>6. x \in Tables
    BY <1>5, TableNames DEF Written
<1>7. root' = [root EXCEPT !.files[x] = Content(b, x)] /\ input' = input
    BY <1>1 DEF WriteTable
<1>8. /\ DOMAIN root' = DOMAIN root /\ DOMAIN root'.files = DOMAIN root.files /\ root'.manifest = root.manifest
      /\ \A y \in Tables \cup Generated : y # x => root'.files[y] = root.files[y]
  <2> HIDE DEF x
  <2> QED
    BY <1>1, <1>6, <1>7, FileWritten
<1>9. ASSUME w.steady PROVE SteadyWell(r, input, root'.files)
  <2>1. SteadyWell(w, input, root.files)
    BY <1>1, <1>9 DEF ReportInvariant, BuildsWell, Steady
  <2>2. TakenWell(s, d, w.parsed, input, "parse")
    BY <2>1 DEF SteadyWell
  <2>3. FileRight(x, Content(b, x), input, w.measured, w.config)
    <3> HIDE DEF n, x
    <3>1. n <= d
      BY <1>2, <1>5
    <3> QED
      BY <1>2, <1>5, <2>2, <3>1, TableRight DEF n
  <2> HIDE DEF w, s, d, r, x, n
  <2>4. TakenWell(s, d + 1, r.parsed, input, "parse") /\ TakenWell(s, d + 1, r.hashed, input, "hash")
    BY <1>1, <1>2, <1>4, <2>1, TakenKept DEF SteadyWell, s, d
  <2>5. CheckedWell(s, d + 1, input)
    BY <1>1, <1>2, <2>1, CheckedKept DEF SteadyWell, s, d
  <2>6. WroteWell(w.config, s, d + 1, r.wrote, input, w.measured)
    <3>1. WroteWell(w.config, s, d, w.wrote, input, w.measured)
      BY <2>1 DEF SteadyWell, s, d
    <3>2. LastLoad(w.config) \in Nat /\ LastLoad(w.config) + 1 <= d
      BY <1>5 DEF n
    <3>3. WroteWell(w.config, s, d + 1, With(w.wrote, x, Content(b, x)), input, w.measured)
      BY <1>2, <1>5, <2>3, <3>1, <3>2, WroteMore DEF x
    <3> QED
      BY <1>3, <3>3
  <2>7. MadeWell(w.config, s, d + 1, root'.files, input, w.measured)
    <3>1. MadeWell(w.config, s, d, root.files, input, w.measured)
      BY <2>1 DEF SteadyWell, s, d
    <3>2. \A e \in DOMAIN GeneratedOf : root'.files[GeneratedOf[e]] = root.files[GeneratedOf[e]]
      BY <1>6, <1>8, TableNames
    <3> QED
      BY <1>1, <1>2, <3>1, <3>2, MadeQuiet DEF s
  <2> QED
    BY <1>3, <1>4, <2>4, <2>5, <2>6, <2>7 DEF SteadyWell, s
<1> QED
  <2>1. GoesOn(b)
    BY <1>1, <1>2, <1>3, <1>4, <1>5, <1>7, <1>8 DEF GoesOn
  <2>2. Working(b) /\ (build[b].steady => SteadyWell(build'[b], input, root'.files))
    BY <1>1, <1>9
  <2> QED
    BY <2>1, <2>2, StepAlone, Zenon

LEMMA RehashPreserves ==
    ASSUME ReportInvariant, NEW b \in Builders, Rehash(b)
    PROVE  ReportInvariant'
<1> DEFINE w == build[b]
           s == StepsOf(w.config)
           d == w.done
           r == build'[b]
           x == s[d + 1][2]
           n == LastLoad(w.config)
<1>1. Working(b) /\ Shaped /\ s[d + 1][1] = "rehash" /\ File(b) = x
  <2>1. Working(b) /\ Doing(b, "rehash") /\ Shaped
    BY DEF Rehash, Doing, ReportInvariant
  <2>2. s[d + 1] = Step(b)
    BY <2>1, ConfiguredSteps
  <2> QED
    BY <2>1, <2>2 DEF Doing, File
<1>2. w.config \in Seq(DOMAIN LoadSteps) /\ d \in Nat /\ d < Len(s)
  <2>1. Shaped /\ Working(b)
    BY <1>1, Zenon
  <2> QED
    BY <2>1, ConfiguredSteps
<1>3. /\ DOMAIN build' = Builders /\ \A a \in Builders : a # b => build'[a] = build[a]
      /\ DOMAIN r = WorkFields
      /\ r.done = d + 1 /\ r.wrote = With(w.wrote, x, root.files[x])
      /\ \A y \in WorkFields : y # "done" /\ y # "wrote" => r[y] = w[y]
  <2> DEFINE value == With(w.wrote, File(b), root.files[File(b)])
  <2>1. Holding(b, "wrote", value) /\ Working(b) /\ Shaped
    BY <1>1, Zenon DEF Rehash
  <2> HIDE DEF value
  <2>2. /\ DOMAIN build' = Builders /\ \A a \in Builders : a # b => build'[a] = build[a]
        /\ DOMAIN r = WorkFields /\ r.done = w.done + 1 /\ r["wrote"] = value
        /\ \A y \in WorkFields : y # "done" /\ y # "wrote" => r[y] = w[y]
    BY <2>1, HoldingIs DEF WorkFields
  <2> QED
    BY <1>1, <2>2, Zenon DEF value
<1>4. /\ r.at = "work" /\ r.config = w.config /\ r.steady = w.steady
      /\ r.parsed = w.parsed /\ r.hashed = w.hashed /\ r.measured = w.measured
    BY <1>1, <1>3 DEF WorkFields, Working
<1>5. n \in Nat \ {0} /\ n + 1 <= d /\ d + 1 < Len(s) /\ Rehashed(w.config, x)
    BY <1>1, <1>2, StepKinds
<1>6. input' = input /\ root' = root
    BY DEF Rehash
<1>7. ASSUME w.steady PROVE SteadyWell(r, input, root'.files)
  <2>1. SteadyWell(w, input, root.files)
    BY <1>1, <1>7 DEF ReportInvariant, BuildsWell, Steady
  <2>2. PICK i \in DOMAIN w.config : w.config[i] \in DOMAIN GeneratedOf /\ x = GeneratedOf[w.config[i]]
    BY <1>5 DEF Rehashed
  <2>3. PICK j \in 1..n : s[j] = <<"generate", w.config[i]>>
    <3>1. LoadOrder(w.config, s, n)
      BY <1>2, LoadsOrdered
    <3> HIDE DEF n, s, w
    <3> QED
      BY <2>2, <3>1 DEF LoadOrder
  <2>4. ~Undone(s[d], w.config[i])
    <3>1. d > 0
      <4> HIDE DEF d, n
      <4> QED
        BY <1>2, <1>5
    <3>2. Undone(s[d], w.config[i]) => s[d + 1] = <<"generate", w.config[i]>>
      BY <1>2, <2>2, <3>1, StepKinds
    <3> QED
      BY <1>1, <3>2
  <2>5. j \in 1..d
    <3> HIDE DEF d, n
    <3> QED
      BY <1>2, <1>5
  <2>6. FileRight(x, root.files[x], input, w.measured, w.config)
    <3>1. Made(s, d, w.config[i])
      BY <2>3, <2>4, <2>5 DEF Made
    <3>2. MadeWell(w.config, s, d, root.files, input, w.measured)
      BY <2>1 DEF SteadyWell
    <3> QED
      BY <2>2, <3>1, <3>2 DEF MadeWell
  <2> HIDE DEF w, s, d, r, x, n
  <2>7. TakenWell(s, d + 1, r.parsed, input, "parse") /\ TakenWell(s, d + 1, r.hashed, input, "hash")
    BY <1>1, <1>2, <1>4, <2>1, TakenKept DEF SteadyWell, s, d
  <2>8. CheckedWell(s, d + 1, input)
    BY <1>1, <1>2, <2>1, CheckedKept DEF SteadyWell, s, d
  <2>9. WroteWell(w.config, s, d + 1, r.wrote, input, w.measured)
    <3>1. WroteWell(w.config, s, d, w.wrote, input, w.measured)
      BY <2>1 DEF SteadyWell, s, d
    <3>2. LastLoad(w.config) \in Nat /\ LastLoad(w.config) + 1 <= d
      BY <1>5 DEF n
    <3>3. WroteWell(w.config, s, d + 1, With(w.wrote, x, root.files[x]), input, w.measured)
      BY <1>2, <1>5, <2>6, <3>1, <3>2, WroteMore DEF x
    <3> QED
      BY <1>3, <3>3
  <2>10. MadeWell(w.config, s, d + 1, root.files, input, w.measured)
    BY <1>1, <1>2, <2>1, MadeQuiet DEF SteadyWell, s, d
  <2> QED
    BY <1>3, <1>4, <1>6, <2>7, <2>8, <2>9, <2>10 DEF SteadyWell, s
<1> QED
  <2>1. GoesOn(b)
    BY <1>1, <1>2, <1>3, <1>4, <1>5, <1>6 DEF GoesOn
  <2>2. Working(b) /\ (build[b].steady => SteadyWell(build'[b], input, root'.files))
    BY <1>1, <1>7
  <2> QED
    BY <2>1, <2>2, StepAlone, Zenon

-----------------------------------------------------------------------------

\* A steady build's manifest, once every step has been done.
LEMMA ManifestRight ==
    ASSUME NEW config \in Seq(DOMAIN LoadSteps), NEW s, s = StepsOf(config), NEW d \in Nat, d + 1 = Len(s),
           NEW in, NEW gas, NEW hashed, NEW wrote,
           TakenWell(s, d, hashed, in, "hash"), CheckedWell(s, d, in), WroteWell(config, s, d, wrote, in, gas)
    PROVE  ManifestWell(hashed, wrote)
<1> DEFINE n == LastLoad(config)
<1>1. LoadOrder(config, s, n) /\ WriteOrder(config, s, n)
    BY LoadsOrdered, WritesOrdered
<1> HIDE DEF n
<1>2. n \in Nat \ {0} /\ n + 1 <= d /\ Len(s) - 1 = d
    BY <1>1 DEF WriteOrder
<1>3. "generator" \in DOMAIN hashed /\ \A i \in DOMAIN config : FilesOf(config[i]) \subseteq DOMAIN hashed
    BY <1>2, HashedBefore DEF n
<1>4. \A f \in DOMAIN hashed : hashed[f] = in[f]
    BY DEF TakenWell
<1>5. \A j \in 1..n : j \in 1..d
    BY <1>2
<1>6. \A i \in DOMAIN config : config[i] \in DOMAIN LoadSteps
    OBVIOUS
<1>7. \A x : Written(config, x) => x \in DOMAIN wrote
  <2> SUFFICES ASSUME NEW x, Written(config, x) PROVE x \in DOMAIN wrote
    OBVIOUS
  <2>1. PICK j \in (n + 2)..(Len(s) - 1) : s[j] = <<"write", x>>
    BY <1>1 DEF WriteOrder
  <2>2. j \in 1..d
    BY <1>2
  <2> QED
    BY <2>1, <2>2 DEF WroteWell
<1>8. \A x : Rehashed(config, x) => x \in DOMAIN wrote
  <2> SUFFICES ASSUME NEW x, Rehashed(config, x) PROVE x \in DOMAIN wrote
    OBVIOUS
  <2>1. PICK j \in (n + 2)..(Len(s) - 1) : s[j] = <<"rehash", x>>
    BY <1>1 DEF WriteOrder
  <2>2. j \in 1..d
    BY <1>2
  <2> QED
    BY <2>1, <2>2 DEF WroteWell
<1>9. \A x \in DOMAIN wrote : (Written(config, x) \/ Rehashed(config, x)) /\ FileRight(x, wrote[x], in, gas, config)
    BY DEF WroteWell
<1>10. \A x : Written(config, x) => x \in Tables /\ x \notin Generated
    BY TableNames DEF Written
<1>11. \A x : Rehashed(config, x) => x \in Generated /\ x \notin Tables
    BY TableNames DEF Rehashed
<1>12. ASSUME NEW e \in DOMAIN TableOf, TableOf[e] \in DOMAIN wrote PROVE \E i \in DOMAIN config : config[i] = e
  <2>1. Written(config, TableOf[e]) /\ TableOf[e] # "claims"
    BY <1>9, <1>11, <1>12, TableNames
  <2>2. PICK i \in DOMAIN config : config[i] \in DOMAIN TableOf /\ TableOf[config[i]] = TableOf[e]
    BY <2>1 DEF Written
  <2> QED
    BY <1>12, <2>2, TableNames
<1>13. ASSUME NEW e \in DOMAIN GeneratedOf, GeneratedOf[e] \in DOMAIN wrote PROVE \E i \in DOMAIN config : config[i] = e
  <2>1. Rehashed(config, GeneratedOf[e])
    BY <1>9, <1>10, <1>13, TableNames
  <2>2. PICK i \in DOMAIN config : config[i] \in DOMAIN GeneratedOf /\ GeneratedOf[config[i]] = GeneratedOf[e]
    BY <2>1 DEF Rehashed
  <2> QED
    BY <1>13, <2>2, TableNames
<1>14. ASSUME NEW i \in DOMAIN config, config[i] \in DOMAIN Alike PROVE Agree(hashed, Alike[config[i]])
  <2>1. PICK j \in 1..n : s[j] = <<"check", config[i]>>
    BY <1>1, <1>14 DEF LoadOrder
  <2>2. Agree(in, Alike[config[i]])
    BY <1>5, <2>1 DEF CheckedWell
  <2>3. Alike[config[i]] \subseteq DOMAIN hashed
    BY <1>3, <1>6, <1>14, LoadedFiles
  <2> QED
    BY <1>4, <2>2, <2>3 DEF Agree
<1>15. "claims" \in DOMAIN wrote
    BY <1>7 DEF Written
<1>16. ASSUME NEW x \in DOMAIN wrote PROVE wrote[x] # Torn /\ (x \in Tables => wrote[x].code = hashed["generator"])
    BY <1>3, <1>4, <1>9 DEF FileRight
<1>17. ASSUME NEW e \in DOMAIN TableOf, TableOf[e] \in DOMAIN wrote
       PROVE  /\ FilesOf(e) \subseteq DOMAIN hashed
              /\ \A f \in FilesOf(e) : wrote[TableOf[e]].of[f] = hashed[f]
              /\ e \in DOMAIN Alike => Agree(hashed, Alike[e])
  <2>1. PICK i \in DOMAIN config : config[i] = e
    BY <1>12, <1>17
  <2>2. \A f \in FilesOf(e) : wrote[TableOf[e]].of[f] = in[f]
    BY <1>9, <1>17 DEF FileRight
  <2> QED
    BY <1>3, <1>4, <1>14, <2>1, <2>2
<1>18. ASSUME "E3_generated" \in DOMAIN wrote
       PROVE  /\ FilesOf("E3") \subseteq DOMAIN hashed
              /\ wrote["E3_generated"].of["E3_artifacts"] = hashed["E3_artifacts"]
              /\ Agree(hashed, Alike["E3"])
  <2>1. PICK i \in DOMAIN config : config[i] = "E3"
    BY <1>13, <1>18, TableNames
  <2>2. wrote["E3_generated"].of["E3_artifacts"] = in["E3_artifacts"]
    BY <1>9, <1>18 DEF FileRight
  <2>3. "E3_artifacts" \in FilesOf("E3") /\ "E3" \in DOMAIN Alike
    BY FilesLoaded DEF Alike
  <2> QED
    BY <1>3, <1>4, <1>14, <2>1, <2>2, <2>3
<1>19. ASSUME NEW e \in wrote["claims"].claimed
       PROVE  e \in DOMAIN Judged /\ TableOf[e] \in DOMAIN wrote /\ FilesOf(e) \subseteq DOMAIN hashed /\ Agree(hashed, Judged[e])
  <2>1. e \in DOMAIN Judged /\ Contains(config, e) /\ Agree(in, Judged[e])
    BY <1>9, <1>15 DEF FileRight
  <2>2. PICK i \in DOMAIN config : config[i] = e
    BY <2>1 DEF Contains, Range
  <2>3. e \in DOMAIN TableOf
    BY <2>1, TableNames DEF Judged
  <2>4. TableOf[e] \in DOMAIN wrote
    BY <1>7, <2>2, <2>3 DEF Written
  <2>5. Judged[e] \subseteq DOMAIN hashed
    BY <1>3, <1>6, <2>1, <2>2, LoadedFiles
  <2> QED
    BY <1>3, <1>4, <2>1, <2>2, <2>4, <2>5 DEF Agree
<1>20. ("T12" \in DOMAIN wrote) = ("E7_generated" \in DOMAIN wrote)
  <2>1. ASSUME "T12" \in DOMAIN wrote PROVE "E7_generated" \in DOMAIN wrote
    <3>1. PICK i \in DOMAIN config : config[i] = "E7"
      BY <1>12, <2>1, TableNames
    <3>2. Rehashed(config, "E7_generated")
      BY <3>1, TableNames DEF Rehashed
    <3> QED
      BY <1>8, <3>2
  <2>2. ASSUME "E7_generated" \in DOMAIN wrote PROVE "T12" \in DOMAIN wrote
    <3>1. PICK i \in DOMAIN config : config[i] = "E7"
      BY <1>13, <2>2, TableNames
    <3>2. Written(config, "T12")
      BY <3>1, TableNames DEF Written
    <3> QED
      BY <1>7, <3>2
  <2> QED
    BY <2>1, <2>2
<1>21. ASSUME "T12" \in DOMAIN wrote PROVE wrote["T12"].gas = wrote["E7_generated"].gas
  <2>1. wrote["T12"].gas = gas /\ wrote["E7_generated"].gas = gas
    BY <1>9, <1>20, <1>21 DEF FileRight
  <2> QED
    BY <2>1
<1> QED
    BY <1>3, <1>15, <1>16, <1>17, <1>18, <1>19, <1>20, <1>21 DEF ManifestWell

LEMMA WriteManifestPreserves ==
    ASSUME ReportInvariant, NEW b \in Builders, WriteManifest(b)
    PROVE  ReportInvariant'
<1> DEFINE w == build[b]
           s == StepsOf(w.config)
           d == w.done
<1>1. Working(b) /\ Shaped /\ s[d + 1][1] = "manifest"
    BY ConfiguredSteps DEF WriteManifest, Doing, ReportInvariant
<1>2. w.config \in Seq(DOMAIN LoadSteps) /\ d \in Nat /\ d < Len(s)
  <2>1. Shaped /\ Working(b)
    BY <1>1, Zenon
  <2> QED
    BY <2>1, ConfiguredSteps
<1>3. d + 1 = Len(s)
    BY <1>1, <1>2, StepKinds
<1>4. /\ DOMAIN root' = DOMAIN root /\ root'.files = root.files
      /\ root'.manifest = [inputs |-> w.hashed, outputs |-> w.wrote, steady |-> w.steady]
    BY <1>1 DEF WriteManifest, Shaped
<1>5. ManifestsWell'
  <2> SUFFICES ASSUME root'.manifest.steady
               PROVE  ManifestWell(root'.manifest.inputs, root'.manifest.outputs)
    BY DEF ManifestsWell
  <2>1. w.steady /\ root'.manifest.inputs = w.hashed /\ root'.manifest.outputs = w.wrote
    BY <1>4
  <2>2. SteadyWell(w, input, root.files)
    BY <1>1, <2>1 DEF ReportInvariant, BuildsWell, Steady
  <2>3. /\ TakenWell(s, d, w.hashed, input, "hash") /\ CheckedWell(s, d, input)
        /\ WroteWell(w.config, s, d, w.wrote, input, w.measured)
    BY <2>2 DEF SteadyWell
  <2>4. ManifestWell(w.hashed, w.wrote)
    BY <1>2, <1>3, <2>3, ManifestRight
  <2> QED
    BY <2>1, <2>4
<1> QED
    BY <1>4, <1>5, StopAlone DEF WriteManifest

LEMMA DyingPreserves ==
    ASSUME ReportInvariant, NEW b \in Builders, DieWriting(b) \/ DieBuilding(b)
    PROVE  ReportInvariant'
<1>1. Stop(b) /\ input' = input
    BY DEF DieWriting, DieBuilding
<1>2. DOMAIN root' = DOMAIN root /\ root'.files = root.files /\ root'.manifest = root.manifest
    BY DEF DieWriting, DieBuilding, ReportInvariant, Shaped
<1>3. ManifestsWell'
    BY <1>2 DEF ReportInvariant, ManifestsWell
<1> QED
    BY <1>1, <1>2, <1>3, StopAlone

LEMMA BeginPreserves ==
    ASSUME ReportInvariant, NEW b \in Builders, NEW config \in Configured, Begin(b, config)
    PROVE  ReportInvariant'
<1> DEFINE r == [at |-> "work", config |-> config, done |-> 0, parsed |-> <<>>, hashed |-> <<>>, wrote |-> <<>>,
                 measured |-> 0, steady |-> \A other \in Builders : ~Working(other)]
           s == StepsOf(config)
<1>1. ~Working(b) /\ input' = input /\ root' = root
    BY DEF Begin, Working
<1>2. /\ DOMAIN build' = Builders /\ build'[b] = r
      /\ \A a \in Builders : a # b => build'[a] = IF Working(a) THEN [build[a] EXCEPT !.steady = FALSE] ELSE build[a]
    BY DEF Begin
<1>3. /\ DOMAIN r = WorkFields /\ r.at = "work" /\ r.config = config /\ r.done = 0 /\ r.parsed = <<>> /\ r.hashed = <<>>
      /\ r.wrote = <<>> /\ r.steady = (\A other \in Builders : ~Working(other))
    BY DEF WorkFields
<1>a. r.steady \in BOOLEAN
    BY <1>3
<1> HIDE DEF r
<1>4. config \in Seq(DOMAIN LoadSteps)
    BY ReportAssumption DEF ValidSources
<1>5. 0 < Len(s)
  <2>1. LastLoad(config) \in Nat \ {0} /\ LastLoad(config) + 1 < Len(s) /\ s \in Seq(StepSet)
    BY <1>4, WritesOrdered DEF WriteOrder
  <2> HIDE DEF s
  <2>2. Len(s) \in Nat
    BY <2>1
  <2> QED
    BY <2>1, <2>2
<1>6. ASSUME NEW a \in Builders, a # b
      PROVE  /\ Working(a)' <=> Working(a)
             /\ ~Steady(a)' \/ ~Working(a)
             /\ Working(a) => /\ DOMAIN build'[a] = WorkFields /\ build'[a].config = build[a].config
                              /\ build'[a].done = build[a].done /\ build'[a].steady = FALSE
  <2>1. CASE Working(a)
    <3>1. DOMAIN build[a] = WorkFields /\ build'[a] = [build[a] EXCEPT !.steady = FALSE]
      BY <1>2, <1>6, <2>1 DEF ReportInvariant, Shaped
    <3>2. build'[a].at = build[a].at /\ DOMAIN build'[a] = WorkFields /\ build'[a].config = build[a].config
          /\ build'[a].done = build[a].done /\ build'[a].steady = FALSE
      BY <3>1 DEF WorkFields
    <3> QED
      BY <2>1, <3>2 DEF Working, Steady
  <2>2. CASE ~Working(a)
    <3>1. build'[a] = build[a]
      BY <1>2, <1>6, <2>2
    <3> QED
      BY <2>2, <3>1 DEF Working, Steady
  <2> QED
    BY <2>1, <2>2
<1>7. Shaped'
  <2>1. ASSUME NEW a \in Builders, Working(a)'
        PROVE  /\ DOMAIN build'[a] = WorkFields
               /\ build'[a].config \in Configured /\ build'[a].done \in Nat
               /\ build'[a].done < Len(StepsOf(build'[a].config))
               /\ build'[a].steady \in BOOLEAN
    <3>1. CASE a = b
      <4>1. build'[a] = r /\ r.config = config /\ r.done = 0 /\ DOMAIN r = WorkFields
        BY <1>2, <1>3, <3>1
      <4>2. build'[a].done < Len(StepsOf(build'[a].config))
        BY <1>5, <4>1
      <4> QED
        BY <1>a, <4>1, <4>2
    <3>2. CASE a # b
      BY <1>6, <2>1, <3>2 DEF ReportInvariant, Shaped
    <3> QED
      BY <3>1, <3>2
  <2> QED
    BY <1>1, <1>2, <2>1 DEF ReportInvariant, Shaped
<1>8. ASSUME NEW a \in Builders, Steady(a)' PROVE a = b /\ \A other \in Builders : ~Working(other)
  <2>1. a = b
    BY <1>6, <1>8 DEF Steady
  <2> QED
    BY <1>2, <1>3, <1>8, <2>1 DEF Steady
<1>9. Alone'
  <2>1. ASSUME NEW a \in Builders, NEW other \in Builders, Steady(a)', Working(other)' PROVE other = a
    BY <1>6, <1>8, <2>1
  <2> QED
    BY <2>1 DEF Alone
<1>10. BuildsWell'
  <2>1. SteadyWell(r, input, root.files)
    <3>1. \A j \in 1..0 : FALSE
      OBVIOUS
    <3>2. DOMAIN << >> = {}
      OBVIOUS
    <3> QED
      BY <1>3, <3>1, <3>2 DEF SteadyWell, TakenWell, CheckedWell, WroteWell, MadeWell, Made
  <2> QED
    BY <1>1, <1>2, <1>8, <2>1 DEF BuildsWell
<1>11. ManifestsWell'
    BY <1>1 DEF ReportInvariant, ManifestsWell
<1> QED
    BY <1>7, <1>9, <1>10, <1>11 DEF ReportInvariant

LEMMA CorrectPreserves ==
    ASSUME ReportInvariant, Correct
    PROVE  ReportInvariant'
<1>1. /\ DOMAIN build' = Builders /\ root' = root
      /\ \A b \in Builders : build'[b] = IF Working(b) THEN [build[b] EXCEPT !.steady = FALSE] ELSE build[b]
    BY DEF Correct
<1>2. ASSUME NEW a \in Builders
      PROVE  /\ Working(a)' <=> Working(a)
             /\ ~Steady(a)'
             /\ Working(a) => /\ DOMAIN build'[a] = WorkFields /\ build'[a].config = build[a].config
                              /\ build'[a].done = build[a].done /\ build'[a].steady = FALSE
  <2>1. CASE Working(a)
    <3>1. DOMAIN build[a] = WorkFields /\ build'[a] = [build[a] EXCEPT !.steady = FALSE]
      BY <1>1, <2>1 DEF ReportInvariant, Shaped
    <3>2. build'[a].at = build[a].at /\ DOMAIN build'[a] = WorkFields /\ build'[a].config = build[a].config
          /\ build'[a].done = build[a].done /\ build'[a].steady = FALSE
      BY <3>1 DEF WorkFields
    <3> QED
      BY <2>1, <3>2 DEF Working, Steady
  <2>2. CASE ~Working(a)
    <3>1. build'[a] = build[a]
      BY <1>1, <2>2
    <3> QED
      BY <2>2, <3>1 DEF Working, Steady
  <2> QED
    BY <2>1, <2>2
<1>3. Shaped'
    BY <1>1, <1>2 DEF ReportInvariant, Shaped
<1>4. Alone' /\ BuildsWell'
    BY <1>2 DEF Alone, BuildsWell
<1>5. ManifestsWell'
    BY <1>1 DEF ReportInvariant, ManifestsWell
<1> QED
    BY <1>3, <1>4, <1>5 DEF ReportInvariant

LEMMA ReportStuttering ==
    ASSUME ReportInvariant, UNCHANGED reportVars
    PROVE  ReportInvariant'
<1>1. input' = input /\ build' = build /\ root' = root
    BY DEF reportVars
<1>2. Shaped'
    BY <1>1 DEF ReportInvariant, Shaped, Working
<1>3. Alone'
    BY <1>1 DEF ReportInvariant, Alone, Steady, Working
<1>4. BuildsWell'
    BY <1>1 DEF ReportInvariant, BuildsWell, Steady, Working
<1>5. ManifestsWell'
    BY <1>1 DEF ReportInvariant, ManifestsWell
<1> QED
    BY <1>2, <1>3, <1>4, <1>5 DEF ReportInvariant

LEMMA ReportBegins == ReportInit => ReportInvariant
<1> SUFFICES ASSUME ReportInit PROVE ReportInvariant
    OBVIOUS
<1>1. DOMAIN build = Builders /\ \A b \in Builders : ~Working(b)
    BY DEF ReportInit, Resting, Working
<1>2. DOMAIN root = {"files", "manifest", "litter"} /\ DOMAIN root.files = Tables \cup Generated /\ root.manifest = Missing
    BY DEF ReportInit
<1> QED
    BY <1>1, <1>2 DEF ReportInvariant, Shaped, Alone, BuildsWell, Steady, ManifestsWell

LEMMA ReportContinues == ReportInvariant /\ [ReportNext]_reportVars => ReportInvariant'
<1> SUFFICES ASSUME ReportInvariant, [ReportNext]_reportVars PROVE ReportInvariant'
    OBVIOUS
<1>1. ASSUME NEW b \in Builders, Parse(b) PROVE ReportInvariant'
    BY <1>1, ParsePreserves
<1>2. ASSUME NEW b \in Builders, HashInput(b) PROVE ReportInvariant'
    BY <1>2, HashInputPreserves
<1>3. ASSUME NEW b \in Builders, ParseHashed(b) PROVE ReportInvariant'
    BY <1>3, ParseHashedPreserves
<1>4. ASSUME NEW b \in Builders, CheckLoaded(b) PROVE ReportInvariant'
    BY <1>4, CheckLoadedPreserves
<1>5. ASSUME NEW b \in Builders, MeasureGas(b) PROVE ReportInvariant'
    BY <1>5, MeasureGasPreserves
<1>6. ASSUME NEW b \in Builders, Tear(b) PROVE ReportInvariant'
    BY <1>6, TearPreserves
<1>7. ASSUME NEW b \in Builders, Generate(b) PROVE ReportInvariant'
    BY <1>7, GeneratePreserves
<1>8. ASSUME NEW b \in Builders, WriteTable(b) PROVE ReportInvariant'
    BY <1>8, WriteTablePreserves
<1>9. ASSUME NEW b \in Builders, Rehash(b) PROVE ReportInvariant'
    BY <1>9, RehashPreserves
<1>10. ASSUME NEW b \in Builders, WriteManifest(b) PROVE ReportInvariant'
    BY <1>10, WriteManifestPreserves
<1>11. ASSUME NEW b \in Builders, DieWriting(b) \/ DieBuilding(b) PROVE ReportInvariant'
    BY <1>11, DyingPreserves
<1>12. ASSUME NEW b \in Builders, NEW config \in Configured, Begin(b, config) PROVE ReportInvariant'
    BY <1>12, BeginPreserves
<1>13. ASSUME Correct PROVE ReportInvariant'
    BY <1>13, CorrectPreserves
<1>14. ASSUME UNCHANGED reportVars PROVE ReportInvariant'
    BY <1>14, ReportStuttering
<1> QED
    BY <1>1, <1>2, <1>3, <1>4, <1>5, <1>6, <1>7, <1>8, <1>9, <1>10, <1>11, <1>12, <1>13, <1>14 DEF ReportNext

LEMMA InvariantMakesFaithful == ReportInvariant => ReportFaithful
<1> SUFFICES ASSUME ReportInvariant, Validates, root.manifest.steady
             PROVE  /\ \A n \in DOMAIN root.files : root.files[n] # Torn
                    /\ \A n \in Tables : root.files[n] # Missing => root.files[n].code = input["generator"]
                    /\ \A e \in DOMAIN TableOf :
                          root.files[TableOf[e]] # Missing =>
                             /\ \A f \in FilesOf(e) : root.files[TableOf[e]].of[f] = input[f]
                             /\ e \in DOMAIN Alike => Agree(input, Alike[e])
                    /\ root.files["E3_generated"] # Missing =>
                          root.files["E3_generated"].of["E3_artifacts"] = input["E3_artifacts"] /\ Agree(input, Alike["E3"])
                    /\ \A e \in root.files["claims"].claimed : root.files[TableOf[e]] # Missing /\ Agree(input, Judged[e])
                    /\ (root.files["T12"] = Missing) = (root.files["E7_generated"] = Missing)
                    /\ root.files["T12"] # Missing => root.files["T12"].gas = root.files["E7_generated"].gas
    BY DEF ReportFaithful
<1> DEFINE h == root.manifest.inputs
           o == root.manifest.outputs
           files == root.files
<1>1. ManifestWell(h, o)
    BY DEF Validates, ReportInvariant, ManifestsWell
<1>2. \A f \in DOMAIN h : input[f] = h[f]
    BY DEF Validates
<1>3. DOMAIN files = Tables \cup Generated
    BY DEF ReportInvariant, Shaped
<1>4. \A n \in DOMAIN o : files[n] = o[n]
    BY DEF Validates
<1>5. {n \in DOMAIN files : files[n] # Missing} = DOMAIN o
    BY DEF Validates, ClosedOutputs
<1> HIDE DEF h, o, files
<1>6. \A n \in Tables \cup Generated : (files[n] # Missing) <=> (n \in DOMAIN o)
    BY <1>3, <1>5
<1>7. \A n \in DOMAIN files : files[n] # Torn
  <2>1. Missing # Torn
    BY DEF Missing, Torn
  <2> QED
    BY <1>1, <1>3, <1>4, <1>6, <2>1 DEF ManifestWell
<1>8. \A n \in Tables : files[n] # Missing => files[n].code = input["generator"]
    BY <1>1, <1>2, <1>4, <1>6 DEF ManifestWell
<1>9. ASSUME NEW e \in DOMAIN TableOf, files[TableOf[e]] # Missing
      PROVE  /\ \A f \in FilesOf(e) : files[TableOf[e]].of[f] = input[f]
             /\ e \in DOMAIN Alike => Agree(input, Alike[e])
  <2>1. TableOf[e] \in DOMAIN o
    BY <1>6, <1>9, TableNames
  <2>2. /\ FilesOf(e) \subseteq DOMAIN h
        /\ \A f \in FilesOf(e) : o[TableOf[e]].of[f] = h[f]
        /\ e \in DOMAIN Alike => Agree(h, Alike[e])
    BY <1>1, <2>1 DEF ManifestWell
  <2>3. e \in DOMAIN Alike => Alike[e] \subseteq DOMAIN h
    <3>1. e \in DOMAIN LoadSteps
      BY TableNames DEF LoadSteps
    <3> QED
      BY <2>2, <3>1, LoadedFiles
  <2> QED
    BY <1>2, <1>4, <2>1, <2>2, <2>3 DEF Agree
<1>10. ASSUME files["E3_generated"] # Missing
       PROVE  files["E3_generated"].of["E3_artifacts"] = input["E3_artifacts"] /\ Agree(input, Alike["E3"])
  <2>1. "E3_generated" \in DOMAIN o
    BY <1>6, <1>10, TableNames
  <2>2. /\ FilesOf("E3") \subseteq DOMAIN h /\ o["E3_generated"].of["E3_artifacts"] = h["E3_artifacts"]
        /\ Agree(h, Alike["E3"])
    BY <1>1, <2>1 DEF ManifestWell
  <2>3. "E3_artifacts" \in FilesOf("E3") /\ Alike["E3"] \subseteq FilesOf("E3")
    BY FilesLoaded DEF Alike
  <2> QED
    BY <1>2, <1>4, <2>1, <2>2, <2>3 DEF Agree
<1>11. ASSUME NEW e \in files["claims"].claimed
       PROVE  files[TableOf[e]] # Missing /\ Agree(input, Judged[e])
  <2>1. "claims" \in DOMAIN o
    BY <1>1 DEF ManifestWell
  <2>2. e \in DOMAIN Judged /\ TableOf[e] \in DOMAIN o /\ FilesOf(e) \subseteq DOMAIN h /\ Agree(h, Judged[e])
    BY <1>1, <1>4, <2>1 DEF ManifestWell
  <2>3. e \in DOMAIN LoadSteps /\ e \in DOMAIN TableOf
    BY <2>2, TableNames DEF LoadSteps, Judged
  <2>4. Judged[e] \subseteq DOMAIN h
    BY <2>2, <2>3, LoadedFiles
  <2>5. TableOf[e] \in Tables
    BY <2>3, TableNames
  <2> QED
    BY <1>2, <1>6, <2>2, <2>4, <2>5 DEF Agree
<1>12. "T12" \in Tables /\ "E7_generated" \in Generated
    BY TableNames
<1>13. (files["T12"] = Missing) = (files["E7_generated"] = Missing)
    BY <1>1, <1>6, <1>12 DEF ManifestWell
<1>14. files["T12"] # Missing => files["T12"].gas = files["E7_generated"].gas
    BY <1>1, <1>4, <1>6, <1>12 DEF ManifestWell
<1> QED
    BY <1>7, <1>8, <1>9, <1>10, <1>11, <1>13, <1>14 DEF files

\* build_publication_report and validate_existing_manifest: a report that validates, of a build
\* that no edit and no other build disturbed, has no torn file, every table and generated file is
\* what the sources on disk make of it, every supported claim is supported by them, and the gas
\* table is of the raw measurements beside it, whatever experiments are configured.
THEOREM ReportsAreFaithful == ReportInit /\ [][ReportNext]_reportVars => []ReportFaithful
<1>1. ReportInit => ReportInvariant
    BY ReportBegins
<1>2. ReportInvariant /\ [ReportNext]_reportVars => ReportInvariant'
    BY ReportContinues
<1>3. ReportInvariant => ReportFaithful
    BY InvariantMakesFaithful
<1> QED
    BY <1>1, <1>2, <1>3, PTL
=============================================================================
