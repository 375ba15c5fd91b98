-------------------------- MODULE ArtifactRegistry --------------------------
(***************************************************************************)
(* src/poi_mpp/evidence/registry.py: processes that share one directory of *)
(* frozen artifacts.  A process opens the registry (it loads the published *)
(* files, then removes the temporary files of interrupted publications)    *)
(* and publishes by writing a temporary file and hard-linking it to its    *)
(* final name.  One step is one access to the directory; what a process    *)
(* keeps in memory (its entries) lags behind the directory.                *)
(*                                                                         *)
(* An artifact stands for its canonical envelope: two are equal exactly    *)
(* when their bytes are.  A file is named by the call that created it, so  *)
(* a call also stands for its inode and for its random temporary name.     *)
(***************************************************************************)
EXTENDS Integers

CONSTANTS
    Processes,
    Artifacts,   \* envelopes
    Ids,         \* artifact ids, hence file names
    IdOf,        \* artifact_id of an artifact
    ParentsOf,   \* the artifacts whose hashes it lists as parents
    NoArtifact,  \* what a file that was never created holds
    NoCall,      \* a name that is not taken
    MaxCalls     \* bound: calls of write_atomic that create a file, per process

Calls == Processes \X (1..MaxCalls)

ASSUME RegistryAssumption ==
    /\ IdOf \in [Artifacts -> Ids]
    /\ ParentsOf \in [Artifacts -> SUBSET Artifacts]
    /\ \A a \in Artifacts : a \notin ParentsOf[a]
    /\ NoArtifact \notin Artifacts
    /\ NoCall \notin Calls
    /\ MaxCalls \in Nat

VARIABLES
    target,   \* the file linked at <id>.frozen.json, or NoCall
    temps,    \* calls whose .<id>.<random>.tmp is in the directory
    content,  \* what the file of each call holds, or is to hold
    pc,       \* where each process stands
    entries,  \* self._entries: the artifacts a process knows to be frozen
    calls,    \* calls made by each process
    seen,     \* opening: the artifacts published when it listed the directory
    todo,     \* opening: the listed temporary files still to be recovered
    hand,     \* opening: the temporary file about to be unlinked, or NoCall
    outcome   \* how a call ended, as its caller saw it

vars == <<target, temps, content, pc, entries, calls, seen, todo, hand,
          outcome>>
disk == <<target, temps, content>>

Phases == {"closed", "loading", "recovering", "unlinking", "idle", "writing",
           "written", "linked", "excepted"}

TypeOK ==
    /\ target \in [Ids -> Calls \cup {NoCall}]
    /\ temps \subseteq Calls
    /\ content \in [Calls -> Artifacts \cup {NoArtifact}]
    /\ pc \in [Processes -> Phases]
    /\ entries \in [Processes -> SUBSET Artifacts]
    /\ calls \in [Processes -> 0..MaxCalls]
    /\ seen \in [Processes -> SUBSET Artifacts]
    /\ todo \in [Processes -> SUBSET Calls]
    /\ hand \in [Processes -> Calls \cup {NoCall}]
    /\ outcome \in [Calls -> {"open", "success", "raised"}]

Init ==
    /\ target = [i \in Ids |-> NoCall]
    /\ temps = {}
    /\ content = [c \in Calls |-> NoArtifact]
    /\ pc = [p \in Processes |-> "closed"]
    /\ entries = [p \in Processes |-> {}]
    /\ calls = [p \in Processes |-> 0]
    /\ seen = [p \in Processes |-> {}]
    /\ todo = [p \in Processes |-> {}]
    /\ hand = [p \in Processes |-> NoCall]
    /\ outcome = [c \in Calls |-> "open"]

-----------------------------------------------------------------------------
\* The artifacts whose final name is linked.
Published == {content[target[i]] : i \in {j \in Ids : target[j] # NoCall}}

\* The call a process is in.
Current(p) == <<p, calls[p]>>

FileName(c) == IdOf[content[c]]

\* Faulty variant: publication replaces whatever holds the final name.
MayReplace(c) == TRUE

\* os.link: the final name must be free.
NameIsFree(c) == target[FileName(c)] = NoCall

\* Faulty variant: recovery asks only whether the final name exists.
NameIsTaken(c) == target[FileName(c)] # NoCall

\* The temporary file and the final name are links to one inode.
IsLinked(c) == target[FileName(c)] = c

\* Faulty variant: an exception is taken to mean that nothing was published.
NeverMatches(c) == FALSE

\* _target_matches: the final name holds this call's bytes, whoever linked it.
TargetMatches(c) ==
    /\ target[FileName(c)] # NoCall
    /\ content[target[FileName(c)]] = content[c]

\* validate_artifact_graph: every parent of a loaded artifact was loaded too.
ClosedGraph(known) == \A a \in known : ParentsOf[a] \subseteq known

-----------------------------------------------------------------------------
(* Opening: __init__, _load_entries, _recover_temps *)

\* The constructor raises: the process holds no registry.
FailOpen(p) ==
    /\ pc' = [pc EXCEPT ![p] = "closed"]
    /\ entries' = [entries EXCEPT ![p] = {}]
    /\ seen' = [seen EXCEPT ![p] = {}]
    /\ todo' = [todo EXCEPT ![p] = {}]
    /\ hand' = [hand EXCEPT ![p] = NoCall]

BeginOpen(p) ==
    /\ pc[p] = "closed"
    /\ pc' = [pc EXCEPT ![p] = "loading"]
    /\ seen' = [seen EXCEPT ![p] = Published]
    /\ UNCHANGED <<disk, entries, calls, todo, hand, outcome>>

\* Reading a directory is not atomic: of what was published meanwhile, the
\* listing may hold any part.
LoadEntries(p) ==
    /\ pc[p] = "loading"
    /\ \E found \in SUBSET Published :
          /\ seen[p] \subseteq found
          /\ ClosedGraph(found)
          /\ entries' = [entries EXCEPT ![p] = found]
    /\ pc' = [pc EXCEPT ![p] = "recovering"]
    /\ seen' = [seen EXCEPT ![p] = {}]
    /\ todo' = [todo EXCEPT ![p] = temps]
    /\ UNCHANGED <<disk, calls, hand, outcome>>

LoadFails(p) ==
    /\ pc[p] = "loading"
    /\ \E found \in SUBSET Published : seen[p] \subseteq found /\ ~ClosedGraph(found)
    /\ FailOpen(p)
    /\ UNCHANGED <<disk, calls, outcome>>

\* A listed temporary file is recovered only if it is a second link to a
\* published file whose parents this process knows.
Recoverable(p, c) ==
    /\ c \in temps
    /\ IsLinked(c)
    /\ ParentsOf[content[c]] \subseteq entries[p]

CheckTemp(p, c) ==
    /\ pc[p] = "recovering"
    /\ c \in todo[p]
    /\ Recoverable(p, c)
    /\ pc' = [pc EXCEPT ![p] = "unlinking"]
    /\ hand' = [hand EXCEPT ![p] = c]
    /\ todo' = [todo EXCEPT ![p] = @ \ {c}]
    /\ UNCHANGED <<disk, entries, calls, seen, outcome>>

UnlinkTemp(p) ==
    /\ pc[p] = "unlinking"
    /\ hand[p] \in temps
    /\ temps' = temps \ {hand[p]}
    /\ pc' = [pc EXCEPT ![p] = "recovering"]
    /\ hand' = [hand EXCEPT ![p] = NoCall]
    /\ UNCHANGED <<target, content, entries, calls, seen, todo, outcome>>

\* An orphan, or a file another process removed between two looks at it.
RecoveryFails(p) ==
    /\ \/ pc[p] = "recovering" /\ \E c \in todo[p] : ~Recoverable(p, c)
       \/ pc[p] = "unlinking" /\ hand[p] \notin temps
    /\ FailOpen(p)
    /\ UNCHANGED <<disk, calls, outcome>>

FinishOpen(p) ==
    /\ pc[p] = "recovering"
    /\ todo[p] = {}
    /\ pc' = [pc EXCEPT ![p] = "idle"]
    /\ UNCHANGED <<disk, entries, calls, seen, todo, hand, outcome>>

-----------------------------------------------------------------------------
(* write_atomic *)

\* The artifact is validated against the entries in memory, however old; then
\* its temporary file is created, still empty.
StartWrite(p, a) ==
    /\ pc[p] = "idle"
    /\ calls[p] < MaxCalls
    /\ ParentsOf[a] \subseteq entries[p]
    /\ \A b \in entries[p] : IdOf[b] # IdOf[a]
    /\ calls' = [calls EXCEPT ![p] = @ + 1]
    /\ content' = [content EXCEPT ![<<p, calls[p] + 1>>] = a]
    /\ temps' = temps \cup {<<p, calls[p] + 1>>}
    /\ pc' = [pc EXCEPT ![p] = "writing"]
    /\ UNCHANGED <<target, entries, seen, todo, hand, outcome>>

FillTemp(p) ==
    /\ pc[p] = "writing"
    /\ pc' = [pc EXCEPT ![p] = "written"]
    /\ UNCHANGED <<disk, entries, calls, seen, todo, hand, outcome>>

\* The call ends with `result`; it removes its temporary file, knows its
\* artifact to be frozen, or not.
Return(p, result, removed, learned) ==
    /\ pc' = [pc EXCEPT ![p] = "idle"]
    /\ outcome' = [outcome EXCEPT ![Current(p)] = result]
    /\ temps' = temps \ removed
    /\ entries' = [entries EXCEPT ![p] = @ \cup learned]
    /\ UNCHANGED <<target, content, calls, seen, todo, hand>>

\* The temporary file does not hold the call's bytes yet, so
\* _cleanup_owned_temp leaves it where it is.
WriteFails(p) ==
    /\ pc[p] = "writing"
    /\ Return(p, "raised", {}, {})

\* An interrupt before the link: the file is removed if the disk allows it.
InterruptBeforeLink(p) ==
    /\ pc[p] = "written"
    /\ \E removed \in SUBSET {Current(p)} : Return(p, "raised", removed, {})

\* os.link; an interrupt may arrive before its return is seen.
Link(p) ==
    /\ pc[p] = "written"
    /\ NameIsFree(Current(p))
    /\ target' = [target EXCEPT ![FileName(Current(p))] = Current(p)]
    /\ \E next \in {"linked", "excepted"} : pc' = [pc EXCEPT ![p] = next]
    /\ UNCHANGED <<temps, content, entries, calls, seen, todo, hand, outcome>>

\* os.link raises, because the name is taken or for a reason of the disk's.
LinkFails(p) ==
    /\ pc[p] = "written"
    /\ pc' = [pc EXCEPT ![p] = "excepted"]
    /\ UNCHANGED <<disk, entries, calls, seen, todo, hand, outcome>>

\* _record_published: the target verified; a failed unlink is ignored, as is
\* one that finds the file already recovered by another process.
RecordPublished(p) ==
    /\ pc[p] = "linked"
    /\ \E removed \in SUBSET {Current(p)} :
          Return(p, "success", removed, {content[Current(p)]})

\* The except clause after the link was attempted: "the anchored target is
\* authoritative".  A matching target is success, and the temporary file stays.
HandleException(p) ==
    /\ pc[p] = "excepted"
    /\ \/ /\ TargetMatches(Current(p))
          /\ Return(p, "success", {}, {content[Current(p)]})
       \/ /\ ~TargetMatches(Current(p))
          /\ \E removed \in SUBSET {Current(p)} : Return(p, "raised", removed, {})

-----------------------------------------------------------------------------
\* The process dies, or closes the registry, at any point.
Crash(p) ==
    /\ pc[p] # "closed"
    /\ FailOpen(p)
    /\ UNCHANGED <<disk, calls, outcome>>

Open(p) ==
    \/ BeginOpen(p)
    \/ LoadEntries(p)
    \/ LoadFails(p)
    \/ \E c \in Calls : CheckTemp(p, c)
    \/ UnlinkTemp(p)
    \/ RecoveryFails(p)
    \/ FinishOpen(p)

Write(p) ==
    \/ \E a \in Artifacts : StartWrite(p, a)
    \/ FillTemp(p)
    \/ WriteFails(p)
    \/ InterruptBeforeLink(p)
    \/ Link(p)
    \/ LinkFails(p)
    \/ RecordPublished(p)
    \/ HandleException(p)

Next == \E p \in Processes : Open(p) \/ Write(p) \/ Crash(p)

Spec == Init /\ [][Next]_vars

-----------------------------------------------------------------------------
Store == INSTANCE FrozenStore WITH frozen <- Published

\* A frozen artifact is never changed, replaced or removed, one artifact holds
\* each id, and an artifact is frozen only after its parents, whatever the
\* processes do to one another (write_atomic, _recover_temps).
ImplementsStore == Store!Spec

\* What a process believes frozen is frozen: read_frozen finds each entry with
\* the bytes the process knows.
EntriesFrozen == \A p \in Processes : entries[p] \subseteq Published

\* What a process knows is closed under parents, even when it listed the
\* directory while others published: no publication rests on a missing parent.
EntriesClosed ==
    \A p \in Processes : \A a \in entries[p] : ParentsOf[a] \subseteq entries[p]

\* What the caller is told is so: after success the artifact is frozen with
\* the caller's bytes, after an exception the call's file is not published.
OutcomeTruthful ==
    \A c \in Calls :
        /\ outcome[c] = "success" => content[c] \in Published
        /\ outcome[c] = "raised" => \A i \in Ids : target[i] # c

\* A temporary file is taken away from the process that wrote it only when its
\* artifact is published: recovery never destroys an unfinished publication.
ForeignTempPublished ==
    [][\A c \in temps \ temps' : content[c] \in Published \/ outcome'[c] # outcome[c]]_vars
=============================================================================
