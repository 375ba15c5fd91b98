----------------------------- MODULE FrozenStore -----------------------------
(***************************************************************************)
(* What a registry of frozen artifacts promises: artifacts are only added, *)
(* one for each artifact id, and each after all of its parents.            *)
(***************************************************************************)
CONSTANTS Artifacts, IdOf, ParentsOf

VARIABLE frozen   \* the artifacts that are frozen

Init == frozen = {}

Freeze(a) ==
    /\ \A b \in frozen : IdOf[b] # IdOf[a]
    /\ ParentsOf[a] \subseteq frozen
    /\ frozen' = frozen \cup {a}

Next == \E a \in Artifacts : Freeze(a)

Spec == Init /\ [][Next]_frozen
=============================================================================
