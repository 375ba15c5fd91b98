----------------------------- MODULE MCRegistry -----------------------------
EXTENDS ArtifactRegistry, TLC

CONSTANTS p1, p2, base, rerun, child, i1, i2

\* Two versions of one artifact, and an artifact built on the first.
MCIdOf == base :> i1 @@ rerun :> i1 @@ child :> i2
MCParentsOf == base :> {} @@ rerun :> {} @@ child :> {base}
MCSymmetry == Permutations({p1, p2})
=============================================================================
