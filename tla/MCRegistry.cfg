SPECIFICATION Spec
CONSTANTS
    p1 = p1
    p2 = p2
    base = base
    rerun = rerun
    child = child
    i1 = i1
    i2 = i2
    Processes = {p1, p2}
    Artifacts = {base, rerun, child}
    Ids = {i1, i2}
    IdOf <- MCIdOf
    ParentsOf <- MCParentsOf
    NoArtifact = NoArtifact
    NoCall = NoCall
    MaxCalls = 2
SYMMETRY MCSymmetry
INVARIANT OutcomeTruthful
PROPERTIES ForeignTempPublished ImplementsStore
