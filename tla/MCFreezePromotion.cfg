SPECIFICATION FreezeSpec
CONSTANTS
    Revisions <- MCRevisions
    Data <- MCData
    Partial <- MCPartial
    Signatures = 1
    Edits = 3
    Reruns = 2
INVARIANT FrozenAsReviewed
PROPERTIES FrozenStays ReadyCandidateFreezes
CHECK_DEADLOCK FALSE
