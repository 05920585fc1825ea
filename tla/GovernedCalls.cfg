CONSTANTS
    small = small
    large = large
    free = free
    limited = limited
    Previews = {}
    Executes = {e1, e2}
    Inputs = {small, large}
    Keys = {k1}
    Policies = {free}
    Rows <- MCRows
    MaxRows <- MCMaxRows
    PlanTTL = 1
    MaxTime = 0
    PreviewMode = "none"
    RequiresIdempotency = FALSE
    Deny = Deny
    None = None
SPECIFICATION FairSpec
INVARIANT OnceAndInOrder
INVARIANT EvidenceAtomic
PROPERTY ImplementsCommand
PROPERTY CallsEnd
