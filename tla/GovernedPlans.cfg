CONSTANTS
    small = small
    large = large
    free = free
    limited = limited
    Previews = {p1}
    Executes = {e1, e2}
    Inputs = {small, large}
    Keys = {k1}
    Policies = {free, limited}
    Rows <- MCRows
    MaxRows <- MCMaxRows
    PlanTTL = 1
    MaxTime = 1
    PreviewMode = "required"
    RequiresIdempotency = TRUE
    Deny = Deny
    None = None
CONSTRAINT MCCalm
SYMMETRY MCSymmetry
SPECIFICATION Spec
INVARIANT PlansHonoured
INVARIANT RejectionsExplained
