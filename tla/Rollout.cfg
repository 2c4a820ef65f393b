SPECIFICATION MCSpec
CONSTANTS
    Rollouts = {d1}
    d1 = d1
    Artifacts = {old, new}
    Installed = old
    old = old
    new = new
    Punctual = TRUE
    MaxClaims = 1
    MaxFaults = 1
INVARIANTS
    SucceededWasProven
    VerdictIsTrue
PROPERTIES
    RolloutEnds
CHECK_DEADLOCK FALSE
