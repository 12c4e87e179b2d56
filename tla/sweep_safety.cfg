SPECIFICATION Spec
CONSTANTS
    Accounts = {a1}
    Companies = {c1}
    Jobs = {j1}
    Services = {v1}
    Window = 2
    Batch = 1
    Interval = 2
    FirstExpiry = {1, 3}
    Life = 3
    MaxTime = 3
    Rotating = {a1}
    Unconfigured = {}
    Flaky = {a1}
    Glitches = 1
    MaxCrashes = 1
    GrantsDie = TRUE
    OwnerOf <- MCOwner
    c1 = c1
    None = None
INVARIANTS
    ClaimsDisjoint
    RevokedIsDead
    MirrorNotLate
PROPERTIES
    StatusFinal
