SPECIFICATION FairSpec
CONSTANTS
    Accounts = {a1, a2, a3}
    Companies = {c1}
    Jobs = {j1}
    Services = {}
    Window = 5
    Batch = 2
    Interval = 2
    FirstExpiry = {5, 6}
    Life = 6
    MaxTime = 7
    Rotating = {a2}
    Unconfigured = {a1}
    Flaky = {}
    Glitches = 0
    MaxCrashes = 0
    GrantsDie = FALSE
    OwnerOf <- MCOwner
    c1 = c1
    None = None
PROPERTIES
    NoFalseExpiry
    HealthyServed
