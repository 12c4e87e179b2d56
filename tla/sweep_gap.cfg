SPECIFICATION Spec
CONSTANTS
    Accounts = {a1}
    Companies = {c1}
    Jobs = {j1}
    Services = {}
    Window = 2
    Batch = 2
    Interval = 3
    FirstExpiry = {4}
    Life = 4
    MaxTime = 6
    Rotating = {}
    Unconfigured = {}
    Flaky = {}
    Glitches = 0
    MaxCrashes = 0
    GrantsDie = FALSE
    OwnerOf <- MCOwner
    c1 = c1
    None = None
PROPERTIES
    NoFalseExpiry
