SPECIFICATION Spec
CONSTANTS
    Scopes = {s1}
    AccountIds = {a1, a2}
    Calls = {c1, c2}
    MaxTime = 2
    StateTTL = 2
    Lifetimes = {1}
    UniqueScope = TRUE
    MaxAborts = 1
    None = None
SYMMETRY Symmetry
INVARIANTS
    OneAccountPerScope
    CompletedOnce
    ActiveWasStored
    DisconnectedIsClosed
    VerifierOnlyWhilePending
PROPERTIES
    ImplementsAccountLifecycle
