SPECIFICATION Spec
CONSTANTS
    Scopes = {s1}
    AccountIds = {a1, a2, a3}
    Calls = {c1}
    MaxTime = 3
    StateTTL = 2
    Lifetimes = {1, 2}
    UniqueScope = FALSE
    MaxAborts = 2
    None = None
SYMMETRY Symmetry
INVARIANTS
    RevokedIsDead
    MirrorIsStore
