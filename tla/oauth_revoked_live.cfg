SPECIFICATION Spec
CONSTANTS
    Scopes = {s1}
    AccountIds = {a1, a2}
    Calls = {c1, c2}
    MaxTime = 1
    StateTTL = 1
    Lifetimes = {1}
    UniqueScope = TRUE
    MaxAborts = 0
    None = None
SYMMETRY Symmetry
INVARIANTS
    RevokedIsDead
