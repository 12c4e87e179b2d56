SPECIFICATION GuardedSpec
CONSTANTS
    Connectors = {c1}
    Keys = {k1}
    ExternalIds = {x1}
    EventIds = {e1}
    Workers = {w1}
    MaxAborts = 0
    MaxEdits = 0
    None = None
INVARIANTS
    AnsweredIsSettled
