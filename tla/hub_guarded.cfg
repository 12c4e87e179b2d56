SPECIFICATION GuardedSpec
CONSTANTS
    Connectors = {c1, c2}
    Keys = {k1}
    ExternalIds = {x1}
    EventIds = {e1, e2}
    Workers = {w1}
    MaxAborts = 0
    MaxEdits = 1
    None = None
VIEW Unheard
SYMMETRY Symmetry
INVARIANTS
    OneRowPerSlot
    AppliedOnceDespitePurge
    EventsKeepTheirConnector
PROPERTIES
    GuardedLifecycle
