SPECIFICATION FairSpec
CONSTANTS
    Connectors = {c1}
    Keys = {k1}
    ExternalIds = {x1, x2}
    EventIds = {e1, e2}
    Workers = {w1, w2}
    MaxAborts = 1
    None = None
PROPERTIES
    ReceivedSettles
    RequestsReturn
    ImplementsLifecycle
    ClosedFallsSilent
