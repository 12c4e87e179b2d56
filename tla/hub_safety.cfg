SPECIFICATION Spec
CONSTANTS
    Connectors = {c1}
    Keys = {k1, k2}
    ExternalIds = {x1, x2}
    EventIds = {e1, e2}
    Workers = {w1, w2}
    MaxAborts = 1
    None = None
SYMMETRY Symmetry
INVARIANTS
    TypeOK
    OneRowPerAction
    AppliedAtMostOnce
    OutboxMatchesRow
    MarkHitsItsRow
    PublishedWasStaged
    AnswersStand
    RowDetail
    MappedToItsOwnRecord
PROPERTIES
    SettledIsFinal
