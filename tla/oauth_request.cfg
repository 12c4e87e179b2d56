SPECIFICATION Spec
CONSTANTS
    Pairs <- MCPairs
    MaxPairs = 3
    None = None
INVARIANTS
    TouchesNeedPermission
    IdentityProven
    RefusalLeavesStore
