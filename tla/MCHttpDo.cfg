SPECIFICATION LiveSpec
CONSTANTS
    Half = 128
    Second = 2
    Policies <- MCPolicies
    DefaultPolicy <- MCDefault
    Statuses <- MCStatuses
    RetryAfters <- MCRetryAfters
    Chains <- MCChains
INVARIANTS
    WaitBudget
    PanicOnlyWhenDegenerate
PROPERTIES
    ImplementsContract
    CancelledCallEnds
    EveryCallEnds
