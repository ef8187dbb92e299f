SPECIFICATION Spec
CONSTANTS
    Half = 128
    Second = 2
    Policies <- MCPolicies
    DefaultPolicy <- MCDefault
    Statuses <- MCStatuses
    RetryAfters <- MCRetryAfters
    Chains <- MCChains
INVARIANT
    CancelNeverRetryable
