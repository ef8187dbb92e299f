SPECIFICATION ClientSpec
CONSTANTS
    Half = 128
    Second = 2
    Policies <- MCPolicies
    DefaultPolicy <- MCDefault
    Statuses = {200, 404, 408, 503}
    RetryAfters <- MCRetryAfters
    Chains <- MCChains
INVARIANTS
    ClientTypeOK
    UpstreamBudget
    OneLateCall
    BothFeedsAsked
    VerdictNeedsReply
