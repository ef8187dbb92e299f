---------------------------- MODULE MCApiClients ----------------------------
(* Instance of ApiClients for TLC: a policy of two attempts, and noRetry.  *)
EXTENDS ApiClients

MCDefault == [MaxAttempts |-> 3, BaseDelay |-> 3, MaxDelay |-> 4, MaxWait |-> 6]

MCPolicies == {[MaxAttempts |-> 2, BaseDelay |-> 2, MaxDelay |-> 3, MaxWait |-> 2], noRetry}

MCRetryAfters == {[form |-> "none", n |-> 0], [form |-> "seconds", n |-> 1]}

MCChains == {{}, {"tls"}, {"deadline", "timeout"}}
=============================================================================
