------------------------------ MODULE MCHttpDo ------------------------------
(* Instance of HttpDo for TLC: 8-bit durations, three policies of which one *)
(* overflows the shift and one has a zero field that normalize fills in.    *)
EXTENDS HttpDo

MCDefault == [MaxAttempts |-> 3, BaseDelay |-> 3, MaxDelay |-> 8, MaxWait |-> 6]

MCPolicies == {
    [MaxAttempts |-> 3, BaseDelay |-> 3, MaxDelay |-> 8, MaxWait |-> 6],
    [MaxAttempts |-> 0, BaseDelay |-> 0, MaxDelay |-> 0, MaxWait |-> 0],
    [MaxAttempts |-> 4, BaseDelay |-> 40, MaxDelay |-> 6, MaxWait |-> 5],
    [MaxAttempts |-> 2, BaseDelay |-> 1, MaxDelay |-> 8, MaxWait |-> 0]}

MCStatuses == {200, 404, 408, 429, 503}

MCRetryAfters == {[form |-> "none", n |-> 0], [form |-> "seconds", n |-> 2],
                  [form |-> "seconds", n |-> 20], [form |-> "seconds", n |-> 100],
                  [form |-> "date", n |-> -1]}

MCChains == {{}, {"dns"}, {"tls"}, {"deadline", "timeout"}}
=============================================================================
