--------------------------- MODULE RetryContract ----------------------------
(***************************************************************************)
(* What vshttp.Do promises to its caller and to the upstream, whatever the *)
(* network does: it calls the upstream at least once and at most budget    *)
(* times, begins at most one call after the caller's context is done, and  *)
(* gives up on a failure worth retrying only when the budget is spent or   *)
(* the caller has left.                                                    *)
(***************************************************************************)
EXTENDS Naturals

VARIABLES
    budget,   \* calls this request may cost the upstream
    used,     \* calls made so far
    gone,     \* the caller's context is done
    late,     \* calls begun after that
    outcome   \* "pending", or how Do returned

contract == <<budget, used, gone, late, outcome>>

Outcomes == {"value", "transient", "final", "panic"}

Init == /\ budget \in Nat \ {0}
        /\ used = 0
        /\ gone = FALSE
        /\ late = 0
        /\ outcome = "pending"

Call == /\ outcome = "pending"
        /\ used < budget
        /\ late = 0
        /\ used' = used + 1
        /\ late' = IF gone THEN 1 ELSE 0
        /\ UNCHANGED <<budget, gone, outcome>>

Leave == /\ ~gone
         /\ gone' = TRUE
         /\ UNCHANGED <<budget, used, late, outcome>>

Return(o) == /\ outcome = "pending"
             /\ used > 0
             /\ o = "transient" => gone \/ used = budget
             /\ outcome' = o
             /\ UNCHANGED <<budget, used, gone, late>>

Next == Call \/ Leave \/ \E o \in Outcomes : Return(o)

Spec == Init /\ [][Next]_contract
=============================================================================
