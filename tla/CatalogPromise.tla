--------------------------- MODULE CatalogPromise ---------------------------
(***************************************************************************)
(* What a cached catalog promises its callers, however it is fetched and   *)
(* shared. The upstream publishes versions 1, 2, ...; for each key the     *)
(* client holds the last version it stored, and that version never goes    *)
(* back. A version whose list is an error for the key is neither held nor  *)
(* returned. A call that succeeds returns a version the client holds, no   *)
(* less than when the call began and no more than when it ends; stale data *)
(* was held once; and a call ends with a context error only if its own     *)
(* context is done.                                                        *)
(***************************************************************************)
EXTENDS Naturals

CONSTANTS
    Callers,   \* goroutines calling the client
    Keys,      \* catalogs kept apart
    Refused    \* <<key, version>>: versions whose list is an error for the key

VARIABLES
    published, \* newest version the upstream has
    held,      \* held[k]: version held for key k, 0 before the first
    asked,     \* asked[c]: key and floor of c's call, or of its last one
    gone,      \* gone[c]: the context of c's call is done
    answer     \* answer[c]: how the call ended; kind "none" while it runs

promise == <<published, held, asked, gone, answer>>

Kinds == {"ok", "stale", "failed", "ctx"}

NoAnswer == [kind |-> "none", data |-> 0]
\* Before its first call a caller is as after a failed one.
Rest == [kind |-> "failed", data |-> 0]

Init == /\ published = 1
        /\ held = [k \in Keys |-> 0]
        /\ asked \in [Callers -> {[key |-> k, floor |-> 0] : k \in Keys}]
        /\ gone = [c \in Callers |-> FALSE]
        /\ answer = [c \in Callers |-> Rest]

Publish == /\ published' = published + 1
           /\ UNCHANGED <<held, asked, gone, answer>>

Hold(k) == /\ \E v \in held[k] .. published : /\ <<k, v>> \notin Refused
                                              /\ held' = [held EXCEPT ![k] = v]
           /\ UNCHANGED <<published, asked, gone, answer>>

Ask(c, k) == /\ answer[c].kind # "none"
             /\ asked' = [asked EXCEPT ![c] = [key |-> k, floor |-> held[k]]]
             /\ gone' = [gone EXCEPT ![c] = FALSE]
             /\ answer' = [answer EXCEPT ![c] = NoAnswer]
             /\ UNCHANGED <<published, held>>

Leave(c) == /\ answer[c].kind = "none"
            /\ gone' = [gone EXCEPT ![c] = TRUE]
            /\ UNCHANGED <<published, held, asked, answer>>

\* The answers call c may end with now.
Fitting(c, a) ==
    \/ /\ a.kind = "ok" /\ asked[c].floor <= a.data /\ a.data <= held[asked[c].key]
       /\ <<asked[c].key, a.data>> \notin Refused
    \/ a.kind = "stale" /\ 0 < a.data /\ a.data <= held[asked[c].key]
    \/ a.kind = "failed"
    \/ a.kind = "ctx" /\ gone[c]

Reply(c) == /\ answer[c].kind = "none"
            /\ \E kind \in Kinds, d \in 0 .. published :
                  /\ Fitting(c, [kind |-> kind, data |-> d])
                  /\ answer' = [answer EXCEPT ![c] = [kind |-> kind, data |-> d]]
            /\ UNCHANGED <<published, held, asked, gone>>

\* A call answered from the cache begins and ends in one step.
Hit(c, k) == /\ answer[c].kind # "none"
             /\ held[k] > 0
             /\ asked' = [asked EXCEPT ![c] = [key |-> k, floor |-> held[k]]]
             /\ gone' = [gone EXCEPT ![c] = FALSE]
             /\ answer' = [answer EXCEPT ![c] = [kind |-> "ok", data |-> held[k]]]
             /\ UNCHANGED <<published, held>>

Next == \/ Publish
        \/ \E k \in Keys : Hold(k)
        \/ \E c \in Callers : Leave(c) \/ Reply(c)
        \/ \E c \in Callers, k \in Keys : Ask(c, k) \/ Hit(c, k)

Spec == Init /\ [][Next]_promise
=============================================================================
