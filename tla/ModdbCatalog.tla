---------------------------- MODULE ModdbCatalog ----------------------------
(***************************************************************************)
(* The catalog of moddb.Client as Client.list and listForGameVersion keep  *)
(* it: a cached list per key, refreshed through singleflight, with the     *)
(* last cached list returned when a refresh fails. The unfiltered catalog  *)
(* and every game-version filter is a key of its own.                      *)
(*                                                                         *)
(* A list is represented by the upstream version it was built from; some   *)
(* versions are empty lists, which the two functions treat differently.    *)
(* singleflight.Group is external: DoChan joins the flight of its key or   *)
(* starts one, and a flight leaves the group in the step that sends its    *)
(* result to every channel.                                                *)
(***************************************************************************)
EXTENDS Naturals

CONSTANTS
    Callers,    \* goroutines that call List, Search or ListTags
    Filters,    \* game-version parameters
    Plain,      \* the key of the unfiltered catalog
    NoCaller,   \* not a caller
    MaxVersion, \* bound: versions the upstream publishes
    Empty       \* the versions whose list is empty

Keys == {Plain} \cup Filters

ASSUME CatalogAssumption ==
    /\ Plain \notin Filters
    /\ NoCaller \notin Callers
    /\ MaxVersion \in Nat \ {0}
    /\ Empty \subseteq 1 .. MaxVersion

VARIABLES
    published, \* newest version of the upstream
    data,      \* data[k]: version cached for k, 0 when nothing is
    fresh,     \* fresh[k]: the cached list is younger than catalogCacheTTL
    phase,     \* phase[k]: state of k's flight, "none" when there is none
    leader,    \* leader[k]: the caller whose closure the flight runs
    stale,     \* stale[k]: the version that closure captured at its lookup
    found,     \* found[k]: the version the upstream answered with
    waiters,   \* waiters[k]: callers whose channel gets the result
    pc,        \* pc[c]: where the call stands
    key,       \* key[c]: the key c asks for, the same in all its calls
    snap,      \* snap[c]: version cached when c looked it up
    ctx,       \* ctx[c]: TRUE when the context of c's call is done
    reply      \* reply[c]: what the channel, and at the end the call, gave

cache == <<data, fresh>>
flight == <<phase, leader, stale, found, waiters>>
calls == <<pc, key, snap, ctx, reply>>
vars == <<published, cache, flight, calls>>

Versions == 0 .. MaxVersion
Phases == {"none", "asked", "answered", "failed", "stored"}
Replies == [kind : {"none", "failed", "ctx"}, data : {0}]
           \cup [kind : {"ok"}, data : 1 .. MaxVersion]
           \cup [kind : {"stale"}, data : (1 .. MaxVersion) \ Empty]

NoReply == [kind |-> "none", data |-> 0]

\* Mutant: the length of the captured list is not asked.
NonemptyAny(v) == TRUE

\* len(list) > 0
Nonempty(v) == v # 0 /\ v \notin Empty

\* The lookup under the read lock finds a list to return: list wants a young
\* catalog with mods in it, listForGameVersion any young entry.
Hit(k) == /\ fresh[k]
          /\ data[k] # 0
          /\ k = Plain => Nonempty(data[k])

Init == /\ published = 1
        /\ data = [k \in Keys |-> 0]
        /\ fresh = [k \in Keys |-> FALSE]
        /\ phase = [k \in Keys |-> "none"]
        /\ leader = [k \in Keys |-> NoCaller]
        /\ stale = [k \in Keys |-> 0]
        /\ found = [k \in Keys |-> 0]
        /\ waiters = [k \in Keys |-> {}]
        /\ pc = [c \in Callers |-> "done"]
        /\ key \in [Callers -> Keys]
        /\ snap = [c \in Callers |-> 0]
        /\ ctx = [c \in Callers |-> FALSE]
        /\ reply = [c \in Callers |-> [kind |-> "failed", data |-> 0]]

-----------------------------------------------------------------------------
(* The environment *)

Publish == /\ published < MaxVersion
           /\ published' = published + 1
           /\ UNCHANGED <<cache, flight, calls>>

Expire(k) == /\ fresh[k]
             /\ fresh' = [fresh EXCEPT ![k] = FALSE]
             /\ UNCHANGED <<published, data, flight, calls>>

CtxDone(c) == /\ pc[c] # "done"
              /\ ~ctx[c]
              /\ ctx' = [ctx EXCEPT ![c] = TRUE]
              /\ UNCHANGED <<published, cache, flight, pc, key, snap, reply>>

-----------------------------------------------------------------------------
(* A call of list or listForGameVersion *)

\* The lookup, one critical section: a hit is returned, a miss keeps a copy
\* of what is cached.
Lookup(c) ==
    LET k == key[c] IN
    /\ pc[c] = "done"
    /\ snap' = [snap EXCEPT ![c] = data[k]]
    /\ ctx' = [ctx EXCEPT ![c] = FALSE]
    /\ \/ /\ Hit(k)
          /\ reply' = [reply EXCEPT ![c] = [kind |-> "ok", data |-> data[k]]]
          /\ UNCHANGED pc
       \/ /\ ~Hit(k)
          /\ reply' = [reply EXCEPT ![c] = NoReply]
          /\ pc' = [pc EXCEPT ![c] = "missed"]
    /\ UNCHANGED <<published, cache, flight, key>>

StartsFlight(c) == pc[c] = "missed" /\ phase[key[c]] = "none"

\* DoChan: joins the flight of the key or starts one. The cache is not looked
\* at again.
Join(c) ==
    LET k == key[c] IN
    /\ pc[c] = "missed"
    /\ waiters' = [waiters EXCEPT ![k] = @ \cup {c}]
    /\ pc' = [pc EXCEPT ![c] = "waiting"]
    /\ \/ /\ phase[k] = "none"
          /\ phase' = [phase EXCEPT ![k] = "asked"]
          /\ leader' = [leader EXCEPT ![k] = c]
          /\ stale' = [stale EXCEPT ![k] = snap[c]]
       \/ /\ phase[k] # "none"
          /\ UNCHANGED <<phase, leader, stale>>
    /\ UNCHANGED <<published, cache, found, key, snap, ctx, reply>>

\* The select after DoChan: the result has been received.
Receive(c) ==
    /\ pc[c] = "delivered"
    /\ pc' = [pc EXCEPT ![c] = "done"]
    /\ UNCHANGED <<published, cache, flight, key, snap, ctx, reply>>

\* Mutant: the wait for the flight is not a select.
GiveUpNever(c) ==
    /\ ctx[c]
    /\ pc[c] = "delivered"
    /\ pc' = [pc EXCEPT ![c] = "done"]
    /\ UNCHANGED <<published, cache, flight, key, snap, ctx, reply>>

\* The select after DoChan: the caller's context is done, result or not.
GiveUp(c) ==
    /\ pc[c] \in {"waiting", "delivered"}
    /\ ctx[c]
    /\ reply' = [reply EXCEPT ![c] = [kind |-> "ctx", data |-> 0]]
    /\ pc' = [pc EXCEPT ![c] = "done"]
    /\ waiters' = [waiters EXCEPT ![key[c]] = @ \ {c}]
    /\ UNCHANGED <<published, cache, phase, leader, stale, found, key, snap, ctx>>

-----------------------------------------------------------------------------
(* A flight *)

\* The context of a flight is context.WithoutCancel: it is never done.
FlightAborted(k) == FALSE

Answer(k) ==
    /\ phase[k] = "asked"
    /\ phase' = [phase EXCEPT ![k] = "answered"]
    /\ found' = [found EXCEPT ![k] = published]
    /\ UNCHANGED <<published, cache, leader, stale, waiters, calls>>

\* The fetch fails: transport, status, body or application status code.
Fail(k) ==
    /\ phase[k] = "asked"
    /\ phase' = [phase EXCEPT ![k] = "failed"]
    /\ UNCHANGED <<published, cache, leader, stale, found, waiters, calls>>

\* Mutant: the list is returned without being cached.
StoreNothing(k) ==
    /\ phase[k] = "answered"
    /\ phase' = [phase EXCEPT ![k] = "stored"]
    /\ UNCHANGED <<published, cache, leader, stale, found, waiters, calls>>

\* fetchCatalog, or the closure of listForGameVersion, caches the answer.
Store(k) ==
    /\ phase[k] = "answered"
    /\ phase' = [phase EXCEPT ![k] = "stored"]
    /\ data' = [data EXCEPT ![k] = found[k]]
    /\ fresh' = [fresh EXCEPT ![k] = TRUE]
    /\ UNCHANGED <<published, leader, stale, found, waiters, calls>>

\* What the closure of flight k returns.
Result(k) ==
    CASE phase[k] = "stored" -> [kind |-> "ok", data |-> found[k]]
      [] phase[k] = "failed" /\ Nonempty(stale[k]) -> [kind |-> "stale", data |-> stale[k]]
      [] phase[k] = "failed" /\ ~Nonempty(stale[k]) /\ FlightAborted(k) ->
            [kind |-> "ctx", data |-> 0]
      [] OTHER -> [kind |-> "failed", data |-> 0]

\* Mutant: only the caller that began the flight gets its result.
EndForLeader(k) ==
    /\ phase[k] \in {"stored", "failed"}
    /\ reply' = [c \in Callers |-> IF c \in waiters[k] /\ c = leader[k] THEN Result(k) ELSE reply[c]]
    /\ pc' = [c \in Callers |-> IF c \in waiters[k] /\ c = leader[k] THEN "delivered" ELSE pc[c]]
    /\ phase' = [phase EXCEPT ![k] = "none"]
    /\ leader' = [leader EXCEPT ![k] = NoCaller]
    /\ stale' = [stale EXCEPT ![k] = 0]
    /\ found' = [found EXCEPT ![k] = 0]
    /\ waiters' = [waiters EXCEPT ![k] = {}]
    /\ UNCHANGED <<published, cache, key, snap, ctx>>

\* singleflight: the flight leaves the group and its result is sent to every
\* channel.
End(k) ==
    /\ phase[k] \in {"stored", "failed"}
    /\ reply' = [c \in Callers |-> IF c \in waiters[k] THEN Result(k) ELSE reply[c]]
    /\ pc' = [c \in Callers |-> IF c \in waiters[k] THEN "delivered" ELSE pc[c]]
    /\ phase' = [phase EXCEPT ![k] = "none"]
    /\ leader' = [leader EXCEPT ![k] = NoCaller]
    /\ stale' = [stale EXCEPT ![k] = 0]
    /\ found' = [found EXCEPT ![k] = 0]
    /\ waiters' = [waiters EXCEPT ![k] = {}]
    /\ UNCHANGED <<published, cache, key, snap, ctx>>

Next == \/ Publish
        \/ \E k \in Keys : Expire(k) \/ Answer(k) \/ Fail(k) \/ Store(k) \/ End(k)
        \/ \E c \in Callers : CtxDone(c) \/ Lookup(c) \/ Join(c) \/ Receive(c) \/ GiveUp(c)

\* Goroutines run. That the upstream answers is not assumed here.
Fairness == /\ \A c \in Callers : WF_vars(Join(c)) /\ WF_vars(Receive(c)) /\ WF_vars(GiveUp(c))
            /\ \A k \in Keys : WF_vars(Store(k)) /\ WF_vars(End(k))

Spec == Init /\ [][Next]_vars
LiveSpec == Spec /\ Fairness

-----------------------------------------------------------------------------
(* Properties *)

\* Types of the cache, the flights and the calls.
TypeOK ==
    /\ published \in 1 .. MaxVersion
    /\ data \in [Keys -> Versions]
    /\ fresh \in [Keys -> BOOLEAN]
    /\ phase \in [Keys -> Phases]
    /\ leader \in [Keys -> Callers \cup {NoCaller}]
    /\ stale \in [Keys -> Versions]
    /\ found \in [Keys -> Versions]
    /\ waiters \in [Keys -> SUBSET Callers]
    /\ pc \in [Callers -> {"missed", "waiting", "delivered", "done"}]
    /\ key \in [Callers -> Keys]
    /\ snap \in [Callers -> Versions]
    /\ ctx \in [Callers -> BOOLEAN]
    /\ reply \in [Callers -> Replies]

\* A call that waits is registered with the running flight of its own key and
\* with no other: no result is lost and none goes to the wrong call.
NoLostWaiter ==
    \A c \in Callers, k \in Keys :
        /\ c \in waiters[k] <=> pc[c] = "waiting" /\ key[c] = k
        /\ c \in waiters[k] => phase[k] # "none"

\* The version cached for a key never goes back, whatever order flights,
\* failures and expirations come in: a failed refresh or a late answer never
\* replaces newer data.
CacheMonotone == [][\A k \in Keys : data[k] <= data'[k]]_vars

\* A call that succeeds returns data no older than what was cached when it
\* looked, even when it joined a flight begun before its lookup, and that
\* data is in the cache by then, so no later call sees an older list.
OkIsCurrent ==
    \A c \in Callers : reply[c].kind = "ok" =>
        snap[c] <= reply[c].data /\ reply[c].data <= data[key[c]]

\* A caller gets a context error only when its own context is done: leaving
\* never cancels the request the other callers wait for.
CancelIsolated ==
    \A c \in Callers : reply[c].kind = "ctx" => ctx[c]

\* A call whose context is done returns, though the upstream never answers.
CancelledCallReturns ==
    \A c \in Callers : pc[c] # "done" /\ ctx[c] ~> pc[c] = "done"

\* If every request ends, every call returns.
EveryCallReturns ==
    (\A k \in Keys : WF_vars(Answer(k) \/ Fail(k)))
        => \A c \in Callers : pc[c] # "done" ~> pc[c] = "done"

\* The promise of a catalog is kept; any list a reply has is stored.
Promise == INSTANCE CatalogPromise
    WITH Refused <- {},
         held <- data,
         asked <- [c \in Callers |-> [key |-> key[c], floor |-> snap[c]]],
         gone <- ctx,
         answer <- [c \in Callers |-> IF pc[c] = "done" THEN reply[c] ELSE NoReply]

\* Every behaviour of the cache is one that CatalogPromise allows.
KeepsPromise == Promise!Spec

\* README: "a cache miss under load causes exactly one upstream request". A
\* request is made only while the cache has nothing to return.
OneRequestPerMiss ==
    [][\A c \in Callers : StartsFlight(c) /\ Join(c) => ~Hit(key[c])]_vars
=============================================================================
