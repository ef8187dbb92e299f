---------------------------- MODULE LockedCatalog ----------------------------
(***************************************************************************)
(* The two catalogs that are cached behind a plain mutex: versions.Catalog *)
(* and servers.Client. List holds the mutex over the lookup, the request   *)
(* and the update of the cache. Each is a key of its own; they differ only *)
(* in what an empty answer does: versions caches the empty list (and so    *)
(* fetches again on the next call), servers reports it as an error.        *)
(* A list is represented by the upstream version it was parsed from.       *)
(***************************************************************************)
EXTENDS Naturals

CONSTANTS
    Callers,    \* goroutines that call List
    NoCaller,   \* not a caller
    MaxVersion, \* bound: versions the upstream publishes
    Empty       \* the versions whose list is empty

Keys == {"versions", "servers"}

ASSUME LockedAssumption ==
    /\ NoCaller \notin Callers
    /\ MaxVersion \in Nat \ {0}
    /\ Empty \subseteq 1 .. MaxVersion

VARIABLES
    published,  \* newest version of the upstream
    data,       \* data[k]: version cached for k, 0 when nothing is
    fresh,      \* fresh[k]: the cached list is younger than five minutes
    holder,     \* holder[k]: the caller holding the mutex over its request
    found,      \* found[k]: version the holder's request was answered with, or 0
    pc,         \* pc[c]: "done", "lock" (in line for the mutex), "fetch" or "stored"
    key,        \* key[c]: the catalog c asks for, the same in all its calls
    snap,       \* history: snap[c], version cached when the call began
    ctx,        \* ctx[c]: the context of c's call is done
    reply       \* reply[c]: what the call returned

cache == <<data, fresh>>
mutex == <<holder, found>>
vars == <<published, cache, mutex, pc, key, snap, ctx, reply>>

Versions == 0 .. MaxVersion
Replies == [kind : {"none", "failed", "ctx"}, data : {0}]
           \cup [kind : {"ok"}, data : 1 .. MaxVersion]

NoReply == [kind |-> "none", data |-> 0]
Failure(kind) == [kind |-> kind, data |-> 0]

\* versions asks for a nonempty list; servers for one that is not nil, and it
\* never stores an empty one.
Hit(k) == fresh[k] /\ data[k] # 0 /\ data[k] \notin Empty

Init == /\ published = 1
        /\ data = [k \in Keys |-> 0]
        /\ fresh = [k \in Keys |-> FALSE]
        /\ holder = [k \in Keys |-> NoCaller]
        /\ found = [k \in Keys |-> 0]
        /\ pc = [c \in Callers |-> "done"]
        /\ key \in [Callers -> Keys]
        /\ snap = [c \in Callers |-> 0]
        /\ ctx = [c \in Callers |-> FALSE]
        /\ reply = [c \in Callers |-> Failure("failed")]

-----------------------------------------------------------------------------
(* The environment *)

Publish == /\ published < MaxVersion
           /\ published' = published + 1
           /\ UNCHANGED <<cache, mutex, pc, key, snap, ctx, reply>>

Expire(k) == /\ fresh[k]
             /\ fresh' = [fresh EXCEPT ![k] = FALSE]
             /\ UNCHANGED <<published, data, mutex, pc, key, snap, ctx, reply>>

CtxDone(c) == /\ pc[c] # "done"
              /\ ~ctx[c]
              /\ ctx' = [ctx EXCEPT ![c] = TRUE]
              /\ UNCHANGED <<published, cache, mutex, pc, key, snap, reply>>

-----------------------------------------------------------------------------
(* List *)

\* List is called and waits for the mutex, whatever its context does.
Call(c) ==
    LET k == key[c] IN
    /\ pc[c] = "done"
    /\ pc' = [pc EXCEPT ![c] = "lock"]
    /\ snap' = [snap EXCEPT ![c] = data[k]]
    /\ ctx' = [ctx EXCEPT ![c] = FALSE]
    /\ reply' = [reply EXCEPT ![c] = NoReply]
    /\ UNCHANGED <<published, cache, mutex, key>>

\* The mutex is free and the cache has a list: lock, copy, unlock.
LockHit(c) ==
    /\ pc[c] = "lock"
    /\ holder[key[c]] = NoCaller
    /\ Hit(key[c])
    /\ reply' = [reply EXCEPT ![c] = [kind |-> "ok", data |-> data[key[c]]]]
    /\ pc' = [pc EXCEPT ![c] = "done"]
    /\ UNCHANGED <<published, cache, mutex, key, snap, ctx>>

\* Mutant: the mutex is given up for the time of the request.
LockMissUnlocked(c) ==
    /\ pc[c] = "lock"
    /\ ~Hit(key[c])
    /\ holder' = [holder EXCEPT ![key[c]] = c]
    /\ pc' = [pc EXCEPT ![c] = "fetch"]
    /\ UNCHANGED <<published, cache, found, key, snap, ctx, reply>>

\* The mutex is free and there is no list to return: the request begins, and
\* the mutex stays locked until List returns.
LockMiss(c) ==
    /\ pc[c] = "lock"
    /\ holder[key[c]] = NoCaller
    /\ ~Hit(key[c])
    /\ holder' = [holder EXCEPT ![key[c]] = c]
    /\ pc' = [pc EXCEPT ![c] = "fetch"]
    /\ UNCHANGED <<published, cache, found, key, snap, ctx, reply>>

\* The upstream answers the request.
Answer(c) ==
    /\ pc[c] = "fetch"
    /\ found[key[c]] = 0
    /\ found' = [found EXCEPT ![key[c]] = published]
    /\ UNCHANGED <<published, cache, holder, pc, key, snap, ctx, reply>>

\* List returns r and unlocks.
Return(c, r) ==
    /\ reply' = [reply EXCEPT ![c] = r]
    /\ pc' = [pc EXCEPT ![c] = "done"]
    /\ holder' = [holder EXCEPT ![key[c]] = NoCaller]
    /\ found' = [found EXCEPT ![key[c]] = 0]
    /\ UNCHANGED <<published, key, snap, ctx>>

\* Mutant: servers caches a page without listings as versions does.
AcceptableAny(k) == k \in Keys

Acceptable(k) == k = "versions" \/ found[k] \notin Empty

\* The answer was read and parsed: it is cached.
Store(c) ==
    /\ pc[c] = "fetch"
    /\ found[key[c]] # 0
    /\ Acceptable(key[c])
    /\ data' = [data EXCEPT ![key[c]] = found[key[c]]]
    /\ fresh' = [fresh EXCEPT ![key[c]] = TRUE]
    /\ pc' = [pc EXCEPT ![c] = "stored"]
    /\ UNCHANGED <<published, mutex, key, snap, ctx, reply>>

\* The list just cached is returned.
Deliver(c) ==
    /\ pc[c] = "stored"
    /\ Return(c, [kind |-> "ok", data |-> found[key[c]]])
    /\ UNCHANGED cache

\* servers: "catalog contained no server listings".
Reject(c) ==
    /\ pc[c] = "fetch"
    /\ found[key[c]] # 0
    /\ ~Acceptable(key[c])
    /\ Return(c, Failure("failed"))
    /\ UNCHANGED cache

\* Mutant: the error path does not unlock.
FetchFailLocked(c) ==
    /\ pc[c] = "fetch"
    /\ reply' = [reply EXCEPT ![c] = Failure("failed")]
    /\ pc' = [pc EXCEPT ![c] = "done"]
    /\ UNCHANGED <<published, cache, mutex, key, snap, ctx>>

\* The request, the reading or the parsing of the answer fails; under a
\* finished context the error may be the context's.
FetchFail(c) ==
    /\ pc[c] = "fetch"
    /\ \E e \in {"failed"} \cup (IF ctx[c] THEN {"ctx"} ELSE {}) : Return(c, Failure(e))
    /\ UNCHANGED cache

Next == \/ Publish
        \/ \E k \in Keys : Expire(k)
        \/ \E c \in Callers : \/ CtxDone(c) \/ Call(c) \/ LockHit(c) \/ LockMiss(c)
                              \/ Answer(c) \/ Store(c) \/ Deliver(c)
                              \/ Reject(c) \/ FetchFail(c)

\* sync.Mutex is starvation free, so a caller in line gets it again and again
\* free or not; net/http gives up a request whose context is done. That a
\* live request ends is not assumed here.
Fairness == \A c \in Callers :
                /\ SF_vars(LockHit(c) \/ LockMiss(c))
                /\ WF_vars(Store(c) \/ Deliver(c) \/ Reject(c))
                /\ WF_vars(ctx[c] /\ FetchFail(c))

Spec == Init /\ [][Next]_vars
LiveSpec == Spec /\ Fairness

-----------------------------------------------------------------------------
(* Properties *)

\* Types of the cache, the mutex and the calls.
TypeOK ==
    /\ published \in 1 .. MaxVersion
    /\ data \in [Keys -> Versions]
    /\ fresh \in [Keys -> BOOLEAN]
    /\ holder \in [Keys -> Callers \cup {NoCaller}]
    /\ found \in [Keys -> Versions]
    /\ pc \in [Callers -> {"done", "lock", "fetch", "stored"}]
    /\ key \in [Callers -> Keys]
    /\ snap \in [Callers -> Versions]
    /\ ctx \in [Callers -> BOOLEAN]
    /\ reply \in [Callers -> Replies]

\* While a request is under way the cache has nothing to return: no caller
\* fetches what another has just stored. moddb's catalog lacks this.
NoFetchWhileFresh ==
    \A c \in Callers : pc[c] = "fetch" => ~Hit(key[c])

\* The version cached for a catalog never goes back: neither a failed refresh
\* nor an answer without servers replaces a cached list.
CacheMonotone == [][\A k \in Keys : data[k] <= data'[k]]_vars

\* If every request ends, every call returns: the line for the mutex moves on
\* after failures and cancellations too.
EveryCallReturns ==
    (\A c \in Callers : WF_vars(FetchFail(c) \/ Answer(c)))
        => \A c \in Callers : pc[c] # "done" ~> pc[c] = "done"

\* The promise of a catalog is kept; what servers refuses is a page without
\* listings.
Promise == INSTANCE CatalogPromise
    WITH Refused <- {"servers"} \X Empty,
         held <- data,
         asked <- [c \in Callers |-> [key |-> key[c], floor |-> snap[c]]],
         gone <- ctx,
         answer <- reply

\* Every behaviour of the two catalogs is one that CatalogPromise allows: no
\* call is answered with less than was cached when it began or with another
\* caller's cancellation, and neither a failed request nor, for servers, a page
\* without listings replaces what is cached.
KeepsPromise == Promise!Spec
=============================================================================
