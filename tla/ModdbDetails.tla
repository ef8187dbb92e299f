---------------------------- MODULE ModdbDetails ----------------------------
(***************************************************************************)
(* moddb.Client.Get: the details of a mod, looked up by its numeric ID or  *)
(* by its slug. An answer is cached under the name asked for, under the ID *)
(* it carries and under the slug it carries; requests are shared through   *)
(* singleflight by the name asked for. Mods are renamed upstream, and a    *)
(* slug given up by one mod may be taken by another.                       *)
(*                                                                         *)
(* An answer is represented by its mod and the upstream version it was     *)
(* built from. singleflight and the upstream are external.                 *)
(***************************************************************************)
EXTENDS Naturals

CONSTANTS
    Callers,    \* goroutines that call Get
    Ids,        \* numeric IDs, as text
    Slugs,      \* slugs
    NoSlug,     \* the slug of a mod that has none
    Absent,     \* marks a mod that is not in the directory
    NoMod,      \* not a mod
    Blank,      \* the empty name
    Asked,      \* the names callers ask for
    MaxVersion, \* bound: versions of the upstream directory
    SlugOf      \* SlugOf[v][i]: slug of mod i in version v of the directory

Names == Ids \cup Slugs
Versions == 1 .. MaxVersion

ASSUME DetailsAssumption ==
    /\ MaxVersion \in Nat \ {0}
    /\ Ids \cap Slugs = {}
    /\ {NoSlug, Absent, NoMod, Blank} \cap Names = {}
    /\ Asked \subseteq Names \cup {Blank}
    /\ SlugOf \in [Versions -> [Ids -> Slugs \cup {NoSlug, Absent}]]

VARIABLES
    published, \* newest version of the directory
    details,   \* details[n]: answer cached under n, None when there is none
               \* younger than detailsCacheTTL: an older one is never read
    phase,     \* phase[n]: state of the flight of name n
    found,     \* found[n]: the answer the flight got
    waiters,   \* waiters[n]: callers whose channel gets its result
    pc,        \* pc[c]: where the call stands
    name,      \* name[c]: the name asked for
    ctx,       \* ctx[c]: the context of the call is done
    reply      \* reply[c]: what the channel, and at the end the call, gave

flight == <<phase, found, waiters>>
calls == <<pc, name, ctx, reply>>
vars == <<published, details, flight, calls>>

None == [mod |-> NoMod, version |-> 0]
Entries == [mod : Ids, version : Versions]
Phases == {"none", "asked", "answered", "absent", "failed", "stored"}

SlugIn(e) == SlugOf[e.version][e.mod]

\* The answer e is about a mod that was called n when it was given.
Carries(e, n) == e.mod = n \/ SlugIn(e) = n

Resolved(n) == {e \in Entries : /\ e.version = published
                                /\ SlugIn(e) # Absent
                                /\ Carries(e, n)}

Outcome(kind, e) == [kind |-> kind, entry |-> e]
NoReply == Outcome("none", None)
Replies == [kind : {"none", "not_found", "failed", "ctx"}, entry : {None}]
           \cup [kind : {"ok"}, entry : Entries]

Init == /\ published = 1
        /\ details = [n \in Names |-> None]
        /\ phase = [n \in Names |-> "none"]
        /\ found = [n \in Names |-> None]
        /\ waiters = [n \in Names |-> {}]
        /\ pc = [c \in Callers |-> "done"]
        /\ name = [c \in Callers |-> Blank]
        /\ ctx = [c \in Callers |-> FALSE]
        /\ reply = [c \in Callers |-> Outcome("not_found", None)]

-----------------------------------------------------------------------------
(* The environment *)

Publish == /\ published < MaxVersion
           /\ published' = published + 1
           /\ UNCHANGED <<details, flight, calls>>

Expire(n) == /\ details[n] # None
             /\ details' = [details EXCEPT ![n] = None]
             /\ UNCHANGED <<published, flight, calls>>

CtxDone(c) == /\ pc[c] # "done"
              /\ ~ctx[c]
              /\ ctx' = [ctx EXCEPT ![c] = TRUE]
              /\ UNCHANGED <<published, details, flight, pc, name, reply>>

-----------------------------------------------------------------------------
(* A call of Get *)

\* The empty name is not found. Otherwise the lookup under the read lock: an
\* entry that is young is returned.
Lookup(c, n) ==
    /\ pc[c] = "done"
    /\ name' = [name EXCEPT ![c] = n]
    /\ ctx' = [ctx EXCEPT ![c] = FALSE]
    /\ \/ /\ n = Blank
          /\ reply' = [reply EXCEPT ![c] = Outcome("not_found", None)]
          /\ UNCHANGED pc
       \/ /\ n \in Names /\ details[n] # None
          /\ reply' = [reply EXCEPT ![c] = Outcome("ok", details[n])]
          /\ UNCHANGED pc
       \/ /\ n \in Names /\ details[n] = None
          /\ reply' = [reply EXCEPT ![c] = NoReply]
          /\ pc' = [pc EXCEPT ![c] = "missed"]
    /\ UNCHANGED <<published, details, flight>>

\* DoChan("mod:" + id).
Join(c) ==
    LET n == name[c] IN
    /\ pc[c] = "missed"
    /\ waiters' = [waiters EXCEPT ![n] = @ \cup {c}]
    /\ pc' = [pc EXCEPT ![c] = "waiting"]
    /\ phase' = [phase EXCEPT ![n] = IF @ = "none" THEN "asked" ELSE @]
    /\ UNCHANGED <<published, details, found, name, ctx, reply>>

Receive(c) ==
    /\ pc[c] = "delivered"
    /\ pc' = [pc EXCEPT ![c] = "done"]
    /\ UNCHANGED <<published, details, flight, name, ctx, reply>>

\* Mutant: a caller that leaves cancels the request it waits for.
GiveUpCancels(c) ==
    /\ pc[c] \in {"waiting", "delivered"}
    /\ ctx[c]
    /\ LET left == IF pc[c] = "waiting" THEN waiters[name[c]] ELSE {c} IN
       /\ reply' = [d \in Callers |-> IF d \in left THEN Outcome("ctx", None) ELSE reply[d]]
       /\ pc' = [d \in Callers |-> IF d \in left THEN "done" ELSE pc[d]]
       /\ waiters' = [waiters EXCEPT ![name[c]] = @ \ left]
    /\ UNCHANGED <<published, details, phase, found, name, ctx>>

GiveUp(c) ==
    /\ pc[c] \in {"waiting", "delivered"}
    /\ ctx[c]
    /\ reply' = [reply EXCEPT ![c] = Outcome("ctx", None)]
    /\ pc' = [pc EXCEPT ![c] = "done"]
    /\ waiters' = [waiters EXCEPT ![name[c]] = @ \ {c}]
    /\ UNCHANGED <<published, details, phase, found, name, ctx>>

-----------------------------------------------------------------------------
(* A flight: fetchDetails, detached from the contexts of its callers *)

Answer(n) ==
    /\ phase[n] = "asked"
    /\ \E e \in Resolved(n) : found' = [found EXCEPT ![n] = e]
    /\ phase' = [phase EXCEPT ![n] = "answered"]
    /\ UNCHANGED <<published, details, waiters, calls>>

\* The reply has an application status other than 200, or no mod in it. The
\* mod may exist all the same.
Refuse(n) ==
    /\ phase[n] = "asked"
    /\ phase' = [phase EXCEPT ![n] = "absent"]
    /\ UNCHANGED <<published, details, found, waiters, calls>>

\* getJSON fails: transport, status, or a body that does not decode.
Fail(n) ==
    /\ phase[n] = "asked"
    /\ phase' = [phase EXCEPT ![n] = "failed"]
    /\ UNCHANGED <<published, details, found, waiters, calls>>

\* The names an answer is cached under: three writes, of two names at most,
\* since the name asked for is the ID or the slug of the answer.
Keys(n, e) == {n, e.mod} \cup ({SlugIn(e)} \ {NoSlug})

\* Mutant: an answer without a mod is cached under the name asked for.
StoreUnchecked(n) ==
    /\ phase[n] \in {"answered", "absent"}
    /\ phase' = [phase EXCEPT ![n] = "stored"]
    /\ LET keys == IF found[n] = None THEN {n} ELSE Keys(n, found[n]) IN
       /\ details' = [m \in Names |-> IF m \in keys THEN found[n] ELSE details[m]]
    /\ UNCHANGED <<published, found, waiters, calls>>

\* Mutant: the answer also takes the names its mod had before.
StoreOldNames(n) ==
    /\ phase[n] = "answered"
    /\ phase' = [phase EXCEPT ![n] = "stored"]
    /\ LET e == found[n]
           keys == Keys(n, e) \cup {m \in Names : details[m].mod = e.mod}
                   \cup {SlugOf[v][e.mod] : v \in 1 .. e.version}
       IN /\ details' = [m \in Names |-> IF m \in keys THEN e ELSE details[m]]
    /\ UNCHANGED <<published, found, waiters, calls>>

\* The three writes of fetchDetails, one critical section.
Store(n) ==
    /\ phase[n] = "answered"
    /\ phase' = [phase EXCEPT ![n] = "stored"]
    /\ LET keys == Keys(n, found[n]) IN
       /\ details' = [m \in Names |-> IF m \in keys THEN found[n] ELSE details[m]]
    /\ UNCHANGED <<published, found, waiters, calls>>

Result(n) == CASE phase[n] = "stored" -> Outcome("ok", found[n])
               [] phase[n] = "absent" -> Outcome("not_found", None)
               [] OTHER -> Outcome("failed", None)

\* Mutant: the result is sent to one channel.
EndForOne(n) ==
    /\ phase[n] \in {"stored", "absent", "failed"}
    /\ \E S \in {{c} : c \in waiters[n]} \cup {{}} :
          /\ S = {} => waiters[n] = {}
          /\ reply' = [c \in Callers |-> IF c \in S THEN Result(n) ELSE reply[c]]
          /\ pc' = [c \in Callers |-> IF c \in S THEN "delivered" ELSE pc[c]]
    /\ phase' = [phase EXCEPT ![n] = "none"]
    /\ found' = [found EXCEPT ![n] = None]
    /\ waiters' = [waiters EXCEPT ![n] = {}]
    /\ UNCHANGED <<published, details, name, ctx>>

\* singleflight: the flight leaves the group and its result is sent to every
\* channel.
End(n) ==
    /\ phase[n] \in {"stored", "absent", "failed"}
    /\ reply' = [c \in Callers |-> IF c \in waiters[n] THEN Result(n) ELSE reply[c]]
    /\ pc' = [c \in Callers |-> IF c \in waiters[n] THEN "delivered" ELSE pc[c]]
    /\ phase' = [phase EXCEPT ![n] = "none"]
    /\ found' = [found EXCEPT ![n] = None]
    /\ waiters' = [waiters EXCEPT ![n] = {}]
    /\ UNCHANGED <<published, details, name, ctx>>

Next == \/ Publish
        \/ \E n \in Names : \/ Expire(n) \/ Answer(n) \/ Refuse(n) \/ Fail(n)
                            \/ Store(n) \/ End(n)
        \/ \E c \in Callers : \/ CtxDone(c) \/ Join(c) \/ Receive(c) \/ GiveUp(c)
                              \/ \E n \in Asked : Lookup(c, n)

\* Goroutines run; only names that are asked for have flights. That the
\* upstream answers is not assumed here.
Fairness == /\ \A c \in Callers : WF_vars(Join(c) \/ Receive(c) \/ GiveUp(c))
            /\ \A n \in Asked \ {Blank} : WF_vars(Store(n) \/ End(n))

Spec == Init /\ [][Next]_vars
LiveSpec == Spec /\ Fairness

-----------------------------------------------------------------------------
(* Properties *)

\* Types of the cache, the flights and the calls. A successful reply has a mod
\* in it.
TypeOK ==
    /\ published \in Versions
    /\ details \in [Names -> Entries \cup {None}]
    /\ phase \in [Names -> Phases]
    /\ found \in [Names -> Entries \cup {None}]
    /\ waiters \in [Names -> SUBSET Callers]
    /\ pc \in [Callers -> {"missed", "waiting", "delivered", "done"}]
    /\ name \in [Callers -> Names \cup {Blank}]
    /\ ctx \in [Callers -> BOOLEAN]
    /\ reply \in [Callers -> Replies]

\* A name is never answered with a mod that was not called so when the answer
\* was given, by a caller of another spelling, after a renaming or from the
\* cache: neither in the cache nor in a reply.
RightMod ==
    /\ \A n \in Names : details[n] # None => Carries(details[n], n)
    /\ \A c \in Callers : reply[c].kind = "ok" => Carries(reply[c].entry, name[c])

\* A call that waits is registered with the running flight of the name it
\* asked for and with no other.
NoLostWaiter ==
    \A c \in Callers, n \in Names :
        /\ c \in waiters[n] <=> pc[c] = "waiting" /\ name[c] = n
        /\ c \in waiters[n] => phase[n] # "none"

\* A caller gets a context error only when its own context is done.
CancelIsolated == \A c \in Callers : reply[c].kind = "ctx" => ctx[c]

\* If every request ends, every call returns.
EveryCallReturns ==
    (\A n \in Asked \ {Blank} : WF_vars(Answer(n) \/ Refuse(n) \/ Fail(n)))
        => \A c \in Callers : pc[c] # "done" ~> pc[c] = "done"
=============================================================================
