----------------------------- MODULE ModdbSearch -----------------------------
(***************************************************************************)
(* One call of moddb.Client.Search: the catalog lookup, the page cut out   *)
(* of the filtered list, and enrichPage, which looks the mods of the page  *)
(* up with a pool of goroutines. The context of the call may be cancelled  *)
(* or expire between any two steps.                                        *)
(*                                                                         *)
(* Mods are their positions in the filtered, sorted list. The catalog      *)
(* lookup is one step with any of the outcomes ModdbCatalog gives it, and  *)
(* a detail lookup is one step with any outcome of Client.Get.             *)
(***************************************************************************)
EXTENDS Integers, Sequences, FiniteSets

CONSTANTS
    Totals,      \* lengths the filtered list may have
    Queries,     \* [page, size] asked for
    DefaultSize, \* page size when the query's is out of range: 24
    MaxSize,     \* largest page size: 60
    MaxInt,      \* largest value of an int: 2^63 - 1
    Pool         \* workers of enrichPage, at most: 8 of them

ASSUME SearchAssumption ==
    /\ Totals \subseteq Nat
    /\ \A q \in Queries : q.page \in Int /\ q.size \in Int
    /\ DefaultSize \in 1 .. MaxSize
    /\ MaxSize \in Nat /\ MaxInt \in Nat
    /\ \A n \in Totals : n + MaxSize <= MaxInt
    /\ IsFiniteSet(Pool)

VARIABLES
    query,    \* the query's page and size, and whether it filters by version
    total,    \* length of the filtered list
    ctx,      \* the context: "live", "canceled" or "expired"
    main,     \* Search's goroutine: "list", "collect", "returned" or "panicked"
    warning,  \* SearchResult.Warning
    feeder,   \* the feeding goroutine: "none", "feed", "wait" or "exit"
    next,     \* item the feeder offers next
    worker,   \* worker[w]: "none", "idle", "busy" or "exit"
    item,     \* item[w]: the item it looks up, 0 unless it is busy
    jobs,     \* the jobs channel is open
    open,     \* the results channel is open
    results,  \* its contents: [item, outcome]
    enriched, \* items annotated so far
    failures, \* lookups that failed
    firstErr, \* outcome of the first that did
    result    \* what Search returns

vars == <<query, total, ctx, main, warning, feeder, next, worker, item, jobs, open,
          results, enriched, failures, firstErr, result>>
pool == <<feeder, next, worker, item, jobs, open, results, enriched, failures, firstErr>>

-----------------------------------------------------------------------------
(* The page *)

Page(q) == IF q.page < 1 THEN 1 ELSE q.page
Size(q) == IF q.size < 1 \/ q.size > MaxSize THEN DefaultSize ELSE q.size
AtMost(x, bound) == IF x > bound THEN bound ELSE x

\* What is left of x in an int.
Wrap(x) == ((x + MaxInt + 1) % (2 * (MaxInt + 1))) - (MaxInt + 1)

\* Mutant: page numbers start at zero.
StartAtPage(q, n) == AtMost(Wrap(Page(q) * Size(q)), n)

\* The page is filtered[Start : Last]; Start is negative when the product
\* overflows that way.
Start(q, n) == AtMost(Wrap((Page(q) - 1) * Size(q)), n)
First(q, n) == Start(q, n) + 1
Last(q, n) == AtMost(Start(q, n) + Size(q), n)
PageItems(q, n) == First(q, n) .. Last(q, n)

Items == PageItems(query, total)

NoResult == [error |-> "none", items |-> {}, enriched |-> {}, warning |-> "none",
             pages |-> 0, more |-> FALSE]

\* SearchResult, but for its items: TotalPages and HasNext.
Heading == [NoResult EXCEPT !.pages = (total + Size(query) - 1) \div Size(query),
                            !.more = Last(query, total) < total]

Init == /\ \E q \in Queries, byVersion \in BOOLEAN :
              query = [page |-> q.page, size |-> q.size, filtered |-> byVersion]
        /\ total \in Totals
        /\ ctx = "live"
        /\ main = "list"
        /\ warning = "none"
        /\ feeder = "none"
        /\ next = 0
        /\ worker = [w \in Pool |-> "none"]
        /\ item = [w \in Pool |-> 0]
        /\ jobs = TRUE
        /\ open = TRUE
        /\ results = << >>
        /\ enriched = {}
        /\ failures = 0
        /\ firstErr = "none"
        /\ result = NoResult

AllExited == /\ main \in {"returned", "panicked"}
             /\ feeder \in {"none", "exit"}
             /\ \A w \in Pool : worker[w] \in {"none", "exit"}

Busy(w) == worker[w] = "busy"

-----------------------------------------------------------------------------

CtxDone(how) ==
    /\ ctx = "live" /\ ~AllExited
    /\ ctx' = how
    /\ UNCHANGED <<query, total, main, warning, pool, result>>

Return(r) == main' = "returned" /\ result' = r

\* list or listForGameVersion fails: Search does too.
ListFails ==
    /\ main = "list"
    /\ \E e \in {"failed"} \cup (IF ctx = "live" THEN {} ELSE {ctx}) :
          Return([NoResult EXCEPT !.error = e])
    /\ UNCHANGED <<query, total, ctx, warning, pool>>

\* A catalog is there and the start of the page overflowed: the slice
\* expression panics.
SlicePanics ==
    /\ main = "list"
    /\ Start(query, total) < 0
    /\ main' = "panicked"
    /\ UNCHANGED <<query, total, ctx, warning, pool, result>>

\* A catalog is there, stale or not, and nothing is left to look up: the
\* query has no version filter, or the page is empty.
ListThenReturn ==
    /\ main = "list" /\ Start(query, total) >= 0
    /\ ~query.filtered \/ Items = {}
    /\ warning' \in {"none", "stale"}
    /\ Return([Heading EXCEPT !.items = Items, !.warning = warning'])
    /\ UNCHANGED <<query, total, ctx, pool>>

\* A catalog is there and its page is to be enriched: the channels are made
\* and the goroutines started, no more workers than items.
ListThenEnrich ==
    /\ main = "list" /\ Start(query, total) >= 0
    /\ query.filtered /\ Items # {}
    /\ warning' \in {"none", "stale"}
    /\ main' = "collect"
    /\ feeder' = "feed"
    /\ next' = First(query, total)
    /\ \E W \in SUBSET Pool :
          /\ Cardinality(W) = AtMost(Cardinality(Items), Cardinality(Pool))
          /\ worker' = [w \in Pool |-> IF w \in W THEN "idle" ELSE "none"]
    /\ UNCHANGED <<query, total, ctx, item, jobs, open, results, enriched, failures,
                   firstErr, result>>

-----------------------------------------------------------------------------
(* The feeder *)

\* The send on jobs, which is not buffered, meets an idle worker.
Feed(w) ==
    /\ feeder = "feed"
    /\ next \in Items
    /\ worker[w] = "idle"
    /\ worker' = [worker EXCEPT ![w] = "busy"]
    /\ item' = [item EXCEPT ![w] = next]
    /\ next' = next + 1
    /\ UNCHANGED <<query, total, ctx, main, warning, feeder, jobs, open, results,
                   enriched, failures, firstErr, result>>

\* close(jobs), or not; the feeder goes on to wg.Wait.
StopFeeding(closed) ==
    /\ feeder = "feed"
    /\ feeder' = "wait"
    /\ jobs' = ~closed
    /\ UNCHANGED <<query, total, ctx, main, warning, next, worker, item, open, results,
                   enriched, failures, firstErr, result>>

\* Mutant: the feeder leaves out the last item.
FeedEndEarly == next \notin Items \ {Last(query, total)} /\ StopFeeding(TRUE)

\* Mutant: jobs stays open after the last item.
FeedEndOpen == next \notin Items /\ StopFeeding(FALSE)

\* Every item was taken: close(jobs).
FeedEnd == next \notin Items /\ StopFeeding(TRUE)

\* Mutant: a finished context ends the feeder, and jobs stays open.
FeedStopOpen == next \in Items /\ ctx # "live" /\ StopFeeding(FALSE)

\* The select of the feeder sees the context: close(jobs), the rest of the
\* items is dropped.
FeedStop == next \in Items /\ ctx # "live" /\ StopFeeding(TRUE)

\* Mutant: results is closed without waiting for the workers.
CloseResultsAtOnce ==
    /\ feeder = "wait"
    /\ open' = FALSE
    /\ feeder' = "exit"
    /\ UNCHANGED <<query, total, ctx, main, warning, next, worker, item, jobs, results,
                   enriched, failures, firstErr, result>>

\* wg.Wait, then close(results).
CloseResults ==
    /\ feeder = "wait"
    /\ \A w \in Pool : worker[w] \in {"none", "exit"}
    /\ open' = FALSE
    /\ feeder' = "exit"
    /\ UNCHANGED <<query, total, ctx, main, warning, next, worker, item, jobs, results,
                   enriched, failures, firstErr, result>>

-----------------------------------------------------------------------------
(* A worker *)

\* Client.Get returns and its outcome is sent. results holds as many entries
\* as the page has items.
LookedUp(w) ==
    /\ Busy(w)
    /\ Len(results) < Cardinality(Items)
    /\ \E o \in {"ok", "failed"} \cup (IF ctx = "live" THEN {} ELSE {ctx}) :
          results' = Append(results, [item |-> item[w], outcome |-> o])
    /\ worker' = [worker EXCEPT ![w] = "idle"]
    /\ item' = [item EXCEPT ![w] = 0]
    /\ UNCHANGED <<query, total, ctx, main, warning, feeder, next, jobs, open,
                   enriched, failures, firstErr, result>>

WorkerExit(w) ==
    /\ worker[w] = "idle"
    /\ ~jobs
    /\ worker' = [worker EXCEPT ![w] = "exit"]
    /\ UNCHANGED <<query, total, ctx, main, warning, feeder, next, item, jobs, open,
                   results, enriched, failures, firstErr, result>>

-----------------------------------------------------------------------------
(* The collecting loop *)

Collect ==
    /\ main = "collect"
    /\ results # << >>
    /\ results' = Tail(results)
    /\ LET x == Head(results) IN
       \/ /\ x.outcome = "ok"
          /\ enriched' = enriched \cup {x.item}
          /\ UNCHANGED <<failures, firstErr>>
       \/ /\ x.outcome # "ok"
          /\ failures' = failures + 1
          /\ firstErr' = IF firstErr = "none" THEN x.outcome ELSE firstErr
          /\ UNCHANGED enriched
    /\ UNCHANGED <<query, total, ctx, main, warning, feeder, next, worker, item, jobs, open,
                   result>>

\* Mutant: a lookup failure is reported only when every lookup failed.
EnrichErrorUnlessPartial ==
    IF ctx # "live" THEN ctx
    ELSE IF enriched = {} /\ firstErr # "none" THEN "lookups" ELSE "none"

\* The error enrichPage returns: the context's first.
EnrichError ==
    IF ctx # "live" THEN ctx ELSE IF firstErr # "none" THEN "lookups" ELSE "none"

\* results is closed and drained: enrichPage returns, then Search. A context
\* error comes with no items, and Search passes on only a cancellation.
Finish ==
    /\ main = "collect"
    /\ results = << >>
    /\ ~open
    /\ IF EnrichError = "canceled"
       THEN Return([NoResult EXCEPT !.error = EnrichError])
       ELSE Return([Heading EXCEPT
                      !.items = IF EnrichError = "expired" THEN {} ELSE Items,
                      !.enriched = IF EnrichError = "expired" THEN {} ELSE enriched,
                      !.warning = IF warning = "none" THEN EnrichError ELSE warning])
    /\ UNCHANGED <<query, total, ctx, warning, pool>>

Done == AllExited /\ UNCHANGED vars

Next == \/ \E how \in {"canceled", "expired"} : CtxDone(how)
        \/ ListFails \/ SlicePanics \/ ListThenReturn \/ ListThenEnrich
        \/ FeedEnd \/ FeedStop \/ CloseResults
        \/ \E w \in Pool : Feed(w) \/ LookedUp(w) \/ WorkerExit(w)
        \/ Collect \/ Finish
        \/ Done

\* Goroutines run, and a lookup whose context is done returns. That lookups
\* end otherwise is not assumed here.
Fairness == /\ WF_vars(FeedEnd) /\ WF_vars(FeedStop) /\ WF_vars(CloseResults)
            /\ WF_vars(ctx # "live" /\ (ListFails \/ SlicePanics \/ ListThenReturn \/ ListThenEnrich))
            /\ \A w \in Pool : WF_vars(Feed(w)) /\ WF_vars(WorkerExit(w))
            /\ \A w \in Pool : WF_vars(ctx # "live" /\ LookedUp(w))
            /\ WF_vars(Collect) /\ WF_vars(Finish)

Spec == Init /\ [][Next]_vars
LiveSpec == Spec /\ Fairness

-----------------------------------------------------------------------------
(* Properties *)

Outcomes == {"none", "ok", "failed", "canceled", "expired"}

\* Types of the call, its goroutines and its channels.
TypeOK ==
    /\ query \in [page : Int, size : Int, filtered : BOOLEAN]
    /\ total \in Totals
    /\ ctx \in {"live", "canceled", "expired"}
    /\ main \in {"list", "collect", "returned", "panicked"}
    /\ warning \in {"none", "stale"}
    /\ feeder \in {"none", "feed", "wait", "exit"}
    /\ next \in Nat
    /\ worker \in [Pool -> {"none", "idle", "busy", "exit"}]
    /\ item \in [Pool -> Items \cup {0}]
    /\ jobs \in BOOLEAN /\ open \in BOOLEAN
    /\ results \in Seq([item : Items, outcome : Outcomes \ {"none"}])
    /\ enriched \subseteq Items
    /\ failures \in Nat
    /\ firstErr \in Outcomes
    /\ result \in [error : Outcomes, items : SUBSET Nat, enriched : SUBSET Nat,
                   warning : {"none", "stale", "lookups", "expired"},
                   pages : Nat, more : BOOLEAN]

\* No goroutine of the pool can still send once results is closed (a send on
\* a closed channel panics), and none is left behind when Search returns.
ClosedAfterLastSend == ~open => \A w \in Pool : worker[w] \in {"none", "exit"}

InFlight == {item[w] : w \in {v \in Pool : Busy(v)}}
            \cup {results[i].item : i \in 1 .. Len(results)}

\* No item is looked up by two workers, looked up again after its result, or
\* lost on the way: with a live context every lookup is accounted for when
\* the results end, so "n of m lookups failed" is exact.
LookedUpOnce ==
    /\ Cardinality(InFlight) = Cardinality({w \in Pool : Busy(w)}) + Len(results)
    /\ InFlight \cap enriched = {}
    /\ main = "collect" /\ ~open /\ results = << >> /\ ctx = "live"
         => failures + Cardinality(enriched) = Cardinality(Items)

\* What a search that succeeds could not do, and what its one warning tells of
\* it. Over a fresh catalog the warning is exact: "lookups" if and only if the
\* page is there and a mod of it could not be looked up, "expired" if and only
\* if the deadline cost the whole page. A stale catalog always shows, and its
\* warning stands in front of the others: over a stale list neither failed
\* lookups nor a lost page are reported, though Search's comment says that
\* failures of detail lookups are.
WarningFits ==
    main = "returned" /\ result.error = "none" =>
        LET unread == IF query.filtered THEN result.items \ result.enriched ELSE {}
            lost == ctx = "expired" /\ query.filtered /\ result.items # Items
        IN /\ lost \/ result.items = Items
           /\ lost => result.items = {} /\ result.enriched = {}
           /\ result.warning = CASE warning = "stale" -> "stale"
                                 [] warning = "none" /\ lost -> "expired"
                                 [] warning = "none" /\ ~lost /\ unread # {} -> "lookups"
                                 [] warning = "none" /\ ~lost /\ unread = {} -> "none"

\* As long as the first place of the page asked for is a number of the
\* machine, a search does not panic, the page holds exactly the places that
\* its number stands for, and HasNext agrees with TotalPages: whoever turns
\* pages while there is a next one sees every mod once.
PageAsked ==
    (Page(query) - 1) * Size(query) <= MaxInt =>
        /\ main # "panicked"
        /\ main = "returned" /\ result.error = "none" =>
              /\ result.more <=> Page(query) < result.pages
              /\ \/ result.items = {i \in 1 .. total : (i - 1) \div Size(query) = Page(query) - 1}
                 \/ ctx # "live" /\ result.items = {}

\* A caller that leaves gets its call back and leaves no goroutine behind,
\* though the upstream never answers.
CancelledSearchEnds == ctx # "live" ~> AllExited

\* If lookups end, every search ends and leaves no goroutine behind.
EverySearchEnds ==
    /\ WF_vars(ListFails \/ SlicePanics \/ ListThenReturn \/ ListThenEnrich)
    /\ \A w \in Pool : WF_vars(LookedUp(w))
    => <>AllExited

\* client_test.go: "failed detail lookups degrade the enrichment, not the
\* result set".
EnrichmentKeepsItems ==
    main = "returned" /\ result.error = "none" => result.items = Items
=============================================================================
