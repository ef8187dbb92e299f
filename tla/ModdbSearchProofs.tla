------------------------- MODULE ModdbSearchProofs -------------------------
(***************************************************************************)
(* Theorems about ModdbSearch, for every list, every page, every pool of   *)
(* workers and every width of an int.                                      *)
(***************************************************************************)
EXTENDS ModdbSearch, FiniteSetTheorems, FunctionTheorems, TLAPS

-----------------------------------------------------------------------------
(* The page *)

LEMMA WrapType == \A x \in Int : Wrap(x) \in Int
  BY SearchAssumption DEF Wrap

LEMMA SizeType == ASSUME query.size \in Int PROVE Size(query) \in 1 .. MaxSize
  BY SearchAssumption DEF Size

LEMMA PageType ==
  ASSUME TypeOK
  PROVE  /\ total \in Nat
         /\ Start(query, total) \in Int /\ Start(query, total) <= total
         /\ First(query, total) \in Int
         /\ Last(query, total) \in Int
         /\ First(query, total) <= Last(query, total) + 1
  <1>1. total \in Nat /\ query.page \in Int /\ query.size \in Int
    BY SearchAssumption DEF TypeOK
  <1>2. Size(query) \in Nat
    BY <1>1, SizeType, SearchAssumption
  <1>3. Page(query) - 1 \in Int
    BY <1>1 DEF Page
  <1>4. (Page(query) - 1) * Size(query) \in Int
    BY <1>2, <1>3
  <1>5. Start(query, total) \in Int /\ Start(query, total) <= total
    BY <1>1, <1>4, WrapType DEF Start, AtMost
  <1>6. QED
    BY <1>1, <1>2, <1>5 DEF First, Last, AtMost

Results == [error : Outcomes, items : SUBSET Nat, enriched : SUBSET Nat,
            warning : {"none", "stale", "lookups", "expired"}, pages : Nat, more : BOOLEAN]

LEMMA NoResultType == NoResult \in Results
  BY DEF NoResult, Results, Outcomes

LEMMA HeadingType ==
  ASSUME TypeOK
  PROVE  /\ Heading \in Results
         /\ Heading.error = "none"
  <1>1. total \in Nat /\ query.size \in Int
    BY SearchAssumption DEF TypeOK
  <1>2. Size(query) \in Nat /\ Size(query) >= 1
    BY <1>1, SizeType, SearchAssumption
  <1> DEFINE p == (total + Size(query) - 1) \div Size(query)
             b == Last(query, total) < total
  <1>3. p \in Nat /\ b \in BOOLEAN
    BY <1>1, <1>2
  <1>4. Heading = [NoResult EXCEPT !.pages = p, !.more = b]
    BY DEF Heading
  <1> HIDE DEF p, b
  <1>5. QED
    BY <1>3, <1>4 DEF NoResult, Results, Outcomes

-----------------------------------------------------------------------------
(* The inductive invariant *)

Working == {w \in Pool : Busy(w)}

\* How far the goroutines are: who has been started, and what is closed.
Stages ==
    /\ main \in {"list", "panicked"} => feeder = "none"
    /\ main = "collect" => feeder # "none"
    /\ main = "returned" => feeder \in {"none", "exit"}
    /\ feeder = "none" => /\ \A w \in Pool : worker[w] = "none"
                          /\ results = << >> /\ enriched = {}
                          /\ failures = 0 /\ firstErr = "none"
    /\ feeder \in {"none", "feed"} => jobs
    /\ open <=> feeder # "exit"
    /\ \A w \in Pool : worker[w] = "exit" => ~jobs

\* What has been taken from the page: its first items, in their order.
Taken ==
    /\ feeder # "none" => /\ First(query, total) >= 1
                          /\ First(query, total) <= next
                          /\ next <= Last(query, total) + 1
    /\ feeder \in {"wait", "exit"} /\ ctx = "live" => next = Last(query, total) + 1
    /\ \A w \in Pool : Busy(w) => item[w] \in Items /\ item[w] < next
    /\ \A i \in 1 .. Len(results) : results[i].item < next
    /\ \A x \in enriched : x < next

\* An item that was taken is in one place only.
Distinct ==
    /\ \A v, w \in Pool : Busy(v) /\ Busy(w) /\ item[v] = item[w] => v = w
    /\ \A i, j \in 1 .. Len(results) : results[i].item = results[j].item => i = j
    /\ \A w \in Pool : \A i \in 1 .. Len(results) : Busy(w) => item[w] # results[i].item
    /\ \A w \in Pool : Busy(w) => item[w] \notin enriched
    /\ \A i \in 1 .. Len(results) : results[i].item \notin enriched

\* And none is lost.
Counted ==
    /\ feeder # "none" =>
          failures + Cardinality(enriched) + Cardinality(Working) + Len(results)
             = next - First(query, total)
    /\ firstErr = "none" <=> failures = 0

\* Only a page with something to look up is enriched.
ToEnrich == main = "collect" => query.filtered /\ Items # {}

SearchInv == TypeOK /\ Stages /\ ClosedAfterLastSend /\ Taken /\ Distinct /\ Counted
             /\ ToEnrich /\ WarningFits

-----------------------------------------------------------------------------
(* Types *)

LEMMA HeadAndTail ==
  ASSUME NEW S, NEW s \in Seq(S), s # << >>
  PROVE  /\ Head(s) \in S /\ Tail(s) \in Seq(S)
         /\ Head(s) = s[1] /\ Len(s) \in Nat /\ Len(s) >= 1 /\ Len(Tail(s)) = Len(s) - 1
         /\ \A i \in 1 .. Len(s) - 1 : Tail(s)[i] = s[i + 1]
  OBVIOUS

LEMMA ElementsType ==
  ASSUME NEW S, NEW s \in Seq(S)
  PROVE  Len(s) \in Nat /\ \A i \in 1 .. Len(s) : s[i] \in S
  OBVIOUS

LEMMA ResultItems ==
  ASSUME TypeOK
  PROVE  Len(results) \in Nat /\ \A i \in 1 .. Len(results) : results[i].item \in Items
  <1>1. \A i \in 1 .. Len(results) :
           results[i] \in [item : Items, outcome : Outcomes \ {"none"}]
    <2> DEFINE S == [item : Items, outcome : Outcomes \ {"none"}]
    <2>1. results \in Seq(S)
      BY DEF TypeOK
    <2> HIDE DEF S
    <2>2. \A i \in 1 .. Len(results) : results[i] \in S
      BY <2>1, ElementsType
    <2>3. QED
      BY <2>2 DEF S
  <1>2. QED
    BY <1>1 DEF TypeOK

LEMMA TypeInit == Init => TypeOK
  BY SearchAssumption, NoResultType DEF Init, TypeOK, Outcomes, Results

LEMMA TypeNext == TypeOK /\ Stages /\ Taken /\ [Next]_vars => TypeOK'
  <1> SUFFICES ASSUME TypeOK, Stages, Taken, [Next]_vars PROVE TypeOK'
    OBVIOUS
  <1> USE DEF TypeOK
  <1>1. ASSUME NEW how \in {"canceled", "expired"}, CtxDone(how) PROVE TypeOK'
    BY <1>1 DEF CtxDone, pool, Items
  <1>2. CASE ListFails
    <2>1. PICK e \in Outcomes : result' = [NoResult EXCEPT !.error = e]
      BY <1>2 DEF ListFails, Return, Outcomes
    <2>2. result' \in Results
      BY <2>1, NoResultType DEF Results
    <2>3. QED
      BY <1>2, <2>2 DEF ListFails, Return, pool, Items, Results
  <1>3. CASE SlicePanics
    BY <1>3 DEF SlicePanics, pool, Items
  <1>4. CASE ListThenReturn
    <2>1. Items \in SUBSET Nat
      BY <1>4, PageType DEF ListThenReturn, Items, PageItems, First
    <2>2. result' \in Results
      BY <1>4, <2>1, HeadingType DEF ListThenReturn, Return, Results
    <2>3. QED
      BY <1>4, <2>2 DEF ListThenReturn, Return, pool, Items, Results
  <1>5. CASE ListThenEnrich
    <2>1. First(query, total) \in Nat
      BY <1>5, PageType DEF ListThenEnrich, First
    <2>2. worker' \in [Pool -> {"none", "idle", "busy", "exit"}]
      BY <1>5 DEF ListThenEnrich
    <2>3. /\ main' = "collect" /\ feeder' = "feed" /\ next' \in Nat
          /\ warning' \in {"none", "stale"}
          /\ UNCHANGED <<query, total, ctx>>
      BY <1>5, <2>1 DEF ListThenEnrich
    <2>4. UNCHANGED <<item, jobs, open, results, enriched, failures, firstErr, result>>
      BY <1>5 DEF ListThenEnrich
    <2>5. Items' = Items
      BY <2>3 DEF Items
    <2>6. /\ item' \in [Pool -> Items' \cup {0}]
          /\ results' \in Seq([item : Items', outcome : Outcomes \ {"none"}])
          /\ enriched' \subseteq Items' /\ failures' \in Nat /\ firstErr' \in Outcomes
      BY <2>4, <2>5
    <2>7. result' \in Results /\ jobs' \in BOOLEAN /\ open' \in BOOLEAN
      BY <2>4 DEF Results
    <2>8. QED
      BY <2>2, <2>3, <2>6, <2>7, SMTT(30) DEF Results
  <1>6. ASSUME NEW w \in Pool, Feed(w) PROVE TypeOK'
    BY <1>6, PageType DEF Feed, Items, PageItems
  <1>7. CASE FeedEnd \/ FeedStop
    BY <1>7 DEF FeedEnd, FeedStop, StopFeeding, Items
  <1>8. CASE CloseResults
    BY <1>8 DEF CloseResults, Items
  <1>9. ASSUME NEW w \in Pool, LookedUp(w) PROVE TypeOK'
    <2>1. PICK o \in Outcomes \ {"none"} :
             results' = Append(results, [item |-> item[w], outcome |-> o])
      BY <1>9 DEF LookedUp, Outcomes
    <2>2. [item |-> item[w], outcome |-> o] \in [item : Items, outcome : Outcomes \ {"none"}]
      BY <1>9 DEF LookedUp, Taken
    <2>3. results' \in Seq([item : Items, outcome : Outcomes \ {"none"}])
      BY <2>1, <2>2
    <2>4. QED
      BY <1>9, <2>3 DEF LookedUp, Items
  <1>10. ASSUME NEW w \in Pool, WorkerExit(w) PROVE TypeOK'
    BY <1>10 DEF WorkerExit, Items
  <1>11. CASE Collect
    <2>1. Head(results) \in [item : Items, outcome : Outcomes \ {"none"}]
          /\ Tail(results) \in Seq([item : Items, outcome : Outcomes \ {"none"}])
      BY <1>11, HeadAndTail DEF Collect
    <2>2. QED
      BY <1>11, <2>1 DEF Collect, Items
  <1>12. CASE Finish
    <2>1. Items \in SUBSET Nat
      BY <1>12, PageType DEF Finish, Stages, Taken, Items, PageItems
    <2>2. EnrichError \in {"none", "canceled", "expired", "lookups"}
      BY DEF EnrichError
    <2>3. result' \in Results
      <3>1. CASE EnrichError = "canceled"
        BY <1>12, <3>1, NoResultType DEF Finish, Return, Results, Outcomes
      <3>2. CASE EnrichError # "canceled"
        <4> DEFINE i == IF EnrichError = "expired" THEN {} ELSE Items
                   n == IF EnrichError = "expired" THEN {} ELSE enriched
                   u == IF warning = "none" THEN EnrichError ELSE warning
        <4>1. result' = [Heading EXCEPT !.items = i, !.enriched = n, !.warning = u]
          BY <1>12, <3>2 DEF Finish, Return
        <4>2. i \in SUBSET Nat /\ n \in SUBSET Nat
          BY <2>1
        <4>3. u \in {"none", "stale", "lookups", "expired"}
          BY <2>2, <3>2
        <4> HIDE DEF i, n, u, TypeOK
        <4>4. QED
          BY <4>1, <4>2, <4>3, HeadingType DEF Results
      <3>3. QED
        BY <3>1, <3>2
    <2>4. main' = "returned" /\ UNCHANGED <<query, total, ctx, warning, pool>>
      BY <1>12 DEF Finish, Return
    <2>5. Items' = Items /\ UNCHANGED <<feeder, next, worker, item, jobs, open, results>>
      BY <2>4 DEF Items, pool
    <2>6. UNCHANGED <<enriched, failures, firstErr>>
      BY <2>4 DEF pool
    <2>7. QED
      BY <2>3, <2>4, <2>5, <2>6 DEF Results
  <1>13. CASE Done \/ UNCHANGED vars
    <2>1. UNCHANGED <<query, total, ctx, main, warning, feeder, next, worker>>
      BY <1>13 DEF Done, vars
    <2>2. UNCHANGED <<item, jobs, open, results, enriched, failures, firstErr, result>>
      BY <1>13 DEF Done, vars
    <2>3. Items' = Items
      BY <2>1 DEF Items
    <2>4. QED
      BY <2>1, <2>2, <2>3
  <1>14. QED
    BY <1>1, <1>2, <1>3, <1>4, <1>5, <1>6, <1>7, <1>8, <1>9, <1>10, <1>11, <1>12, <1>13
       DEF Next

-----------------------------------------------------------------------------
(* Stages *)

LEMMA StagesNext ==
  TypeOK /\ Stages /\ ClosedAfterLastSend /\ [Next]_vars => Stages' /\ ClosedAfterLastSend'
  <1> SUFFICES ASSUME TypeOK, Stages, ClosedAfterLastSend, [Next]_vars
               PROVE  Stages' /\ ClosedAfterLastSend'
    OBVIOUS
  <1> USE DEF Stages, ClosedAfterLastSend
  <1>1. ASSUME NEW how \in {"canceled", "expired"}, CtxDone(how)
        PROVE Stages' /\ ClosedAfterLastSend'
    BY <1>1 DEF CtxDone, pool
  <1>2. CASE ListFails \/ SlicePanics \/ ListThenReturn
    BY <1>2 DEF ListFails, SlicePanics, ListThenReturn, Return, pool
  <1>3. CASE ListThenEnrich
    BY <1>3 DEF ListThenEnrich, TypeOK
  <1>4. ASSUME NEW w \in Pool, Feed(w) PROVE Stages' /\ ClosedAfterLastSend'
    BY <1>4 DEF Feed, TypeOK
  <1>5. CASE FeedEnd \/ FeedStop
    BY <1>5 DEF FeedEnd, FeedStop, StopFeeding, TypeOK
  <1>6. CASE CloseResults
    BY <1>6 DEF CloseResults
  <1>7. ASSUME NEW w \in Pool, LookedUp(w) PROVE Stages' /\ ClosedAfterLastSend'
    BY <1>7 DEF LookedUp, Busy, TypeOK
  <1>8. ASSUME NEW w \in Pool, WorkerExit(w) PROVE Stages' /\ ClosedAfterLastSend'
    BY <1>8 DEF WorkerExit, TypeOK
  <1>9. CASE Collect
    BY <1>9 DEF Collect
  <1>10. CASE Finish
    BY <1>10 DEF Finish, Return, pool
  <1>11. CASE Done \/ UNCHANGED vars
    BY <1>11 DEF Done, vars
  <1>12. QED
    BY <1>1, <1>2, <1>3, <1>4, <1>5, <1>6, <1>7, <1>8, <1>9, <1>10, <1>11 DEF Next

LEMMA TakenNext == TypeOK /\ Stages /\ Taken /\ [Next]_vars => Taken'
  <1> SUFFICES ASSUME TypeOK, Stages, Taken, [Next]_vars PROVE Taken'
    OBVIOUS
  <1> USE DEF Taken
  <1>0. next \in Nat /\ First(query, total) \in Int /\ Last(query, total) \in Int
        /\ First(query, total) <= Last(query, total) + 1
    BY PageType DEF TypeOK
  <1>1. ASSUME NEW how \in {"canceled", "expired"}, CtxDone(how) PROVE Taken'
    BY <1>1 DEF CtxDone, pool, Items, Busy
  <1>2. CASE ListFails \/ SlicePanics \/ ListThenReturn
    BY <1>2 DEF ListFails, SlicePanics, ListThenReturn, Return, pool, Items, Busy
  <1>3. CASE ListThenEnrich
    <2>1. First(query, total) >= 1 /\ next' = First(query, total) /\ feeder' = "feed"
      BY <1>3, PageType DEF ListThenEnrich, First
    <2>2. \A w \in Pool : ~Busy(w)'
      BY <1>3 DEF ListThenEnrich, Busy
    <2>3. results = << >> /\ enriched = {}
      BY <1>3 DEF ListThenEnrich, Stages
    <2>4. QED
      BY <1>0, <1>3, <2>1, <2>2, <2>3 DEF ListThenEnrich, Items
  <1>4. ASSUME NEW w \in Pool, Feed(w) PROVE Taken'
    <2>1. next \in Items /\ next' = next + 1 /\ First(query, total) <= next
          /\ next <= Last(query, total) /\ feeder = "feed"
      BY <1>0, <1>4 DEF Feed, Items, PageItems
    <2>2. \A v \in Pool : Busy(v)' => \/ v = w /\ item'[v] = next
                                      \/ Busy(v) /\ item'[v] = item[v]
      BY <1>4 DEF Feed, TypeOK, Busy
    <2>3. \A v \in Pool : Busy(v)' => item'[v] \in Items /\ item'[v] < next + 1
      <3> SUFFICES ASSUME NEW v \in Pool, Busy(v)'
                   PROVE  item'[v] \in Items /\ item'[v] < next + 1
        OBVIOUS
      <3>1. CASE v = w /\ item'[v] = next
        BY <1>0, <2>1, <3>1
      <3>2. CASE Busy(v) /\ item'[v] = item[v]
        <4>1. item[v] \in Items /\ item[v] < next /\ item[v] \in Int
          BY <1>0, <3>2 DEF Items, PageItems
        <4>2. QED
          BY <1>0, <3>2, <4>1
      <3>3. QED
        BY <2>2, <3>1, <3>2
    <2>4. \A i \in 1 .. Len(results) : results[i].item < next + 1
      <3>1. \A i \in 1 .. Len(results) : results[i].item \in Int
        BY <1>0, ResultItems DEF Items, PageItems
      <3>2. QED
        BY <1>0, <3>1
    <2>5. \A x \in enriched : x < next + 1
      BY <1>0 DEF TypeOK, Items, PageItems
    <2>6. QED
      BY <1>0, <1>4, <2>1, <2>3, <2>4, <2>5 DEF Feed, Items
  <1>5. CASE FeedEnd \/ FeedStop
    <2>1. CASE FeedEnd
      <3>1. next = Last(query, total) + 1
        BY <1>0, <2>1 DEF FeedEnd, StopFeeding, Items, PageItems
      <3>2. QED
        BY <1>0, <2>1, <3>1 DEF FeedEnd, StopFeeding, Items, Busy
    <2>2. CASE FeedStop
      BY <1>0, <2>2 DEF FeedStop, StopFeeding, Items, Busy
    <2>3. QED
      BY <1>5, <2>1, <2>2
  <1>6. CASE CloseResults
    BY <1>6 DEF CloseResults, Items, Busy
  <1>7. ASSUME NEW w \in Pool, LookedUp(w) PROVE Taken'
    <2>1. PICK o : results' = Append(results, [item |-> item[w], outcome |-> o])
      BY <1>7 DEF LookedUp
    <2>2. item[w] < next
      BY <1>7 DEF LookedUp
    <2>3. \A v \in Pool : Busy(v)' => Busy(v) /\ item'[v] = item[v]
      BY <1>7 DEF LookedUp, Busy, TypeOK
    <2>4. \A i \in 1 .. Len(results') : results'[i].item < next
      BY <2>1, <2>2 DEF TypeOK
    <2>5. QED
      BY <1>7, <2>3, <2>4 DEF LookedUp, Items
  <1>8. ASSUME NEW w \in Pool, WorkerExit(w) PROVE Taken'
    BY <1>8 DEF WorkerExit, Items, Busy, TypeOK
  <1>9. CASE Collect
    <2>1. Len(results) >= 1 /\ Len(results') = Len(results) - 1 /\ Len(results) \in Nat
          /\ Head(results) = results[1]
          /\ \A i \in 1 .. Len(results') : results'[i] = results[i + 1]
      BY <1>9, HeadAndTail DEF Collect, TypeOK
    <2>2. \A i \in 1 .. Len(results') : results'[i].item < next
      BY <2>1
    <2>3. enriched' \subseteq enriched \cup {results[1].item}
      BY <1>9, <2>1 DEF Collect
    <2>4. results[1].item < next
      BY <2>1
    <2>5. QED
      BY <1>9, <2>2, <2>3, <2>4 DEF Collect, Items, Busy
  <1>10. CASE Finish
    BY <1>10 DEF Finish, Return, pool, Items, Busy
  <1>11. CASE Done \/ UNCHANGED vars
    BY <1>11 DEF Done, vars, Items, Busy
  <1>12. QED
    BY <1>1, <1>2, <1>3, <1>4, <1>5, <1>6, <1>7, <1>8, <1>9, <1>10, <1>11 DEF Next

-----------------------------------------------------------------------------
(* Every item is looked up once *)

LEMMA DistinctNext ==
  TypeOK /\ Stages /\ Taken /\ Distinct /\ [Next]_vars => Distinct'
  <1> SUFFICES ASSUME TypeOK, Stages, Taken, Distinct, [Next]_vars PROVE Distinct'
    OBVIOUS
  <1> USE DEF Distinct
  <1>0. next \in Nat /\ Items \subseteq Int /\ enriched \subseteq Items /\ Len(results) \in Nat
        /\ \A i \in 1 .. Len(results) : results[i].item \in Items
    BY PageType, ResultItems DEF TypeOK, Items, PageItems
  <1>1. CASE \E how \in {"canceled", "expired"} : CtxDone(how)
    BY <1>1 DEF CtxDone, pool, Busy
  <1>2. CASE ListFails \/ SlicePanics \/ ListThenReturn
    BY <1>2 DEF ListFails, SlicePanics, ListThenReturn, Return, pool, Busy
  <1>3. CASE ListThenEnrich
    <2>1. \A w \in Pool : ~Busy(w)'
      BY <1>3 DEF ListThenEnrich, Busy
    <2>2. results' = << >> /\ enriched' = {}
      BY <1>3 DEF ListThenEnrich, Stages
    <2>3. QED
      BY <2>1, <2>2
  <1>4. ASSUME NEW w \in Pool, Feed(w) PROVE Distinct'
    <2>1. \A v \in Pool : Busy(v)' => \/ v = w /\ item'[v] = next
                                      \/ v # w /\ Busy(v) /\ item'[v] = item[v]
      BY <1>4 DEF Feed, TypeOK, Busy
    <2>2. \A v \in Pool : Busy(v) => item[v] # next
      BY <1>0 DEF Taken
    <2>3. \A i \in 1 .. Len(results) : results[i].item # next
      BY <1>0 DEF Taken
    <2>4. next \notin enriched
      BY <1>0 DEF Taken
    <2>5. results' = results /\ enriched' = enriched
      BY <1>4 DEF Feed
    <2>6. QED
      BY <2>1, <2>2, <2>3, <2>4, <2>5
  <1>5. CASE FeedEnd \/ FeedStop \/ CloseResults
    BY <1>5 DEF FeedEnd, FeedStop, StopFeeding, CloseResults, Busy
  <1>6. ASSUME NEW w \in Pool, LookedUp(w) PROVE Distinct'
    <2>1. PICK o : results' = Append(results, [item |-> item[w], outcome |-> o])
      BY <1>6 DEF LookedUp
    <2>2. /\ Len(results') = Len(results) + 1
          /\ \A i \in 1 .. Len(results) : results'[i] = results[i]
          /\ results'[Len(results) + 1].item = item[w]
      BY <2>1 DEF TypeOK
    <2>3. \A v \in Pool : Busy(v)' => v # w /\ Busy(v) /\ item'[v] = item[v]
      BY <1>6 DEF LookedUp, Busy, TypeOK
    <2>4. Busy(w) /\ enriched' = enriched
      BY <1>6 DEF LookedUp
    <2>5. \A i, j \in 1 .. Len(results') : results'[i].item = results'[j].item => i = j
      BY <1>0, <2>2, <2>4
    <2>6. \A v \in Pool : \A i \in 1 .. Len(results') : Busy(v)' => item'[v] # results'[i].item
      BY <1>0, <2>2, <2>3, <2>4
    <2>7. \A i \in 1 .. Len(results') : results'[i].item \notin enriched'
      BY <1>0, <2>2, <2>4
    <2>8. QED
      BY <2>3, <2>4, <2>5, <2>6, <2>7
  <1>7. ASSUME NEW w \in Pool, WorkerExit(w) PROVE Distinct'
    BY <1>7 DEF WorkerExit, Busy, TypeOK
  <1>8. CASE Collect
    <2>1. Len(results) >= 1 /\ Len(results') = Len(results) - 1
          /\ Head(results) = results[1]
          /\ \A i \in 1 .. Len(results') : results'[i] = results[i + 1]
      BY <1>8, HeadAndTail DEF Collect, TypeOK
    <2>2. enriched' \subseteq enriched \cup {results[1].item}
      BY <1>8, <2>1 DEF Collect
    <2>3. \A i \in 1 .. Len(results') : /\ i + 1 \in 1 .. Len(results) /\ i + 1 # 1
                                         /\ results'[i].item = results[i + 1].item
      BY <1>0, <2>1
    <2>4. 1 \in 1 .. Len(results)
      BY <1>0, <2>1
    <2>5. \A i \in 1 .. Len(results') : results'[i].item \notin enriched'
      BY <2>2, <2>3, <2>4
    <2>6. \A i, j \in 1 .. Len(results') : results'[i].item = results'[j].item => i = j
      <3> SUFFICES ASSUME NEW i \in 1 .. Len(results'), NEW j \in 1 .. Len(results'),
                          results'[i].item = results'[j].item
                   PROVE  i = j
        OBVIOUS
      <3>1. i + 1 = j + 1
        BY <2>3
      <3>2. QED
        BY <1>0, <2>1, <3>1
    <2>7. item' = item /\ worker' = worker
      BY <1>8 DEF Collect
    <2>8. \A w \in Pool : Busy(w)' <=> Busy(w)
      BY <2>7 DEF Busy
    <2>9. \A w \in Pool : \A i \in 1 .. Len(results') : Busy(w)' => item'[w] # results'[i].item
      BY <2>3, <2>7, <2>8
    <2>10. \A w \in Pool : Busy(w)' => item'[w] \notin enriched'
      BY <2>2, <2>4, <2>7, <2>8
    <2>11. QED
      BY <2>5, <2>6, <2>7, <2>8, <2>9, <2>10
  <1>9. CASE Finish
    BY <1>9 DEF Finish, Return, pool, Busy
  <1>10. CASE Done \/ UNCHANGED vars
    BY <1>10 DEF Done, vars, Busy
  <1>11. QED
    BY <1>1, <1>2, <1>3, <1>4, <1>5, <1>6, <1>7, <1>8, <1>9, <1>10 DEF Next

\* The sets that are counted are finite.
LEMMA FiniteSets_ ==
  ASSUME TypeOK
  PROVE  /\ IsFiniteSet(Working) /\ Cardinality(Working) \in Nat
         /\ IsFiniteSet(Items)
         /\ Cardinality(Items) = Last(query, total) + 1 - First(query, total)
         /\ IsFiniteSet(enriched) /\ Cardinality(enriched) \in Nat
  <1>1. IsFiniteSet(Working)
    BY SearchAssumption, FS_Subset DEF Working
  <1>2. /\ IsFiniteSet(Items)
        /\ Cardinality(Items) = Last(query, total) + 1 - First(query, total)
    <2> DEFINE a == First(query, total)
               b == Last(query, total)
    <2>1. a \in Int /\ b \in Int /\ a <= b + 1 /\ Items = a .. b
      BY PageType DEF Items, PageItems
    <2> HIDE DEF a, b
    <2>2. IsFiniteSet(a .. b) /\ Cardinality(a .. b) = b + 1 - a
      BY <2>1, FS_Interval
    <2>3. QED
      BY <2>1, <2>2 DEF a, b
  <1>3. IsFiniteSet(enriched)
    BY <1>2, FS_Subset DEF TypeOK
  <1>4. QED
    BY <1>1, <1>2, <1>3, FS_CardinalityType

LEMMA CountedNext ==
  TypeOK /\ TypeOK' /\ Stages /\ Taken /\ Distinct /\ Counted /\ [Next]_vars => Counted'
  <1> SUFFICES ASSUME TypeOK, TypeOK', Stages, Taken, Distinct, Counted, [Next]_vars
               PROVE  Counted'
    OBVIOUS
  <1>0. /\ failures \in Nat /\ next \in Nat /\ Len(results) \in Nat
        /\ First(query, total) \in Int /\ Cardinality(enriched) \in Nat
        /\ Cardinality(Working) \in Nat /\ IsFiniteSet(Working) /\ IsFiniteSet(enriched)
    BY PageType, ResultItems, FiniteSets_ DEF TypeOK
  <1>1. CASE (\E how \in {"canceled", "expired"} : CtxDone(how)) \/ Finish
             \/ FeedEnd \/ FeedStop \/ CloseResults \/ Done \/ UNCHANGED vars
    <2>1. Working' = Working /\ UNCHANGED <<query, total, next, results, enriched, failures, firstErr>>
      BY <1>1 DEF CtxDone, Finish, Return, FeedEnd, FeedStop, StopFeeding, CloseResults, Done,
                  vars, pool, Working, Busy
    <2>2. feeder' # "none" => feeder # "none"
      BY <1>1 DEF CtxDone, Finish, Return, FeedEnd, FeedStop, StopFeeding, CloseResults, Done,
                  vars, pool
    <2>3. QED
      BY <2>1, <2>2 DEF Counted
  <1>2. CASE ListFails \/ SlicePanics \/ ListThenReturn
    BY <1>2 DEF ListFails, SlicePanics, ListThenReturn, Return, pool, Working, Busy, Counted
  <1>3. CASE ListThenEnrich
    <2>1. Working' = {}
      BY <1>3 DEF ListThenEnrich, Busy, Working
    <2>2. Len(results') = 0 /\ enriched' = {} /\ failures' = 0 /\ firstErr' = "none"
          /\ next' = First(query, total) /\ UNCHANGED <<query, total>>
      BY <1>3 DEF ListThenEnrich, Stages
    <2>3. QED
      BY <1>0, <2>1, <2>2, FS_EmptySet DEF Counted
  <1>4. ASSUME NEW w \in Pool, Feed(w) PROVE Counted'
    <2>1. Working' = Working \cup {w} /\ w \notin Working
      BY <1>4 DEF Feed, TypeOK, Busy, Working
    <2>2. Cardinality(Working') = Cardinality(Working) + 1
      BY <1>0, <2>1, FS_AddElement
    <2>3. First(query, total)' = First(query, total) /\ feeder # "none" /\ next' = next + 1
          /\ UNCHANGED <<failures, enriched, results, firstErr>>
      BY <1>4 DEF Feed
    <2>4. failures + Cardinality(enriched) + Cardinality(Working) + Len(results)
             = next - First(query, total)
      BY <2>3 DEF Counted
    <2>5. failures + Cardinality(enriched) + Cardinality(Working') + Len(results)
             = next' - First(query, total)
      BY <1>0, <2>2, <2>3, <2>4
    <2>6. QED
      BY <2>3, <2>5 DEF Counted
  <1>5. ASSUME NEW w \in Pool, LookedUp(w) PROVE Counted'
    <2>1. Working' = Working \ {w} /\ w \in Working
      BY <1>5 DEF LookedUp, TypeOK, Busy, Working
    <2>2. Cardinality(Working') = Cardinality(Working) - 1
      BY <1>0, <2>1, FS_RemoveElement
    <2>3. Len(results') = Len(results) + 1
      <3>1. PICK o : results' = Append(results, [item |-> item[w], outcome |-> o])
        BY <1>5 DEF LookedUp
      <3>2. QED
        BY <3>1 DEF TypeOK
    <2>4. First(query, total)' = First(query, total)
          /\ UNCHANGED <<failures, enriched, feeder, next, firstErr>>
      BY <1>5 DEF LookedUp
    <2>5. QED
      BY <1>0, <2>2, <2>3, <2>4 DEF Counted
  <1>6. ASSUME NEW w \in Pool, WorkerExit(w) PROVE Counted'
    <2>1. Working' = Working
      BY <1>6 DEF WorkerExit, TypeOK, Busy, Working
    <2>2. QED
      BY <1>6, <2>1 DEF WorkerExit, Counted
  <1>7. CASE Collect
    <2>1. Len(results) >= 1 /\ Len(results') = Len(results) - 1 /\ Head(results) = results[1]
          /\ Head(results).outcome \in Outcomes \ {"none"}
      <3> DEFINE S == [item : Items, outcome : Outcomes \ {"none"}]
      <3>1. results \in Seq(S) /\ results # << >> /\ results' = Tail(results)
        BY <1>7 DEF Collect, TypeOK
      <3> HIDE DEF S
      <3>2. /\ Len(results) >= 1 /\ Len(results') = Len(results) - 1 /\ Head(results) = results[1]
            /\ Head(results) \in S
        BY <3>1, HeadAndTail
      <3>3. QED
        BY <3>2 DEF S
    <2>2. results[1].item \notin enriched
      BY <1>0, <2>1 DEF Distinct
    <2>3. Working' = Working /\ UNCHANGED <<query, total, next, feeder>>
      BY <1>7 DEF Collect, Working, Busy
    <2>4. CASE Head(results).outcome = "ok"
      <3>1. enriched' = enriched \cup {results[1].item} /\ UNCHANGED <<failures, firstErr>>
        BY <1>7, <2>1, <2>4 DEF Collect
      <3>2. Cardinality(enriched') = Cardinality(enriched) + 1
        BY <1>0, <2>2, <3>1, FS_AddElement
      <3>3. QED
        BY <1>0, <2>1, <2>3, <3>1, <3>2 DEF Counted
    <2>5. CASE Head(results).outcome # "ok"
      <3>1. enriched' = enriched /\ failures' = failures + 1 /\ firstErr' # "none"
        BY <1>7, <2>1, <2>5 DEF Collect
      <3>2. QED
        BY <1>0, <2>1, <2>3, <3>1 DEF Counted
    <2>6. QED
      BY <2>4, <2>5
  <1>8. QED
    BY <1>1, <1>2, <1>3, <1>4, <1>5, <1>6, <1>7 DEF Next

LEMMA PlacesCounted ==
  ASSUME NEW n \in Nat
  PROVE  IsFiniteSet(1 .. n) /\ Cardinality(1 .. n) = n
  <1>1. Cardinality(1 .. n) = IF 1 > n THEN 0 ELSE n - 1 + 1
    BY FS_Interval
  <1>2. IsFiniteSet(1 .. n)
    BY FS_Interval
  <1>3. (IF 1 > n THEN 0 ELSE n - 1 + 1) = n
    OBVIOUS
  <1>4. QED
    BY <1>1, <1>2, <1>3

LEMMA CountWorking ==
  ASSUME TypeOK, Distinct
  PROVE  Cardinality(InFlight) = Cardinality(Working) + Len(results)
  <1> DEFINE A == {item[w] : w \in Working}
             B == {results[i].item : i \in 1 .. Len(results)}
             f == [w \in Working |-> item[w]]
             g == [i \in 1 .. Len(results) |-> results[i].item]
  <1>0. Len(results) \in Nat
    BY ResultItems
  <1>1. f \in Bijection(Working, A)
    <2>1. f \in [Working -> A] /\ \A t \in A : \E w \in Working : f[w] = t
      OBVIOUS
    <2>2. \A v, w \in Working : f[v] = f[w] => v = w
      BY DEF Distinct, Working
    <2> HIDE DEF f, A
    <2>3. QED
      BY <2>1, <2>2, Fun_IsBij
  <1>2. g \in Bijection(1 .. Len(results), B)
    <2>1. /\ g \in [1 .. Len(results) -> B]
          /\ \A t \in B : \E i \in 1 .. Len(results) : g[i] = t
      OBVIOUS
    <2>2. \A i, j \in 1 .. Len(results) : g[i] = g[j] => i = j
      BY DEF Distinct
    <2> HIDE DEF g, B
    <2>3. QED
      BY <2>1, <2>2, Fun_IsBij
  <1>3. IsFiniteSet(A) /\ Cardinality(A) = Cardinality(Working)
    <2>1. ExistsBijection(Working, A)
      BY <1>1 DEF ExistsBijection
    <2> HIDE DEF A
    <2>2. QED
      BY <2>1, FiniteSets_, FS_Bijection
  <1>4. IsFiniteSet(B) /\ Cardinality(B) = Len(results)
    <2>1. ExistsBijection(1 .. Len(results), B)
      BY <1>2 DEF ExistsBijection
    <2>2. IsFiniteSet(1 .. Len(results)) /\ Cardinality(1 .. Len(results)) = Len(results)
      BY <1>0, PlacesCounted
    <2> HIDE DEF B
    <2>3. QED
      BY <2>1, <2>2, FS_Bijection
  <1>5. A \cap B = {}
    BY DEF Distinct, Working
  <1>6. InFlight = A \cup B
    BY DEF InFlight, Working
  <1>7. Cardinality(A) \in Nat /\ Cardinality(B) \in Nat
    BY <1>3, <1>4, FiniteSets_, <1>0
  <1> HIDE DEF A, B
  <1>8. Cardinality(A \cup B) = Cardinality(A) + Cardinality(B) - Cardinality({})
    BY <1>3, <1>4, <1>5, FS_Union
  <1>9. QED
    BY <1>0, <1>3, <1>4, <1>6, <1>7, <1>8, FS_EmptySet

LEMMA OnceFromInv == SearchInv => LookedUpOnce
  <1> SUFFICES ASSUME SearchInv PROVE LookedUpOnce
    OBVIOUS
  <1> USE DEF SearchInv
  <1>1. Cardinality(InFlight) = Cardinality({w \in Pool : Busy(w)}) + Len(results)
    BY CountWorking DEF Working
  <1>2. InFlight \cap enriched = {}
    BY DEF InFlight, Distinct
  <1>3. ASSUME main = "collect", ~open, results = << >>, ctx = "live"
        PROVE  failures + Cardinality(enriched) = Cardinality(Items)
    <2>1. feeder = "exit" /\ next = Last(query, total) + 1
      BY <1>3 DEF Stages, Taken
    <2>2. Working = {}
      BY <1>3 DEF ClosedAfterLastSend, Working, Busy
    <2>3. Cardinality(Working) = 0 /\ Len(results) = 0
      BY <1>3, <2>2, FS_EmptySet
    <2>4. failures \in Nat /\ Cardinality(enriched) \in Nat
          /\ Cardinality(Items) = Last(query, total) + 1 - First(query, total)
          /\ First(query, total) \in Int /\ Last(query, total) \in Int
      BY FiniteSets_, PageType DEF TypeOK
    <2>5. failures + Cardinality(enriched) = next - First(query, total)
      BY <2>1, <2>3, <2>4 DEF Counted
    <2>6. QED
      BY <2>1, <2>4, <2>5
  <1>4. QED
    BY <1>1, <1>2, <1>3 DEF LookedUpOnce

LEMMA ToEnrichNext == ToEnrich /\ [Next]_vars => ToEnrich'
  <1> SUFFICES ASSUME ToEnrich, [Next]_vars PROVE ToEnrich'
    OBVIOUS
  <1>1. CASE ListThenEnrich
    BY <1>1 DEF ListThenEnrich, ToEnrich, Items
  <1>2. CASE main' # "collect"
    BY <1>2 DEF ToEnrich
  <1>3. CASE main' = main /\ query' = query /\ total' = total
    BY <1>3 DEF ToEnrich, Items
  <1>4. QED
    BY <1>1, <1>2, <1>3
       DEF Next, CtxDone, ListFails, SlicePanics, ListThenReturn, Feed, FeedEnd, FeedStop,
           StopFeeding, CloseResults, LookedUp, WorkerExit, Collect, Finish, Return, Done,
           vars, pool

LEMMA WarningNext == SearchInv /\ [Next]_vars => WarningFits'
  <1> SUFFICES ASSUME SearchInv, [Next]_vars PROVE WarningFits'
    OBVIOUS
  <1> USE DEF SearchInv
  <1>1. CASE ListFails
    <2>1. main' = "returned" /\ result'.error # "none"
      BY <1>1 DEF ListFails, Return, NoResult, TypeOK
    <2>2. QED
      BY <2>1 DEF WarningFits
  <1>2. CASE ListThenReturn
    <2>1. /\ result'.items = Items' /\ result'.warning = warning'
          /\ warning' \in {"none", "stale"}
          /\ query' = query /\ (query.filtered => Items' = {})
      BY <1>2, HeadingType DEF ListThenReturn, Return, Results, Items
    <2>2. QED
      BY <2>1 DEF WarningFits
  <1>3. CASE Finish
    <2>1. Items' = Items /\ UNCHANGED <<query, ctx, warning>> /\ warning \in {"none", "stale"}
      BY <1>3 DEF Finish, Items, TypeOK
    <2>2. CASE EnrichError = "canceled"
      <3>1. result'.error = "canceled"
        BY <1>3, <2>2 DEF Finish, Return, NoResult
      <3>2. QED
        BY <3>1 DEF WarningFits
    <2>3. CASE EnrichError # "canceled"
      <3>1. /\ result'.items = IF EnrichError = "expired" THEN {} ELSE Items
            /\ result'.enriched = IF EnrichError = "expired" THEN {} ELSE enriched
            /\ result'.warning = IF warning = "none" THEN EnrichError ELSE warning
        BY <1>3, <2>3, HeadingType DEF Finish, Return, Results
      <3>2. query.filtered /\ Items # {} /\ enriched \subseteq Items
        BY <1>3 DEF Finish, ToEnrich, TypeOK
      <3>3. CASE ctx # "live"
        <4>1. EnrichError = "expired" /\ ctx = "expired"
          BY <2>3, <3>3 DEF EnrichError, TypeOK
        <4>2. QED
          BY <2>1, <3>1, <3>2, <4>1 DEF WarningFits
      <3>4. CASE ctx = "live"
        <4>1. /\ EnrichError = IF firstErr # "none" THEN "lookups" ELSE "none"
              /\ EnrichError \in {"lookups", "none"}
          BY <3>4 DEF EnrichError
        <4>2. failures + Cardinality(enriched) = Cardinality(Items)
          BY <1>3, <3>4, OnceFromInv DEF LookedUpOnce, Finish
        <4>3. /\ failures \in Nat /\ Cardinality(enriched) \in Nat
              /\ IsFiniteSet(Items) /\ Cardinality(Items) \in Nat
              /\ firstErr = "none" <=> failures = 0
          <5>1. failures \in Nat
            BY DEF TypeOK
          <5>2. firstErr = "none" <=> failures = 0
            BY DEF Counted
          <5>3. /\ Cardinality(enriched) \in Nat
                /\ IsFiniteSet(Items) /\ Cardinality(Items) \in Nat
            BY FiniteSets_, FS_CardinalityType
          <5>4. QED
            BY <5>1, <5>2, <5>3
        <4>4. firstErr = "none" => enriched = Items
          BY <3>2, <4>2, <4>3, FS_Subset
        <4>5. firstErr # "none" => enriched # Items
          BY <4>2, <4>3
        <4>6. EnrichError = "lookups" <=> Items \ enriched # {}
          BY <3>2, <4>1, <4>4, <4>5
        <4>7. /\ result'.items = Items /\ result'.enriched = enriched
              /\ ctx' = "live" /\ query'.filtered
          BY <2>1, <3>1, <3>2, <3>4, <4>1
        <4>8. QED
          BY <2>1, <3>1, <4>1, <4>6, <4>7 DEF WarningFits
      <3>5. QED
        BY <3>3, <3>4
    <2>4. QED
      BY <2>2, <2>3
  <1>4. CASE main' # "returned"
    BY <1>4 DEF WarningFits
  <1>5. CASE main = "returned" /\ UNCHANGED <<main, result, warning, query, total, ctx>>
    BY <1>5 DEF WarningFits, Items
  <1>6. main = "returned" => AllExited
    BY DEF Stages, ClosedAfterLastSend, AllExited
  <1>7. ASSUME NEW how, CtxDone(how) PROVE WarningFits'
    BY <1>4, <1>6, <1>7 DEF CtxDone
  <1>8. QED
    BY <1>1, <1>2, <1>3, <1>4, <1>5, <1>7
       DEF Next, SlicePanics, ListThenEnrich, Feed, FeedEnd, FeedStop, StopFeeding,
           CloseResults, LookedUp, WorkerExit, Collect, Done, vars, pool

LEMMA SearchInvariant == Spec => []SearchInv
  <1>1. Init => SearchInv
    <2> SUFFICES ASSUME Init PROVE SearchInv
      OBVIOUS
    <2>1. TypeOK
      BY TypeInit
    <2>2. Working = {} /\ Len(results) = 0
      BY DEF Init, Working, Busy
    <2>3. Counted
      BY FS_EmptySet DEF Init, Counted
    <2>4. Stages /\ ClosedAfterLastSend /\ Taken /\ Distinct /\ ToEnrich /\ WarningFits
      BY DEF Init, Stages, ClosedAfterLastSend, Taken, Distinct, ToEnrich, WarningFits, Busy
    <2>5. QED
      BY <2>1, <2>3, <2>4 DEF SearchInv
  <1>2. SearchInv /\ [Next]_vars => SearchInv'
    BY TypeNext, StagesNext, TakenNext, DistinctNext, CountedNext, ToEnrichNext,
       WarningNext DEF SearchInv
  <1>3. QED
    BY <1>1, <1>2, PTL DEF Spec

-----------------------------------------------------------------------------
(* The arithmetic of the pages *)

LEMMA DivBounds ==
  ASSUME NEW a \in Nat, NEW b \in Nat, b > 0
  PROVE  /\ a \div b \in Nat
         /\ b * (a \div b) <= a
         /\ a < b * (a \div b) + b
  OBVIOUS

LEMMA MulMono ==
  ASSUME NEW k \in Int, NEW q \in Int, NEW s \in Nat, k <= q
  PROVE  s * k <= s * q
  OBVIOUS

LEMMA DivUnique ==
  ASSUME NEW a \in Nat, NEW s \in Nat, s > 0, NEW k \in Int
  PROVE  a \div s = k <=> (s * k <= a /\ a < s * k + s)
  <1> DEFINE q == a \div s
  <1>1. q \in Nat /\ s * q <= a /\ a < s * q + s
    BY DivBounds
  <1> HIDE DEF q
  <1>2. ASSUME s * k <= a, a < s * k + s PROVE q = k
    <2>1. ASSUME k < q PROVE FALSE
      <3>1. s * (k + 1) <= s * q
        BY <1>1, <2>1, MulMono
      <3>2. s * (k + 1) = s * k + s
        OBVIOUS
      <3>3. QED
        BY <1>1, <1>2, <3>1, <3>2
    <2>2. ASSUME q < k PROVE FALSE
      <3>1. s * (q + 1) <= s * k
        BY <1>1, <2>2, MulMono
      <3>2. s * (q + 1) = s * q + s
        BY <1>1
      <3>3. QED
        BY <1>1, <1>2, <3>1, <3>2
    <2>3. QED
      BY <1>1, <2>1, <2>2
  <1>3. QED
    BY <1>1, <1>2 DEF q

LEMMA ModSmall ==
  ASSUME NEW y \in Nat, NEW m \in Nat, y < m
  PROVE  y % m = y
  OBVIOUS

LEMMA WrapFits == ASSUME NEW x \in Nat, x <= MaxInt PROVE Wrap(x) = x
  <1>1. (x + MaxInt + 1) % (2 * (MaxInt + 1)) = x + MaxInt + 1
    BY ModSmall, SearchAssumption
  <1>2. QED
    BY <1>1, SearchAssumption DEF Wrap

\* n places in pages of s: page p starts after start and ends with last.
Cuts(n, s, p, start, last) ==
    /\ last < n <=> p < (n + s - 1) \div s
    /\ start + 1 .. last = {i \in 1 .. n : (i - 1) \div s = p - 1}

LEMMA PageArithmetic ==
  ASSUME NEW n \in Nat, NEW s \in Nat, s > 0, NEW p \in Nat, p > 0,
         NEW start \in Nat, start = AtMost((p - 1) * s, n),
         NEW last \in Nat, last = AtMost(start + s, n)
  PROVE  Cuts(n, s, p, start, last)
  <1> DEFINE q == (n + s - 1) \div s
             a == s * (p - 1)
  <1>1. a \in Nat /\ a = (p - 1) * s /\ a + s = s * p
    <2>1. (p - 1) * s = s * (p - 1) /\ s * (p - 1) \in Nat
      OBVIOUS
    <2>2. s * (p - 1) + s = s * p
      OBVIOUS
    <2>3. QED
      BY <2>1, <2>2
  <1>2. last < n <=> s * p < n
    BY <1>1 DEF AtMost
  <1>3. q \in Nat /\ s * q <= n + s - 1 /\ n + s - 1 < s * q + s
    BY DivBounds
  <1>4. s * p \in Nat /\ s * q \in Nat
    BY <1>3
  <1>5. ASSUME p < q PROVE s * p < n
    <2>1. s * (p + 1) <= s * q
      BY <1>3, <1>5, MulMono
    <2>2. s * (p + 1) = s * p + s
      OBVIOUS
    <2> HIDE DEF q
    <2>3. QED
      BY <1>3, <1>4, <2>1, <2>2
  <1>6. ASSUME q <= p PROVE ~(s * p < n)
    <2>1. s * q <= s * p
      BY <1>3, <1>6, MulMono
    <2> HIDE DEF q
    <2>2. QED
      BY <1>3, <1>4, <2>1
  <1>7. last < n <=> p < q
    <2> HIDE DEF q
    <2>1. QED
      BY <1>2, <1>3, <1>5, <1>6
  <1>8. ASSUME NEW i \in 1 .. n
        PROVE  (i - 1) \div s = p - 1 <=> i \in start + 1 .. last
    <2>1. (i - 1) \div s = p - 1 <=> (a <= i - 1 /\ i - 1 < a + s)
      BY DivUnique
    <2> HIDE DEF a
    <2>2. (a <= i - 1 /\ i - 1 < a + s) <=> i \in start + 1 .. last
      BY <1>1 DEF AtMost
    <2>3. QED
      BY <2>1, <2>2
  <1>9. start + 1 .. last \subseteq 1 .. n
    BY DEF AtMost
  <1>10. start + 1 .. last = {i \in 1 .. n : (i - 1) \div s = p - 1}
    BY <1>8, <1>9, Zenon
  <1>11. QED
    BY <1>7, <1>10 DEF Cuts

\* What Search returns is the page it cut out, if it did.
Cut ==
    /\ main = "panicked" => Start(query, total) < 0
    /\ main = "returned" /\ result.error = "none" =>
          /\ result.pages = Heading.pages /\ result.more = Heading.more
          /\ \/ result.items = Items
             \/ ctx # "live" /\ result.items = {}

LEMMA CutNext == TypeOK /\ Cut /\ [Next]_vars => Cut'
  <1> SUFFICES ASSUME TypeOK, Cut, [Next]_vars PROVE Cut'
    OBVIOUS
  <1>1. CASE ListFails
    <2>1. main' = "returned" /\ result'.error # "none"
      BY <1>1 DEF ListFails, Return, NoResult, TypeOK
    <2>2. QED
      BY <2>1 DEF Cut
  <1>2. CASE SlicePanics
    BY <1>2 DEF SlicePanics, Cut
  <1>3. CASE ListThenReturn
    <2>1. /\ result'.pages = Heading.pages /\ result'.more = Heading.more
          /\ result'.items = Items /\ main' = "returned"
      BY <1>3, HeadingType DEF ListThenReturn, Return, Results
    <2>2. Heading' = Heading /\ Items' = Items
      BY <1>3 DEF ListThenReturn, Heading, Items
    <2>3. QED
      BY <2>1, <2>2 DEF Cut
  <1>4. CASE Finish
    <2>1. Heading' = Heading /\ Items' = Items /\ ctx' = ctx /\ main' = "returned"
      BY <1>4 DEF Finish, Return, Heading, Items
    <2>2. CASE EnrichError = "canceled"
      <3>1. result'.error = "canceled"
        BY <1>4, <2>2 DEF Finish, Return, NoResult
      <3>2. QED
        BY <2>1, <3>1 DEF Cut
    <2>3. CASE EnrichError # "canceled"
      <3>1. /\ result'.pages = Heading.pages /\ result'.more = Heading.more
            /\ result'.items = IF EnrichError = "expired" THEN {} ELSE Items
        BY <1>4, <2>3, HeadingType DEF Finish, Return, Results
      <3>2. EnrichError = "expired" => ctx # "live"
        BY DEF EnrichError
      <3>3. QED
        BY <2>1, <3>1, <3>2 DEF Cut
    <2>4. QED
      BY <2>2, <2>3
  <1>5. CASE main' \notin {"returned", "panicked"}
    BY <1>5 DEF Cut
  <1>6. CASE main' = main /\ result' = result /\ query' = query /\ total' = total
             /\ (ctx' = ctx \/ ctx' # "live")
    <2>1. Heading' = Heading /\ Items' = Items /\ Start(query, total)' = Start(query, total)
      BY <1>6 DEF Heading, Items
    <2>2. QED
      BY <1>6, <2>1 DEF Cut
  <1>7. QED
    BY <1>1, <1>2, <1>3, <1>4, <1>5, <1>6
       DEF Next, CtxDone, ListThenEnrich, Feed, FeedEnd, FeedStop, StopFeeding,
           CloseResults, LookedUp, WorkerExit, Collect, Done, vars, pool

LEMMA CutIsPage == TypeOK /\ Cut => PageAsked
  <1> SUFFICES ASSUME TypeOK, Cut, (Page(query) - 1) * Size(query) <= MaxInt
               PROVE  /\ main # "panicked"
                      /\ main = "returned" /\ result.error = "none" =>
                            /\ result.more <=> Page(query) < result.pages
                            /\ \/ result.items = {i \in 1 .. total :
                                      (i - 1) \div Size(query) = Page(query) - 1}
                               \/ ctx # "live" /\ result.items = {}
    BY DEF PageAsked
  <1> DEFINE n == total
             s == Size(query)
             p == Page(query)
             start == Start(query, total)
             last == Last(query, total)
  <1>1. n \in Nat /\ s \in Nat /\ s > 0 /\ p \in Nat /\ p > 0
    BY SizeType, SearchAssumption DEF TypeOK, Page
  <1>2. (p - 1) * s \in Nat
    <2> HIDE DEF p, s
    <2>1. QED
      BY <1>1
  <1>3. start = AtMost((p - 1) * s, n) /\ start \in Nat
    BY <1>1, <1>2, WrapFits DEF Start, AtMost
  <1>4. last = AtMost(start + s, n) /\ last \in Nat
    BY <1>1, <1>3 DEF Last, AtMost
  <1>5. Items = start + 1 .. last /\ Heading.pages = (n + s - 1) \div s
        /\ Heading.more = (last < n)
    BY DEF Items, PageItems, First, Heading, NoResult
  <1> HIDE DEF n, s, p, start, last
  <1>6. Cuts(n, s, p, start, last)
    BY <1>1, <1>3, <1>4, PageArithmetic
  <1>7. main # "panicked"
    BY <1>3 DEF Cut, start
  <1>8. ASSUME main = "returned", result.error = "none"
        PROVE  /\ result.more <=> p < result.pages
               /\ \/ result.items = {i \in 1 .. n : (i - 1) \div s = p - 1}
                  \/ ctx # "live" /\ result.items = {}
    BY <1>5, <1>6, <1>8 DEF Cut, Cuts
  <1>9. QED
    BY <1>7, <1>8 DEF n, s, p

-----------------------------------------------------------------------------
(* The theorems *)

\* The channels, the goroutines and the result of Search have their types,
\* whatever the page, the outcomes of the lookups and the time of a
\* cancellation.
THEOREM TypeCorrect == Spec => []TypeOK
  BY SearchInvariant, PTL DEF SearchInv

\* No worker of enrichPage sends on the closed results channel, and none is
\* left when it is closed, for any number of workers and items.
THEOREM NoSendAfterClose == Spec => []ClosedAfterLastSend
  BY SearchInvariant, PTL DEF SearchInv

\* enrichPage looks every item of the page up once and accounts for it once.
THEOREM EachLookedUpOnce == Spec => []LookedUpOnce
  BY SearchInvariant, OnceFromInv, PTL

\* Whatever the page, the number of workers and the outcomes of the lookups, a
\* search that succeeds has its whole page unless the deadline took it, and its
\* warning is the one WarningFits gives: exact over a fresh catalog, and over a
\* stale one that of the catalog only, which hides the failed lookups.
THEOREM WarningIsExact == Spec => []WarningFits
  BY SearchInvariant, PTL DEF SearchInv

\* Whatever the page and its size, Search cuts out the places they stand for,
\* and HasNext agrees with TotalPages, unless the first place overflows an int.
THEOREM PageIsThePageAsked == Spec => []PageAsked
  <1>1. Init => Cut
    BY DEF Init, Cut
  <1>2. QED
    BY <1>1, CutNext, CutIsPage, TypeCorrect, PTL DEF Spec
=============================================================================
