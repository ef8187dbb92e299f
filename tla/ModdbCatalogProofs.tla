------------------------- MODULE ModdbCatalogProofs -------------------------
(***************************************************************************)
(* Theorems about ModdbCatalog, for every set of callers and filters, any  *)
(* number of versions and any choice of empty ones.                        *)
(***************************************************************************)
EXTENDS ModdbCatalog, TLAPS

-----------------------------------------------------------------------------
(* Type correctness *)

LEMMA NoReplyType == NoReply \in Replies
  BY DEF NoReply, Replies

LEMMA ResultType ==
  ASSUME TypeOK, NEW k \in Keys, phase[k] = "stored" => found[k] # 0
  PROVE  Result(k) \in Replies
  <1>1. CASE phase[k] = "stored"
    BY <1>1 DEF Result, Replies, TypeOK, Versions
  <1>2. CASE phase[k] = "failed" /\ Nonempty(stale[k])
    BY <1>2 DEF Result, Replies, TypeOK, Versions, Nonempty
  <1>3. CASE phase[k] # "stored" /\ ~(phase[k] = "failed" /\ Nonempty(stale[k]))
    BY <1>3 DEF Result, Replies, FlightAborted
  <1>4. QED
    BY <1>1, <1>2, <1>3

\* An answer is a version: the one fact about flights that types depend on.
Answered == \A k \in Keys : phase[k] \in {"answered", "stored"} => found[k] # 0

LEMMA InitType == Init => TypeOK /\ Answered
  <1>1. [kind |-> "failed", data |-> 0] \in Replies
    BY DEF Replies
  <1>2. QED
    BY <1>1, CatalogAssumption DEF Init, TypeOK, Answered, Versions, Phases

LEMMA NextType == TypeOK /\ Answered /\ [Next]_vars => TypeOK' /\ Answered'
  <1> SUFFICES ASSUME TypeOK, Answered, [Next]_vars PROVE TypeOK' /\ Answered'
    OBVIOUS
  <1> USE DEF TypeOK, Answered, Phases, cache, flight, calls
  <1>1. CASE Publish
    BY <1>1, CatalogAssumption DEF Publish
  <1>2. ASSUME NEW k \in Keys, Expire(k) PROVE TypeOK' /\ Answered'
    BY <1>2 DEF Expire
  <1>3. ASSUME NEW k \in Keys, Answer(k) PROVE TypeOK' /\ Answered'
    BY <1>3 DEF Answer, Versions
  <1>4. ASSUME NEW k \in Keys, Fail(k) PROVE TypeOK' /\ Answered'
    BY <1>4 DEF Fail
  <1>5. ASSUME NEW k \in Keys, Store(k) PROVE TypeOK' /\ Answered'
    BY <1>5 DEF Store
  <1>6. ASSUME NEW k \in Keys, End(k) PROVE TypeOK' /\ Answered'
    <2>1. Result(k) \in Replies
      BY ResultType
    <2>2. reply' \in [Callers -> Replies]
      BY <1>6, <2>1 DEF End
    <2>3. QED
      BY <1>6, <2>2, CatalogAssumption DEF End, Versions
  <1>7. ASSUME NEW c \in Callers, CtxDone(c) PROVE TypeOK' /\ Answered'
    BY <1>7 DEF CtxDone
  <1>8. ASSUME NEW c \in Callers, Lookup(c) PROVE TypeOK' /\ Answered'
    <2>1. key[c] \in Keys
      OBVIOUS
    <2>2. Hit(key[c]) => [kind |-> "ok", data |-> data[key[c]]] \in Replies
      BY <2>1 DEF Hit, Replies, Versions
    <2>3. reply' \in [Callers -> Replies]
      BY <1>8, <2>2, NoReplyType DEF Lookup
    <2>4. QED
      BY <1>8, <2>1, <2>3 DEF Lookup
  <1>9. ASSUME NEW c \in Callers, Join(c) PROVE TypeOK' /\ Answered'
    BY <1>9 DEF Join
  <1>10. ASSUME NEW c \in Callers, Receive(c) PROVE TypeOK' /\ Answered'
    BY <1>10 DEF Receive
  <1>11. ASSUME NEW c \in Callers, GiveUp(c) PROVE TypeOK' /\ Answered'
    <2>1. [kind |-> "ctx", data |-> 0] \in Replies
      BY DEF Replies
    <2>2. QED
      BY <1>11, <2>1 DEF GiveUp
  <1>12. CASE UNCHANGED vars
    BY <1>12 DEF vars
  <1>13. QED
    BY <1>1, <1>2, <1>3, <1>4, <1>5, <1>6, <1>7, <1>8, <1>9, <1>10, <1>11, <1>12
       DEF Next

\* The cache, the flights and the calls keep their types. That a stale reply
\* carries a list with mods in it is part of the type of replies.
THEOREM TypeCorrect == Spec => []TypeOK
  BY InitType, NextType, PTL DEF Spec

-----------------------------------------------------------------------------
(* Waiters *)

LEMMA NextNoLostWaiter == TypeOK /\ NoLostWaiter /\ [Next]_vars => NoLostWaiter'
  <1> SUFFICES ASSUME TypeOK, NoLostWaiter, [Next]_vars,
                      NEW c \in Callers, NEW k \in Keys
               PROVE  /\ c \in waiters'[k] <=> pc'[c] = "waiting" /\ key'[c] = k
                      /\ c \in waiters'[k] => phase'[k] # "none"
    BY DEF NoLostWaiter
  <1> USE DEF TypeOK, NoLostWaiter, cache, flight, calls
  <1>1. CASE Publish
    BY <1>1 DEF Publish
  <1>2. ASSUME NEW l \in Keys, Expire(l) \/ Answer(l) \/ Fail(l) \/ Store(l)
        PROVE  /\ c \in waiters'[k] <=> pc'[c] = "waiting" /\ key'[c] = k
               /\ c \in waiters'[k] => phase'[k] # "none"
    BY <1>2 DEF Expire, Answer, Fail, Store
  <1>3. ASSUME NEW l \in Keys, End(l)
        PROVE  /\ c \in waiters'[k] <=> pc'[c] = "waiting" /\ key'[c] = k
               /\ c \in waiters'[k] => phase'[k] # "none"
    BY <1>3 DEF End
  <1>4. ASSUME NEW d \in Callers, CtxDone(d) \/ Lookup(d) \/ Receive(d)
        PROVE  /\ c \in waiters'[k] <=> pc'[c] = "waiting" /\ key'[c] = k
               /\ c \in waiters'[k] => phase'[k] # "none"
    BY <1>4 DEF CtxDone, Lookup, Receive
  <1>5. ASSUME NEW d \in Callers, Join(d)
        PROVE  /\ c \in waiters'[k] <=> pc'[c] = "waiting" /\ key'[c] = k
               /\ c \in waiters'[k] => phase'[k] # "none"
    BY <1>5 DEF Join
  <1>6. ASSUME NEW d \in Callers, GiveUp(d)
        PROVE  /\ c \in waiters'[k] <=> pc'[c] = "waiting" /\ key'[c] = k
               /\ c \in waiters'[k] => phase'[k] # "none"
    BY <1>6 DEF GiveUp
  <1>7. CASE UNCHANGED vars
    BY <1>7 DEF vars
  <1>8. QED
    BY <1>1, <1>2, <1>3, <1>4, <1>5, <1>6, <1>7 DEF Next

\* A waiting call is always registered with the one running flight of its own
\* key, whoever joins, leaves or fails.
THEOREM NoWaiterLost == Spec => []NoLostWaiter
  <1>1. Init => NoLostWaiter
    BY DEF Init, NoLostWaiter
  <1>2. QED
    BY <1>1, InitType, NextType, NextNoLostWaiter, PTL DEF Spec

-----------------------------------------------------------------------------
(* The cached version *)

\* What a flight carries, compared with the cache. One flight per key is what
\* makes it inductive: between the answer and its storage nobody else stores.
FlightData ==
    \A k \in Keys :
        /\ data[k] <= published
        /\ stale[k] <= data[k]
        /\ phase[k] \in {"answered", "stored"} => found[k] \in 1 .. published
        /\ phase[k] = "answered" => data[k] <= found[k]
        /\ phase[k] = "stored" => data[k] = found[k]

\* What a caller saw in the cache is no newer than the cache.
SnapHeld == \A c \in Callers : snap[c] <= data[key[c]]

LEMMA InitData == Init => FlightData /\ SnapHeld
  BY DEF Init, FlightData, SnapHeld

LEMMA NextData ==
  TypeOK /\ FlightData /\ SnapHeld /\ [Next]_vars
     => /\ FlightData' /\ SnapHeld'
        /\ \A k \in Keys : data[k] <= data'[k]
  <1> SUFFICES ASSUME TypeOK, FlightData, SnapHeld, [Next]_vars
               PROVE  /\ FlightData' /\ SnapHeld'
                      /\ \A k \in Keys : data[k] <= data'[k]
    OBVIOUS
  <1> DEFINE Goal == /\ FlightData' /\ SnapHeld'
                     /\ \A k \in Keys : data[k] <= data'[k]
  <1> USE DEF TypeOK, Versions, FlightData, SnapHeld, cache, flight, calls
  <1>1. CASE Publish
    BY <1>1, CatalogAssumption DEF Publish
  <1>2. ASSUME NEW k \in Keys, Expire(k) PROVE Goal
    BY <1>2 DEF Expire
  <1>3. ASSUME NEW k \in Keys, Answer(k) PROVE Goal
    BY <1>3 DEF Answer
  <1>4. ASSUME NEW k \in Keys, Fail(k) PROVE Goal
    BY <1>4 DEF Fail
  <1>5. ASSUME NEW k \in Keys, Store(k) PROVE Goal
    <2>1. /\ data' = [data EXCEPT ![k] = found[k]]
          /\ data[k] <= found[k] /\ found[k] \in 1 .. published
          /\ phase' = [phase EXCEPT ![k] = "stored"]
          /\ UNCHANGED <<published, stale, found, snap, key>>
      BY <1>5 DEF Store
    <2>2. \A l \in Keys : data[l] \in Nat /\ data'[l] \in Nat /\ data[l] <= data'[l]
      BY <2>1
    <2>3. FlightData'
      BY <2>1, <2>2
    <2>4. SnapHeld'
      <3> SUFFICES ASSUME NEW c \in Callers PROVE snap'[c] <= data'[key'[c]]
        OBVIOUS
      <3>1. snap[c] \in Nat /\ key[c] \in Keys
        OBVIOUS
      <3>2. QED
        BY <2>1, <2>2, <3>1
    <2>5. QED
      BY <2>2, <2>3, <2>4
  <1>6. ASSUME NEW k \in Keys, End(k) PROVE Goal
    BY <1>6 DEF End
  <1>7. ASSUME NEW c \in Callers, CtxDone(c) \/ Receive(c) \/ GiveUp(c) PROVE Goal
    BY <1>7 DEF CtxDone, Receive, GiveUp
  <1>8. ASSUME NEW c \in Callers, Lookup(c) PROVE Goal
    BY <1>8 DEF Lookup
  <1>9. ASSUME NEW c \in Callers, Join(c) PROVE Goal
    BY <1>9 DEF Join
  <1>10. CASE UNCHANGED vars
    BY <1>10 DEF vars
  <1>11. QED
    BY <1>1, <1>2, <1>3, <1>4, <1>5, <1>6, <1>7, <1>8, <1>9, <1>10 DEF Next

\* The version cached for a key never goes back.
THEOREM CacheNeverRegresses == Spec => CacheMonotone
  BY InitType, NextType, InitData, NextData, PTL DEF Spec, CacheMonotone

-----------------------------------------------------------------------------
(* Replies *)

\* Every reply is one the promise allows, and no call ends without one.
RepliesFit ==
    \A c \in Callers :
        /\ reply[c].kind = "ok" => snap[c] <= reply[c].data /\ reply[c].data <= data[key[c]]
        /\ reply[c].kind = "stale" => 0 < reply[c].data /\ reply[c].data <= data[key[c]]
        /\ reply[c].kind = "ctx" => ctx[c]
        /\ pc[c] \in {"delivered", "done"} => reply[c].kind # "none"

CacheInv == TypeOK /\ Answered /\ NoLostWaiter /\ FlightData /\ SnapHeld

\* A flight's result fits every caller that waits for it.
LEMMA ResultFits ==
  ASSUME CacheInv, NEW k \in Keys, phase[k] \in {"stored", "failed"},
         NEW c \in Callers, c \in waiters[k]
  PROVE  LET r == Result(k) IN
         /\ r.kind = "ok" => snap[c] <= r.data /\ r.data <= data[key[c]]
         /\ r.kind = "stale" => 0 < r.data /\ r.data <= data[key[c]]
         /\ r.kind \in {"ok", "stale", "failed"}
  <1>1. key[c] = k
    BY DEF CacheInv, NoLostWaiter
  <1>2. snap[c] <= data[k] /\ data[k] \in Nat /\ stale[k] \in Nat /\ stale[k] <= data[k]
    BY <1>1 DEF CacheInv, SnapHeld, FlightData, TypeOK, Versions
  <1>3. CASE phase[k] = "stored"
    <2>1. Result(k) = [kind |-> "ok", data |-> found[k]] /\ found[k] = data[k]
      BY <1>3 DEF Result, CacheInv, FlightData
    <2>2. QED
      BY <1>1, <1>2, <2>1
  <1>4. CASE phase[k] = "failed" /\ Nonempty(stale[k])
    <2>1. Result(k) = [kind |-> "stale", data |-> stale[k]] /\ stale[k] # 0
      BY <1>4 DEF Result, Nonempty
    <2>2. QED
      BY <1>1, <1>2, <2>1
  <1>5. CASE phase[k] = "failed" /\ ~Nonempty(stale[k])
    <2>1. Result(k) = [kind |-> "failed", data |-> 0]
      BY <1>5 DEF Result, FlightAborted
    <2>2. QED
      BY <2>1
  <1>6. QED
    BY <1>3, <1>4, <1>5

LEMMA NextReplies ==
  CacheInv /\ RepliesFit /\ [Next]_vars => RepliesFit'
  <1> SUFFICES ASSUME CacheInv, RepliesFit, [Next]_vars, NEW c \in Callers
               PROVE  /\ reply'[c].kind = "ok" =>
                            snap'[c] <= reply'[c].data /\ reply'[c].data <= data'[key'[c]]
                      /\ reply'[c].kind = "stale" =>
                            0 < reply'[c].data /\ reply'[c].data <= data'[key'[c]]
                      /\ reply'[c].kind = "ctx" => ctx'[c]
                      /\ pc'[c] \in {"delivered", "done"} => reply'[c].kind # "none"
    BY DEF RepliesFit
  <1> DEFINE Fits == /\ reply'[c].kind = "ok" =>
                            snap'[c] <= reply'[c].data /\ reply'[c].data <= data'[key'[c]]
                     /\ reply'[c].kind = "stale" =>
                            0 < reply'[c].data /\ reply'[c].data <= data'[key'[c]]
                     /\ reply'[c].kind = "ctx" => ctx'[c]
                     /\ pc'[c] \in {"delivered", "done"} => reply'[c].kind # "none"
  <1> USE DEF cache, flight, calls
  <1>1. /\ key[c] \in Keys /\ data[key[c]] \in Nat /\ snap[c] \in Nat
        /\ reply[c].data \in Nat
        /\ pc \in [Callers -> {"missed", "waiting", "delivered", "done"}]
        /\ reply \in [Callers -> Replies] /\ ctx \in [Callers -> BOOLEAN]
        /\ snap \in [Callers -> Versions] /\ data \in [Keys -> Versions]
        /\ \A r \in Replies : r.data \in Nat
    <2>1. \A r \in Replies : r.data \in Nat
      BY DEF Replies
    <2>2. QED
      BY <2>1 DEF CacheInv, TypeOK, Versions
  <1>2. /\ reply[c].kind = "ok" => snap[c] <= reply[c].data /\ reply[c].data <= data[key[c]]
        /\ reply[c].kind = "stale" => 0 < reply[c].data /\ reply[c].data <= data[key[c]]
        /\ reply[c].kind = "ctx" => ctx[c]
        /\ pc[c] \in {"delivered", "done"} => reply[c].kind # "none"
    BY DEF RepliesFit
  <1>3. data'[key[c]] \in Nat /\ data[key[c]] <= data'[key[c]]
    BY <1>1, NextType, NextData DEF CacheInv, TypeOK, Versions
  <1>4. CASE \/ Publish
             \/ \E k \in Keys : Expire(k) \/ Answer(k) \/ Fail(k) \/ Store(k)
             \/ \E d \in Callers : Join(d)
             \/ UNCHANGED vars
    <2>1. UNCHANGED <<reply, snap, key, ctx>>
      BY <1>4 DEF Publish, Expire, Answer, Fail, Store, Join, vars
    <2>2. pc'[c] \in {"delivered", "done"} => pc'[c] = pc[c]
      BY <1>1, <1>4 DEF Publish, Expire, Answer, Fail, Store, Join, vars
    <2>3. QED
      BY <1>1, <1>2, <1>3, <2>1, <2>2
  <1>5. ASSUME NEW k \in Keys, End(k) PROVE Fits
    <2>1. phase[k] \in {"stored", "failed"} /\ UNCHANGED <<data, snap, key, ctx>>
      BY <1>5 DEF End
    <2>2. CASE c \in waiters[k]
      <3>1. reply'[c] = Result(k)
        BY <1>5, <2>2 DEF End
      <3>2. QED
        BY <2>1, <2>2, <3>1, ResultFits
    <2>3. CASE c \notin waiters[k]
      <3>1. reply'[c] = reply[c] /\ pc'[c] = pc[c]
        BY <1>5, <2>3 DEF End
      <3>2. QED
        BY <1>2, <2>1, <3>1
    <2>4. QED
      BY <2>2, <2>3
  <1>6. ASSUME NEW d \in Callers, CtxDone(d) PROVE Fits
    BY <1>1, <1>2, <1>6 DEF CtxDone
  <1>7. ASSUME NEW d \in Callers, Receive(d) PROVE Fits
    BY <1>1, <1>2, <1>7 DEF Receive
  <1>8. ASSUME NEW d \in Callers, GiveUp(d) PROVE Fits
    BY <1>1, <1>2, <1>8 DEF GiveUp
  <1>9. ASSUME NEW d \in Callers, Lookup(d) PROVE Fits
    BY <1>1, <1>2, <1>9 DEF Lookup, NoReply
  <1>10. QED
    BY <1>4, <1>5, <1>6, <1>7, <1>8, <1>9 DEF Next

LEMMA InitReplies == Init => RepliesFit
  <1> SUFFICES ASSUME Init, NEW c \in Callers
               PROVE  reply[c].kind = "failed"
    BY DEF RepliesFit
  <1>1. reply[c] = [kind |-> "failed", data |-> 0]
    BY DEF Init
  <1>2. QED
    BY <1>1

LEMMA Invariant == Spec => [](CacheInv /\ RepliesFit)
  <1>1. Init => NoLostWaiter
    BY DEF Init, NoLostWaiter
  <1>2. Init => CacheInv /\ RepliesFit
    BY <1>1, InitType, InitData, InitReplies DEF CacheInv
  <1>3. CacheInv /\ RepliesFit /\ [Next]_vars => CacheInv' /\ RepliesFit'
    BY NextType, NextNoLostWaiter, NextData, NextReplies DEF CacheInv
  <1>4. QED
    BY <1>2, <1>3, PTL DEF Spec

\* A call that succeeds returns data no older than the cache was when it
\* looked and already in the cache.
THEOREM OkCurrent == Spec => []OkIsCurrent
  <1>1. RepliesFit => OkIsCurrent
    BY DEF RepliesFit, OkIsCurrent
  <1>2. QED
    BY <1>1, Invariant, PTL

\* One caller's cancellation is never another caller's error.
THEOREM CancelsIsolated == Spec => []CancelIsolated
  <1>1. RepliesFit => CancelIsolated
    BY DEF RepliesFit, CancelIsolated
  <1>2. QED
    BY <1>1, Invariant, PTL

-----------------------------------------------------------------------------
(* Refinement *)

LEMMA InitKeeps == Init => Promise!Init
  <1> SUFFICES ASSUME Init PROVE Promise!Init
    OBVIOUS
  <1> DEFINE asked == [c \in Callers |-> [key |-> key[c], floor |-> snap[c]]]
             answer == [c \in Callers |-> IF pc[c] = "done" THEN reply[c] ELSE NoReply]
  <1>1. asked \in [Callers -> {[key |-> k, floor |-> 0] : k \in Keys}]
    BY DEF Init
  <1>2. answer = [c \in Callers |-> Promise!Rest]
    BY DEF Init, Promise!Rest
  <1>3. QED
    BY <1>1, <1>2 DEF Init, Promise!Init

LEMMA NextKeeps ==
  CacheInv /\ RepliesFit /\ [Next]_vars => [Promise!Next]_Promise!promise
  <1> SUFFICES ASSUME CacheInv, RepliesFit, [Next]_vars
               PROVE  [Promise!Next]_Promise!promise
    OBVIOUS
  <1> DEFINE asked == [c \in Callers |-> [key |-> key[c], floor |-> snap[c]]]
             answer == [c \in Callers |-> IF pc[c] = "done" THEN reply[c] ELSE NoReply]
  <1> USE DEF cache, flight, calls, Promise!promise
  <1> HIDE DEF asked, answer
  <1>1. TypeOK
    BY DEF CacheInv
  <1>2. \A c \in Callers : pc[c] = "done" => answer[c] = reply[c] /\ answer[c].kind # "none"
    BY DEF answer, RepliesFit
  <1>3. \A c \in Callers : pc[c] # "done" => answer[c] = NoReply
    BY DEF answer
  <1>4. CASE Publish
    <2>1. UNCHANGED <<asked, answer>>
      BY <1>4 DEF Publish, asked, answer
    <2>2. QED
      BY <1>4, <2>1 DEF Publish, Promise!Next, Promise!Publish, asked, answer
  <1>5. ASSUME NEW k \in Keys, Expire(k) \/ Answer(k) \/ Fail(k)
        PROVE  [Promise!Next]_Promise!promise
    BY <1>5 DEF Expire, Answer, Fail, asked, answer
  <1>6. ASSUME NEW k \in Keys, Store(k) PROVE [Promise!Next]_Promise!promise
    <2>1. found[k] \in data[k] .. published
      BY <1>1, <1>6 DEF Store, CacheInv, FlightData, TypeOK, Versions
    <2>2. data' = [data EXCEPT ![k] = found[k]] /\ UNCHANGED <<published, ctx, asked, answer>>
      BY <1>6 DEF Store, asked, answer
    <2>3. Promise!Hold(k)
      BY <2>1, <2>2 DEF Promise!Hold, asked, answer
    <2>4. QED
      BY <2>3 DEF Promise!Next
  <1>7. ASSUME NEW k \in Keys, End(k) PROVE [Promise!Next]_Promise!promise
    <2>1. \A c \in waiters[k] : c \in Callers /\ pc[c] = "waiting"
      BY <1>1 DEF CacheInv, NoLostWaiter, TypeOK
    <2>2. \A c \in Callers : (IF pc'[c] = "done" THEN reply'[c] ELSE NoReply)
                             = IF pc[c] = "done" THEN reply[c] ELSE NoReply
      BY <1>7, <2>1 DEF End
    <2>3. answer' = answer
      BY <2>2 DEF answer
    <2>4. QED
      BY <1>7, <2>3 DEF End, asked, answer
  <1>8. ASSUME NEW c \in Callers, CtxDone(c) PROVE [Promise!Next]_Promise!promise
    <2>1. answer[c].kind = "none"
      BY <1>3, <1>8 DEF CtxDone, NoReply
    <2>2. UNCHANGED <<published, data, asked, answer>> /\ ctx' = [ctx EXCEPT ![c] = TRUE]
      BY <1>8 DEF CtxDone, asked, answer
    <2>3. Promise!Leave(c)
      BY <2>1, <2>2 DEF Promise!Leave, asked, answer
    <2>4. QED
      BY <2>3 DEF Promise!Next
  <1>9. ASSUME NEW c \in Callers, Lookup(c) PROVE [Promise!Next]_Promise!promise
    <2> PICK k \in Keys : k = key[c]
      BY <1>1 DEF TypeOK
    <2>1. /\ pc[c] = "done"
          /\ answer[c].kind # "none"
      BY <1>1, <1>2, <1>9 DEF Lookup, TypeOK
    <2>2. /\ UNCHANGED <<published, data>>
          /\ ctx' = [ctx EXCEPT ![c] = FALSE]
      BY <1>9 DEF Lookup
    <2>3. asked' = [asked EXCEPT ![c] = [key |-> k, floor |-> data[k]]]
      BY <1>1, <1>9 DEF Lookup, asked, TypeOK
    <2>4. CASE Hit(k)
      <3>1. answer' = [answer EXCEPT ![c] = [kind |-> "ok", data |-> data[k]]]
        BY <1>1, <1>9, <2>1, <2>4 DEF Lookup, answer, TypeOK
      <3>2. data[k] > 0
        BY <1>1, <2>1, <2>4 DEF Hit, TypeOK, Versions
      <3>3. Promise!Hit(c, k)
        BY <2>1, <2>2, <2>3, <3>1, <3>2 DEF Promise!Hit, asked, answer
      <3>4. QED
        BY <3>3 DEF Promise!Next
    <2>5. CASE ~Hit(k)
      <3>1. answer' = [answer EXCEPT ![c] = NoReply]
        BY <1>1, <1>9, <2>1, <2>5 DEF Lookup, answer, TypeOK
      <3>2. Promise!Ask(c, k)
        BY <2>1, <2>2, <2>3, <3>1 DEF Promise!Ask, Promise!NoAnswer, NoReply, asked, answer
      <3>3. QED
        BY <3>2 DEF Promise!Next
    <2>6. QED
      BY <2>4, <2>5
  <1>10. ASSUME NEW c \in Callers, Join(c) PROVE [Promise!Next]_Promise!promise
    <2>1. pc[c] # "done" /\ pc' = [pc EXCEPT ![c] = "waiting"]
          /\ UNCHANGED <<published, data, key, snap, ctx, reply>>
      BY <1>10 DEF Join
    <2>2. answer' = answer
      BY <1>1, <2>1 DEF answer, TypeOK
    <2>3. QED
      BY <2>1, <2>2 DEF asked, answer
  <1>11. ASSUME NEW c \in Callers, Receive(c) \/ GiveUp(c)
         PROVE  [Promise!Next]_Promise!promise
    <2>1. /\ pc[c] # "done" /\ pc' = [pc EXCEPT ![c] = "done"]
          /\ UNCHANGED <<published, data, key, snap, ctx>>
          /\ \/ reply' = reply /\ pc[c] = "delivered"
             \/ reply' = [reply EXCEPT ![c] = [kind |-> "ctx", data |-> 0]] /\ ctx[c]
      BY <1>11 DEF Receive, GiveUp
    <2>2. answer' = [answer EXCEPT ![c] = reply'[c]]
      BY <1>1, <2>1 DEF answer, TypeOK
    <2>3. reply'[c] \in Replies
      BY <1>1, <2>1 DEF TypeOK, Replies
    <2> DEFINE r == reply'[c]
    <2>4. r = [kind |-> r.kind, data |-> r.data] /\ r.data \in Nat
      BY <2>3 DEF Replies
    <2>5. /\ r.kind = "ok" => snap[c] <= r.data /\ r.data <= data[key[c]]
          /\ r.kind = "stale" => 0 < r.data /\ r.data <= data[key[c]]
          /\ r.kind = "ctx" => ctx[c]
          /\ r.kind \in {"ok", "stale", "failed", "ctx"}
      BY <1>1, <2>1, <2>3 DEF RepliesFit, TypeOK, Replies
    <2>6. r.data \in 0 .. published
      <3>1. data[key[c]] \in Nat /\ published \in Nat /\ data[key[c]] <= published
        BY <1>1 DEF CacheInv, FlightData, TypeOK, Versions
      <3>2. r.kind \in {"failed", "ctx"} => r.data = 0
        BY <2>3 DEF Replies
      <3>3. QED
        BY <2>4, <2>5, <3>1, <3>2
    <2> HIDE DEF r
    <2>7. asked[c].floor = snap[c] /\ asked[c].key = key[c]
      BY DEF asked
    <2>8. Promise!Fitting(c, [kind |-> r.kind, data |-> r.data])
      BY <2>5, <2>7 DEF Promise!Fitting, asked
    <2>9. answer[c].kind = "none"
      BY <1>3, <2>1 DEF NoReply
    <2>10. asked' = asked
      BY <2>1 DEF asked
    <2>11. answer' = [answer EXCEPT ![c] = [kind |-> r.kind, data |-> r.data]]
      BY <2>2, <2>4 DEF r
    <2>12. Promise!Reply(c)
      BY <2>1, <2>5, <2>6, <2>8, <2>9, <2>10, <2>11
         DEF Promise!Reply, Promise!Kinds, asked, answer
    <2>13. QED
      BY <2>12 DEF Promise!Next
  <1>12. CASE UNCHANGED vars
    BY <1>12 DEF vars, asked, answer
  <1>13. QED
    BY <1>4, <1>5, <1>6, <1>7, <1>8, <1>9, <1>10, <1>11, <1>12 DEF Next

\* The shared cache keeps the promise of a catalog.
THEOREM CatalogKeepsPromise == Spec => KeepsPromise
  BY InitKeeps, NextKeeps, Invariant, PTL DEF Spec, KeepsPromise, Promise!Spec
=============================================================================
