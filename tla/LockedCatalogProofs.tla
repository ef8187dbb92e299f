------------------------ MODULE LockedCatalogProofs ------------------------
(***************************************************************************)
(* Theorems about LockedCatalog, for every set of callers, any number of   *)
(* versions and any choice of empty ones.                                  *)
(***************************************************************************)
EXTENDS LockedCatalog, TLAPS

-----------------------------------------------------------------------------
(* Type correctness *)

LEMMA FailureType == \A e \in {"failed", "ctx"} : Failure(e) \in Replies
  BY DEF Failure, Replies

\* A list about to be returned is a version.
StoredFound == \A c \in Callers : pc[c] = "stored" => found[key[c]] # 0

\* The mutex of a catalog is held by the one caller that fetches from it.
Held == \A c \in Callers : pc[c] \in {"fetch", "stored"} <=> holder[key[c]] = c

LEMMA InitType == Init => TypeOK /\ StoredFound /\ Held
  <1> SUFFICES ASSUME Init PROVE TypeOK /\ StoredFound /\ Held
    OBVIOUS
  <1>1. reply \in [Callers -> Replies]
    BY FailureType DEF Init
  <1>2. TypeOK
    BY <1>1, LockedAssumption DEF Init, TypeOK, Versions
  <1>3. StoredFound
    BY DEF Init, StoredFound
  <1>4. Held
    BY LockedAssumption, <1>2 DEF Init, Held, TypeOK
  <1>5. QED
    BY <1>2, <1>3, <1>4

LEMMA NextType ==
  TypeOK /\ StoredFound /\ Held /\ [Next]_vars => TypeOK' /\ StoredFound' /\ Held'
  <1> SUFFICES ASSUME TypeOK, StoredFound, Held, [Next]_vars
               PROVE  TypeOK' /\ StoredFound' /\ Held'
    OBVIOUS
  <1> DEFINE Goal == TypeOK' /\ StoredFound' /\ Held'
  <1> USE DEF TypeOK, StoredFound, Held, cache, mutex
  <1>1. CASE Publish
    BY <1>1, LockedAssumption DEF Publish
  <1>2. ASSUME NEW k \in Keys, Expire(k) PROVE Goal
    BY <1>2 DEF Expire
  <1>3. ASSUME NEW c \in Callers, CtxDone(c) PROVE Goal
    BY <1>3 DEF CtxDone
  <1>4. ASSUME NEW c \in Callers, Call(c) PROVE Goal
    <2>1. NoReply \in Replies
      BY DEF NoReply, Replies
    <2>2. QED
      BY <1>4, <2>1 DEF Call
  <1>5. ASSUME NEW c \in Callers, LockHit(c) PROVE Goal
    <2>1. [kind |-> "ok", data |-> data[key[c]]] \in Replies
      BY <1>5 DEF LockHit, Hit, Replies, Versions
    <2>2. QED
      BY <1>5, <2>1 DEF LockHit
  <1>6. ASSUME NEW c \in Callers, LockMiss(c) PROVE Goal
    BY <1>6, LockedAssumption DEF LockMiss
  <1>7. ASSUME NEW c \in Callers, Answer(c) PROVE Goal
    BY <1>7 DEF Answer, Versions
  <1>8. ASSUME NEW c \in Callers, Store(c) PROVE Goal
    BY <1>8 DEF Store
  <1>9. ASSUME NEW c \in Callers, NEW r \in Replies, pc[c] \in {"fetch", "stored"},
               Return(c, r), UNCHANGED cache
        PROVE  Goal
    <2>1. /\ found' = [found EXCEPT ![key[c]] = 0] /\ 0 \in Versions
          /\ holder' = [holder EXCEPT ![key[c]] = NoCaller]
          /\ pc' = [pc EXCEPT ![c] = "done"]
          /\ reply' = [reply EXCEPT ![c] = r]
          /\ UNCHANGED <<published, data, fresh, key, snap, ctx>>
      BY <1>9, LockedAssumption DEF Return, Versions
    <2>2. StoredFound' /\ Held'
      BY <1>9, LockedAssumption DEF Return
    <2>3. TypeOK'
      BY <1>9, <2>1
    <2>4. QED
      BY <2>2, <2>3
  <1>10. ASSUME NEW c \in Callers, Deliver(c) PROVE Goal
    <2>1. [kind |-> "ok", data |-> found[key[c]]] \in Replies
      BY <1>10 DEF Deliver, Replies, Versions
    <2>2. QED
      BY <1>9, <1>10, <2>1 DEF Deliver
  <1>11. ASSUME NEW c \in Callers, Reject(c) PROVE Goal
    BY <1>9, <1>11, FailureType DEF Reject
  <1>12. ASSUME NEW c \in Callers, FetchFail(c) PROVE Goal
    <2>1. PICK e \in {"failed", "ctx"} : Return(c, Failure(e))
      BY <1>12 DEF FetchFail
    <2>2. QED
      BY <1>9, <1>12, <2>1, FailureType DEF FetchFail
  <1>13. CASE UNCHANGED vars
    BY <1>13 DEF vars
  <1>14. QED
    BY <1>1, <1>2, <1>3, <1>4, <1>5, <1>6, <1>7, <1>8, <1>10, <1>11, <1>12, <1>13
       DEF Next

\* The cache, the mutex and the calls keep their types.
THEOREM TypeCorrect == Spec => []TypeOK
  BY InitType, NextType, PTL DEF Spec

-----------------------------------------------------------------------------
(* What the mutex protects *)

\* The holder of the mutex compared with the cache. Only it stores, so its
\* answer is no older than what is cached.
HolderData ==
    /\ \A k \in Keys : data[k] <= published /\ found[k] <= published
    /\ \A k \in Keys : holder[k] = NoCaller => found[k] = 0
    /\ \A c \in Callers :
          /\ snap[c] <= data[key[c]]
          /\ pc[c] = "fetch" => ~Hit(key[c])
          /\ pc[c] = "fetch" /\ found[key[c]] # 0 => data[key[c]] <= found[key[c]]
          /\ pc[c] = "stored" => data[key[c]] = found[key[c]]

Typed == TypeOK /\ StoredFound /\ Held

LEMMA InitHolder == Init => HolderData
  BY DEF Init, HolderData

LEMMA NextHolder ==
  Typed /\ HolderData /\ [Next]_vars
     => HolderData' /\ \A k \in Keys : data[k] <= data'[k]
  <1> SUFFICES ASSUME Typed, HolderData, [Next]_vars
               PROVE  HolderData' /\ \A k \in Keys : data[k] <= data'[k]
    OBVIOUS
  <1> DEFINE Goal == HolderData' /\ \A k \in Keys : data[k] <= data'[k]
  <1> USE DEF TypeOK, StoredFound, Held, Typed, HolderData, Versions, Hit, cache, mutex
  <1>1. CASE Publish
    BY <1>1, LockedAssumption DEF Publish
  <1>2. ASSUME NEW k \in Keys, Expire(k) PROVE Goal
    BY <1>2 DEF Expire
  <1>3. ASSUME NEW c \in Callers, CtxDone(c) \/ LockHit(c) PROVE Goal
    BY <1>3 DEF CtxDone, LockHit
  <1>4. ASSUME NEW c \in Callers, Call(c) PROVE Goal
    BY <1>4 DEF Call
  <1>5. ASSUME NEW c \in Callers, LockMiss(c) PROVE Goal
    BY <1>5, LockedAssumption DEF LockMiss
  <1>6. ASSUME NEW c \in Callers, Answer(c) PROVE Goal
    BY <1>6, LockedAssumption DEF Answer
  <1>7. ASSUME NEW c \in Callers, Store(c) PROVE Goal
    <2>1. /\ data' = [data EXCEPT ![key[c]] = found[key[c]]]
          /\ data[key[c]] <= found[key[c]] /\ found[key[c]] # 0
          /\ pc' = [pc EXCEPT ![c] = "stored"] /\ holder[key[c]] = c
          /\ UNCHANGED <<published, holder, found, snap, key>>
      BY <1>7 DEF Store
    <2>2. \A l \in Keys : data[l] \in Nat /\ data'[l] \in Nat /\ data[l] <= data'[l]
      BY <2>1
    <2>3. \A d \in Callers : pc'[d] = "fetch" => key[d] # key[c]
      BY <2>1
    <2>4. /\ \A k \in Keys : data'[k] <= published' /\ found'[k] <= published'
          /\ \A k \in Keys : holder'[k] = NoCaller => found'[k] = 0
      BY <2>1, <2>2
    <2>5. ASSUME NEW d \in Callers
          PROVE  /\ snap'[d] <= data'[key'[d]]
                 /\ pc'[d] = "fetch" => ~Hit(key[d])'
                 /\ pc'[d] = "fetch" /\ found'[key'[d]] # 0 => data'[key'[d]] <= found'[key'[d]]
                 /\ pc'[d] = "stored" => data'[key'[d]] = found'[key'[d]]
      <3>1. snap'[d] <= data'[key'[d]]
        BY <2>1, <2>2
      <3>2. CASE d = c
        BY <2>1, <3>1, <3>2
      <3>3. CASE d # c /\ key[d] = key[c]
        BY <2>1, <3>1, <3>3
      <3>4. CASE key[d] # key[c]
        <4>1. data'[key[d]] = data[key[d]] /\ fresh'[key[d]] = fresh[key[d]] /\ pc'[d] = pc[d]
          BY <1>7, <3>4 DEF Store
        <4>2. QED
          BY <2>1, <3>1, <4>1
      <3>5. QED
        BY <3>2, <3>3, <3>4
    <2>6. QED
      BY <2>2, <2>4, <2>5
  <1>8. ASSUME NEW c \in Callers, NEW r, pc[c] \in {"fetch", "stored"},
               Return(c, r), UNCHANGED cache
        PROVE  Goal
    BY <1>8, LockedAssumption DEF Return
  <1>9. ASSUME NEW c \in Callers, Deliver(c) PROVE Goal
    BY <1>8, <1>9 DEF Deliver
  <1>10. ASSUME NEW c \in Callers, Reject(c) PROVE Goal
    BY <1>8, <1>10 DEF Reject
  <1>11. ASSUME NEW c \in Callers, FetchFail(c) PROVE Goal
    BY <1>8, <1>11 DEF FetchFail
  <1>12. CASE UNCHANGED vars
    BY <1>12 DEF vars
  <1>13. QED
    BY <1>1, <1>2, <1>3, <1>4, <1>5, <1>6, <1>7, <1>9, <1>10, <1>11, <1>12 DEF Next

\* No caller fetches a catalog that the cache could have answered.
THEOREM FetchesOnlyStale == Spec => []NoFetchWhileFresh
  <1>1. HolderData => NoFetchWhileFresh
    BY DEF HolderData, NoFetchWhileFresh
  <1>2. QED
    BY <1>1, InitType, NextType, InitHolder, NextHolder, PTL DEF Spec, Typed

\* The cached version never goes back: no failure, rejection or cancellation
\* puts an older list in its place.
THEOREM CacheNeverRegresses == Spec => CacheMonotone
  BY InitType, NextType, InitHolder, NextHolder, PTL DEF Spec, Typed, CacheMonotone
-----------------------------------------------------------------------------
(* Replies and refinement *)

\* Every reply is one the promise allows; a call has one exactly when it ended.
RepliesFit ==
    \A c \in Callers :
        /\ reply[c].kind = "ok" => snap[c] <= reply[c].data /\ reply[c].data <= data[key[c]]
        /\ reply[c].kind = "ctx" => ctx[c]
        /\ pc[c] = "done" <=> reply[c].kind # "none"

\* servers has cached no page without listings.
NoneRefused == data["servers"] \notin Empty

LockInv == Typed /\ HolderData /\ RepliesFit /\ NoneRefused

LEMMA NextRefused == TypeOK /\ NoneRefused /\ [Next]_vars => NoneRefused'
  <1> SUFFICES ASSUME TypeOK, NoneRefused, [Next]_vars PROVE NoneRefused'
    OBVIOUS
  <1>1. ASSUME NEW c \in Callers, Store(c) PROVE NoneRefused'
    <2>1. "servers" \in Keys /\ data' = [data EXCEPT ![key[c]] = found[key[c]]]
      BY <1>1 DEF Store, Keys
    <2>2. key[c] = "servers" => found[key[c]] \notin Empty
      BY <1>1 DEF Store, Acceptable
    <2>3. QED
      BY <2>1, <2>2 DEF NoneRefused, TypeOK
  <1>2. CASE data' = data
    BY <1>2 DEF NoneRefused
  <1>3. QED
    BY <1>1, <1>2 DEF Next, Publish, Expire, CtxDone, Call, LockHit, LockMiss, Answer,
                      Deliver, Reject, FetchFail, cache, vars

LEMMA InitKeeps == Init => RepliesFit /\ NoneRefused /\ Promise!Init
  <1> SUFFICES ASSUME Init PROVE RepliesFit /\ NoneRefused /\ Promise!Init
    OBVIOUS
  <1> DEFINE asked == [c \in Callers |-> [key |-> key[c], floor |-> snap[c]]]
  <1>1. Failure("failed").kind = "failed"
    BY DEF Failure
  <1>2. \A c \in Callers : reply[c].kind = "failed" /\ pc[c] = "done"
    BY <1>1 DEF Init
  <1>3. RepliesFit
    BY <1>2 DEF RepliesFit
  <1>4. asked \in [Callers -> {[key |-> k, floor |-> 0] : k \in Keys}]
    BY DEF Init
  <1>5. reply = [c \in Callers |-> Promise!Rest]
    BY DEF Init, Failure, Promise!Rest
  <1>6. NoneRefused
    BY LockedAssumption DEF Init, NoneRefused, Keys
  <1>7. QED
    BY <1>3, <1>4, <1>5, <1>6 DEF Init, Promise!Init

\* A caller that returns r, which fits its call, replies as the promise allows.
LEMMA ReturnKeeps ==
  ASSUME LockInv, NEW c \in Callers, NEW r \in Replies, r.kind # "none", pc[c] # "done",
         reply' = [reply EXCEPT ![c] = r], pc' = [pc EXCEPT ![c] = "done"],
         UNCHANGED <<published, data, key, snap, ctx>>,
         r.kind = "ok" => /\ snap[c] <= r.data /\ r.data <= data[key[c]]
                          /\ key[c] = "servers" => r.data \notin Empty,
         r.kind = "ctx" => ctx[c]
  PROVE  RepliesFit' /\ [Promise!Next]_Promise!promise
  <1> DEFINE asked == [d \in Callers |-> [key |-> key[d], floor |-> snap[d]]]
  <1> HIDE DEF asked
  <1>1. RepliesFit'
    BY DEF LockInv, Typed, TypeOK, RepliesFit
  <1>2. r = [kind |-> r.kind, data |-> r.data] /\ r.data \in Nat
        /\ r.kind \in {"ok", "failed", "ctx"} /\ (r.kind # "ok" => r.data = 0)
    BY DEF Replies
  <1>3. r.data \in 0 .. published
    <2>1. data[key[c]] \in Nat /\ published \in Nat /\ data[key[c]] <= published
      BY DEF LockInv, Typed, TypeOK, HolderData, Versions
    <2>2. QED
      BY <1>2, <2>1
  <1>4. asked[c].floor = snap[c] /\ asked[c].key = key[c] /\ asked' = asked
    BY DEF asked
  <1>5. Promise!Fitting(c, [kind |-> r.kind, data |-> r.data])
    BY <1>2, <1>4 DEF Promise!Fitting, asked
  <1>6. reply[c].kind = "none"
    BY DEF LockInv, RepliesFit
  <1>7. reply' = [reply EXCEPT ![c] = [kind |-> r.kind, data |-> r.data]]
    BY <1>2
  <1>8. Promise!Reply(c)
    BY <1>2, <1>3, <1>4, <1>5, <1>6, <1>7 DEF Promise!Reply, Promise!Kinds, asked
  <1>9. QED
    BY <1>1, <1>8 DEF Promise!Next

LEMMA NextKeeps ==
  LockInv /\ [Next]_vars => RepliesFit' /\ [Promise!Next]_Promise!promise
  <1> SUFFICES ASSUME LockInv, [Next]_vars
               PROVE  RepliesFit' /\ [Promise!Next]_Promise!promise
    OBVIOUS
  <1> DEFINE Goal == RepliesFit' /\ [Promise!Next]_Promise!promise
             asked == [c \in Callers |-> [key |-> key[c], floor |-> snap[c]]]
  <1> USE DEF cache, mutex, Promise!promise
  <1> HIDE DEF asked
  <1>1. TypeOK /\ RepliesFit
    BY DEF LockInv, Typed
  <1>2. \A k \in Keys : data[k] \in Nat /\ data[k] <= published
    BY DEF LockInv, Typed, TypeOK, HolderData, Versions
  <1>3. \A c \in Callers : key[c] \in Keys /\ reply[c].data \in Nat /\ snap[c] \in Nat
    BY <1>1 DEF TypeOK, Replies, Versions
  <1>4. CASE Publish
    <2>1. RepliesFit'
      BY <1>1, <1>4 DEF Publish, RepliesFit
    <2>2. QED
      BY <1>4, <2>1 DEF Publish, Promise!Next, Promise!Publish, asked
  <1>5. ASSUME NEW k \in Keys, Expire(k) PROVE Goal
    BY <1>1, <1>5 DEF Expire, RepliesFit, asked
  <1>6. ASSUME NEW c \in Callers, CtxDone(c) PROVE Goal
    <2>1. reply[c].kind = "none" /\ ctx' = [ctx EXCEPT ![c] = TRUE]
          /\ UNCHANGED <<published, data, asked, reply, pc, key, snap>>
      BY <1>1, <1>6 DEF CtxDone, RepliesFit, asked
    <2>2. RepliesFit'
      BY <1>1, <2>1 DEF RepliesFit, TypeOK
    <2>3. Promise!Leave(c)
      BY <2>1 DEF Promise!Leave, asked
    <2>4. QED
      BY <2>2, <2>3 DEF Promise!Next
  <1>7. ASSUME NEW c \in Callers, Call(c) PROVE Goal
    <2> PICK k \in Keys : k = key[c]
      BY <1>3
    <2>1. reply[c].kind # "none"
      BY <1>1, <1>7 DEF Call, RepliesFit
    <2>2. NoReply.kind = "none"
      BY DEF NoReply
    <2>3. RepliesFit'
      BY <1>1, <1>7, <2>2 DEF Call, RepliesFit, TypeOK
    <2>4. asked' = [asked EXCEPT ![c] = [key |-> k, floor |-> data[k]]]
      BY <1>1, <1>7 DEF Call, asked, TypeOK
    <2>5. Promise!Ask(c, k)
      BY <1>7, <2>1, <2>4 DEF Call, Promise!Ask, Promise!NoAnswer, NoReply, asked
    <2>6. QED
      BY <2>3, <2>5 DEF Promise!Next
  <1>8. ASSUME NEW c \in Callers, LockHit(c) PROVE Goal
    <2> DEFINE r == [kind |-> "ok", data |-> data[key[c]]]
    <2>1. r \in Replies /\ r.kind = "ok" /\ r.data = data[key[c]] /\ snap[c] <= data[key[c]]
      BY <1>1, <1>8 DEF LockHit, Hit, Replies, TypeOK, Versions, LockInv, HolderData
    <2>2. /\ pc[c] # "done" /\ reply' = [reply EXCEPT ![c] = r]
          /\ pc' = [pc EXCEPT ![c] = "done"]
          /\ UNCHANGED <<published, data, key, snap, ctx>>
      BY <1>8 DEF LockHit
    <2>3. /\ snap[c] <= r.data /\ r.data <= data[key[c]]
          /\ key[c] = "servers" => r.data \notin Empty
      BY <1>2, <1>3, <2>1 DEF LockInv, NoneRefused
    <2> HIDE DEF r
    <2>4. QED
      BY <2>1, <2>2, <2>3, ReturnKeeps
  <1>9. ASSUME NEW c \in Callers, LockMiss(c) \/ Answer(c) PROVE Goal
    <2>1. UNCHANGED <<published, data, key, snap, ctx, reply, asked>>
      BY <1>9 DEF LockMiss, Answer, asked
    <2>2. \A d \in Callers : pc'[d] = "done" <=> pc[d] = "done"
      BY <1>1, <1>9 DEF LockMiss, Answer, TypeOK
    <2>3. QED
      BY <1>1, <2>1, <2>2 DEF RepliesFit, asked
  <1>10. ASSUME NEW c \in Callers, Store(c) PROVE Goal
    <2> PICK k \in Keys : k = key[c]
      BY <1>3
    <2>1. /\ data' = [data EXCEPT ![k] = found[k]]
          /\ pc' = [pc EXCEPT ![c] = "stored"] /\ pc[c] = "fetch"
          /\ UNCHANGED <<published, key, snap, ctx, reply, asked>>
      BY <1>10 DEF Store, asked
    <2>2. found[k] \in data[k] .. published
      BY <1>1, <1>2, <1>10 DEF Store, LockInv, HolderData, TypeOK, Versions
    <2>3. \A l \in Keys : data'[l] \in Nat /\ data[l] <= data'[l]
      BY <1>1, <1>2, <2>1, <2>2 DEF TypeOK
    <2>4. \A d \in Callers : pc'[d] = "done" <=> pc[d] = "done"
      BY <1>1, <2>1 DEF TypeOK
    <2>5. RepliesFit'
      BY <1>1, <1>2, <1>3, <2>1, <2>3, <2>4 DEF RepliesFit
    <2>6. <<k, found[k]>> \notin {"servers"} \X Empty
      BY <1>10 DEF Store, Acceptable
    <2>7. Promise!Hold(k)
      BY <2>1, <2>2, <2>6 DEF Promise!Hold, asked
    <2>8. QED
      BY <2>5, <2>7 DEF Promise!Next
  <1>11. ASSUME NEW c \in Callers, Deliver(c) PROVE Goal
    <2> DEFINE r == [kind |-> "ok", data |-> found[key[c]]]
    <2>1. r \in Replies
      BY <1>1, <1>11 DEF Deliver, Replies, TypeOK, Versions, LockInv, Typed, StoredFound
    <2>2. r.kind = "ok" /\ r.data = data[key[c]] /\ snap[c] <= data[key[c]]
      BY <1>11 DEF Deliver, LockInv, HolderData
    <2>3. /\ pc[c] # "done" /\ reply' = [reply EXCEPT ![c] = r]
          /\ pc' = [pc EXCEPT ![c] = "done"]
          /\ UNCHANGED <<published, data, key, snap, ctx>>
      BY <1>11 DEF Deliver, Return
    <2>4. /\ snap[c] <= r.data /\ r.data <= data[key[c]]
          /\ key[c] = "servers" => r.data \notin Empty
      BY <1>2, <1>3, <2>2 DEF LockInv, NoneRefused
    <2> HIDE DEF r
    <2>5. QED
      BY <2>1, <2>2, <2>3, <2>4, ReturnKeeps
  <1>12. ASSUME NEW c \in Callers, Reject(c) \/ FetchFail(c) PROVE Goal
    <2>1. PICK e \in {"failed", "ctx"} : Return(c, Failure(e)) /\ (e = "ctx" => ctx[c])
      BY <1>12 DEF Reject, FetchFail
    <2> DEFINE r == Failure(e)
    <2>2. r \in Replies /\ r.kind = e
      BY FailureType DEF Failure
    <2>3. /\ pc[c] # "done" /\ reply' = [reply EXCEPT ![c] = r]
          /\ pc' = [pc EXCEPT ![c] = "done"]
          /\ UNCHANGED <<published, data, key, snap, ctx>>
      BY <1>12, <2>1 DEF Reject, FetchFail, Return
    <2> HIDE DEF r
    <2>4. QED
      BY <2>1, <2>2, <2>3, ReturnKeeps
  <1>13. CASE UNCHANGED vars
    BY <1>1, <1>13 DEF vars, RepliesFit, asked
  <1>14. QED
    BY <1>4, <1>5, <1>6, <1>7, <1>8, <1>9, <1>10, <1>11, <1>12, <1>13 DEF Next

\* The two catalogs behind a mutex keep the same promise as the shared one, and
\* that of servers neither caches nor returns a page without listings.
THEOREM CatalogsKeepPromise == Spec => KeepsPromise
  BY InitType, NextType, InitHolder, NextHolder, InitKeeps, NextRefused, NextKeeps, PTL
     DEF Spec, Typed, LockInv, KeepsPromise, Promise!Spec
=============================================================================
