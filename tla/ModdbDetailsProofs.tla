------------------------- MODULE ModdbDetailsProofs -------------------------
(***************************************************************************)
(* Theorems about ModdbDetails, for every directory of mods, any number of *)
(* versions of it and any set of callers and names they ask for.           *)
(***************************************************************************)
EXTENDS ModdbDetails, TLAPS

-----------------------------------------------------------------------------
(* Types *)

LEMMA NoneType == None \notin Entries /\ None = [mod |-> NoMod, version |-> 0]
  BY DEF None, Entries, Versions

LEMMA NoReplyTypes ==
  /\ NoReply \in Replies
  /\ Outcome("not_found", None) \in Replies
  /\ Outcome("failed", None) \in Replies
  /\ Outcome("ctx", None) \in Replies
  BY DEF NoReply, Outcome, Replies

\* What a flight or a cache entry holds is an answer that carried the names it
\* is or will be cached under. Every step keeps this on its own, which is why
\* the names can be shared by flights that know nothing of each other.
Holds ==
    /\ \A n \in Names : details[n] # None => Carries(details[n], n)
    /\ \A n \in Names : found[n] # None => Carries(found[n], n)
    /\ \A n \in Names : phase[n] \in {"answered", "stored"} => found[n] # None

\* A reply is about a mod that was called what the caller asked for, and a
\* context error is the caller's own.
RepliesFit ==
    \A c \in Callers :
        /\ reply[c].kind = "ok" => Carries(reply[c].entry, name[c])
        /\ reply[c].kind = "ctx" => ctx[c]

\* A call under way asks for a name, not for the blank one.
Named == \A c \in Callers : pc[c] # "done" => name[c] \in Names

DetailsInv == TypeOK /\ Named /\ NoLostWaiter /\ Holds /\ RepliesFit

LEMMA ResultFits ==
  ASSUME TypeOK, Holds, NEW n \in Names, phase[n] \in {"stored", "absent", "failed"}
  PROVE  /\ Result(n) \in Replies
         /\ Result(n).kind = "ok" => Carries(Result(n).entry, n)
         /\ Result(n).kind # "ctx"
  <1>1. CASE phase[n] = "stored"
    <2>1. found[n] \in Entries /\ Carries(found[n], n)
      BY <1>1 DEF TypeOK, Holds
    <2>2. Result(n) = [kind |-> "ok", entry |-> found[n]]
      BY <1>1 DEF Result, Outcome
    <2>3. QED
      BY <2>1, <2>2 DEF Replies
  <1>2. CASE phase[n] = "absent"
    BY <1>2, NoReplyTypes DEF Result, Outcome
  <1>3. CASE phase[n] = "failed"
    BY <1>3, NoReplyTypes DEF Result, Outcome
  <1>4. QED
    BY <1>1, <1>2, <1>3

LEMMA ResolvedType ==
  \A n \in Names : \A e \in Resolved(n) : e \in Entries /\ Carries(e, n)
  BY DEF Resolved

LEMMA KeysCarry ==
  ASSUME NEW n \in Names, NEW e \in Entries, Carries(e, n)
  PROVE  \A m \in Names \cap Keys(n, e) : Carries(e, m)
  BY DEF Keys, Carries

LEMMA InitInv == Init => DetailsInv
  <1> SUFFICES ASSUME Init PROVE DetailsInv
    OBVIOUS
  <1>1. TypeOK
    BY NoReplyTypes, DetailsAssumption DEF Init, TypeOK, Versions, Phases
  <1>2. Named /\ NoLostWaiter /\ Holds
    BY DEF Init, Named, NoLostWaiter, Holds
  <1>3. RepliesFit
    <2> SUFFICES ASSUME NEW c \in Callers PROVE reply[c].kind = "not_found"
      BY DEF RepliesFit
    <2>1. reply[c] = [kind |-> "not_found", entry |-> None]
      BY DEF Init, Outcome
    <2>2. QED
      BY <2>1
  <1>4. QED
    BY <1>1, <1>2, <1>3 DEF DetailsInv

-----------------------------------------------------------------------------
(* Steps *)

LEMMA EnvironmentInv ==
  ASSUME DetailsInv,
         \/ Publish
         \/ \E n \in Names : Expire(n)
         \/ \E c \in Callers : CtxDone(c)
  PROVE  DetailsInv'
  <1> USE DEF DetailsInv, TypeOK, Named, NoLostWaiter, Holds, RepliesFit, flight, calls
  <1>1. CASE Publish
    <2>1. published' \in Versions
      BY <1>1, DetailsAssumption DEF Publish, Versions
    <2>2. QED
      BY <1>1, <2>1 DEF Publish
  <1>2. ASSUME NEW n \in Names, Expire(n) PROVE DetailsInv'
    BY <1>2 DEF Expire
  <1>3. ASSUME NEW c \in Callers, CtxDone(c) PROVE DetailsInv'
    BY <1>3 DEF CtxDone
  <1>4. QED
    BY <1>1, <1>2, <1>3

LEMMA LookupInv ==
  ASSUME DetailsInv, NEW c \in Callers, NEW n \in Asked, Lookup(c, n)
  PROVE  DetailsInv'
  <1> USE DEF DetailsInv, TypeOK, Named, flight, calls
  <1>1. n \in Names \cup {Blank}
    BY DetailsAssumption
  <1>2. UNCHANGED <<published, details, flight>> /\ pc[c] = "done"
        /\ name' = [name EXCEPT ![c] = n] /\ ctx' = [ctx EXCEPT ![c] = FALSE]
    BY DEF Lookup
  <1>3. /\ pc' \in [Callers -> {"missed", "waiting", "delivered", "done"}]
        /\ \A d \in Callers : d # c => pc'[d] = pc[d]
        /\ pc'[c] = "missed" \/ pc'[c] = "done"
        /\ pc'[c] = "missed" => n \in Names
    BY DEF Lookup
  <1>4. PICK r \in Replies : /\ reply' = [reply EXCEPT ![c] = r]
                             /\ r.kind = "ok" => Carries(r.entry, n)
                             /\ r.kind # "ctx"
    <2>1. CASE n \in Names /\ details[n] # None
      <3>1. details[n] \in Entries /\ Carries(details[n], n)
        BY <2>1 DEF Holds
      <3>2. Outcome("ok", details[n]) \in Replies
        BY <3>1 DEF Outcome, Replies
      <3>3. n # Blank
        BY <2>1, DetailsAssumption
      <3>4. reply' = [reply EXCEPT ![c] = Outcome("ok", details[n])]
        BY <2>1, <3>3 DEF Lookup
      <3>5. QED
        BY <3>1, <3>2, <3>4 DEF Outcome
    <2>2. CASE n = Blank
      <3>1. n \notin Names
        BY <2>2, DetailsAssumption
      <3>2. reply' = [reply EXCEPT ![c] = Outcome("not_found", None)]
        BY <2>2, <3>1 DEF Lookup
      <3>3. QED
        BY <3>2, NoReplyTypes DEF Outcome
    <2>3. CASE n \in Names /\ details[n] = None
      <3>1. n # Blank
        BY <2>3, DetailsAssumption
      <3>2. reply' = [reply EXCEPT ![c] = NoReply]
        BY <2>3, <3>1 DEF Lookup
      <3>3. QED
        BY <3>2, NoReplyTypes DEF NoReply, Outcome
    <2>4. QED
      BY <1>1, <2>1, <2>2, <2>3
  <1>5. TypeOK'
    BY <1>1, <1>2, <1>3, <1>4
  <1>6. Named'
    BY <1>2, <1>3
  <1>7. NoLostWaiter'
    BY <1>2, <1>3 DEF NoLostWaiter
  <1>8. Holds'
    BY <1>2 DEF Holds
  <1>9. RepliesFit'
    BY <1>2, <1>4 DEF RepliesFit
  <1>10. QED
    BY <1>5, <1>6, <1>7, <1>8, <1>9

LEMMA CallInv ==
  ASSUME DetailsInv, NEW c \in Callers, Join(c) \/ Receive(c) \/ GiveUp(c)
  PROVE  DetailsInv'
  <1> USE DEF DetailsInv, TypeOK, Named, flight, calls
  <1>1. CASE Join(c)
    <2>1. name[c] \in Names
      BY <1>1 DEF Join
    <2>2. TypeOK' /\ Named'
      BY <1>1, <2>1 DEF Join, Phases
    <2>3. NoLostWaiter'
      BY <1>1, <2>1 DEF Join, NoLostWaiter
    <2>4. Holds' /\ RepliesFit'
      BY <1>1, <2>1 DEF Join, Holds, RepliesFit
    <2>5. QED
      BY <2>2, <2>3, <2>4
  <1>2. CASE Receive(c)
    BY <1>2 DEF Receive, NoLostWaiter, Holds, RepliesFit
  <1>3. CASE GiveUp(c)
    <2>1. name[c] \in Names
      BY <1>3 DEF GiveUp
    <2>2. TypeOK' /\ Named'
      BY <1>3, <2>1, NoReplyTypes DEF GiveUp
    <2>3. NoLostWaiter'
      BY <1>3, <2>1 DEF GiveUp, NoLostWaiter
    <2>4. Holds' /\ RepliesFit'
      BY <1>3, <2>1 DEF GiveUp, Holds, RepliesFit, Outcome
    <2>5. QED
      BY <2>2, <2>3, <2>4
  <1>4. QED
    BY <1>1, <1>2, <1>3

LEMMA FlightInv ==
  ASSUME DetailsInv, NEW n \in Names,
         Answer(n) \/ Refuse(n) \/ Fail(n) \/ Store(n) \/ End(n)
  PROVE  DetailsInv'
  <1> USE DEF DetailsInv, TypeOK, Named, flight, calls
  <1>1. CASE Answer(n)
    <2>1. PICK e \in Resolved(n) : found' = [found EXCEPT ![n] = e]
      BY <1>1 DEF Answer
    <2>2. e \in Entries /\ Carries(e, n)
      BY ResolvedType
    <2>3. TypeOK' /\ Named' /\ NoLostWaiter' /\ RepliesFit'
      BY <1>1, <2>1, <2>2 DEF Answer, NoLostWaiter, RepliesFit, Phases
    <2>4. Holds'
      BY <1>1, <2>1, <2>2, NoneType DEF Answer, Holds
    <2>5. QED
      BY <2>3, <2>4
  <1>2. CASE Refuse(n) \/ Fail(n)
    BY <1>2 DEF Refuse, Fail, NoLostWaiter, Holds, RepliesFit, Phases
  <1>3. CASE Store(n)
    <2>1. found[n] \in Entries /\ Carries(found[n], n)
      BY <1>3 DEF Store, Holds
    <2>2. details' = [m \in Names |-> IF m \in Keys(n, found[n]) THEN found[n]
                                      ELSE details[m]]
      BY <1>3 DEF Store
    <2>3. \A m \in Names : m \in Keys(n, found[n]) => Carries(found[n], m)
      BY <2>1, KeysCarry
    <2>4. TypeOK' /\ Named' /\ NoLostWaiter' /\ RepliesFit'
      BY <1>3, <2>1, <2>2 DEF Store, NoLostWaiter, RepliesFit, Phases
    <2>5. Holds'
      BY <1>3, <2>1, <2>2, <2>3 DEF Store, Holds
    <2>6. QED
      BY <2>4, <2>5
  <1>4. CASE End(n)
    <2>1. /\ Result(n) \in Replies
          /\ Result(n).kind = "ok" => Carries(Result(n).entry, n)
          /\ Result(n).kind # "ctx"
      BY <1>4, ResultFits DEF End
    <2>2. \A c \in waiters[n] : c \in Callers /\ name[c] = n
      BY DEF NoLostWaiter
    <2>3. TypeOK' /\ Named'
      BY <1>4, <2>1 DEF End, NoLostWaiter, Phases
    <2>4. NoLostWaiter'
      BY <1>4 DEF End, NoLostWaiter
    <2>5. Holds'
      BY <1>4 DEF End, Holds
    <2>6. RepliesFit'
      BY <1>4, <2>1, <2>2 DEF End, RepliesFit
    <2>7. QED
      BY <2>3, <2>4, <2>5, <2>6
  <1>5. QED
    BY <1>1, <1>2, <1>3, <1>4

LEMMA NextInv == DetailsInv /\ [Next]_vars => DetailsInv'
  <1> SUFFICES ASSUME DetailsInv, [Next]_vars PROVE DetailsInv'
    OBVIOUS
  <1>1. CASE UNCHANGED vars
    BY <1>1 DEF vars, flight, calls, DetailsInv, TypeOK, Named, NoLostWaiter, Holds,
               RepliesFit
  <1>2. CASE Next
    BY <1>2, EnvironmentInv, LookupInv, CallInv, FlightInv DEF Next
  <1>3. QED
    BY <1>1, <1>2

LEMMA Invariant == Spec => []DetailsInv
  BY InitInv, NextInv, PTL DEF Spec

-----------------------------------------------------------------------------
(* Theorems *)

\* The details cache, the flights and the calls keep their types.
THEOREM TypeCorrect == Spec => []TypeOK
  <1>1. DetailsInv => TypeOK
    BY DEF DetailsInv
  <1>2. QED
    BY <1>1, Invariant, PTL

\* Get never answers a name with a mod that was not called so: through every
\* renaming, under every order of requests that share cache entries.
THEOREM NameKeepsItsMod == Spec => []RightMod
  <1>1. DetailsInv => RightMod
    BY DEF DetailsInv, Holds, RepliesFit, RightMod
  <1>2. QED
    BY <1>1, Invariant, PTL

\* A waiting call is registered with the running flight of the name it asked
\* for and with no other, whoever joins, leaves or fails.
THEOREM NoWaiterLost == Spec => []NoLostWaiter
  <1>1. DetailsInv => NoLostWaiter
    BY DEF DetailsInv
  <1>2. QED
    BY <1>1, Invariant, PTL

\* A context error goes only to a caller whose own context is done.
THEOREM CancelsIsolated == Spec => []CancelIsolated
  <1>1. DetailsInv => CancelIsolated
    BY DEF DetailsInv, RepliesFit, CancelIsolated
  <1>2. QED
    BY <1>1, Invariant, PTL
=============================================================================
