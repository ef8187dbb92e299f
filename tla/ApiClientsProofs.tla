-------------------------- MODULE ApiClientsProofs --------------------------
(***************************************************************************)
(* Theorems about HttpDo, for every width of Duration, every retry policy, *)
(* every set of statuses, headers and transport failures; and about        *)
(* ApiClients, for every policy and every upstream. Those rest on the      *)
(* inductive invariant of HttpDo, which the steps of Do keep by the lemmas *)
(* of the first part and a second run of Do starts again.                  *)
(***************************************************************************)
EXTENDS ApiClients, TLAPS

-----------------------------------------------------------------------------
(* The operators of Vshttp *)

LEMMA WrapType == \A x \in Int : Wrap(x) \in Int
  BY DurationAssumption DEF Wrap

\* What normalize returns is a policy Do can run with, whatever the caller
\* configured.
LEMMA NormalizeNormal ==
  ASSUME NEW p \in Policies
  PROVE  Normal(normalize(p, DefaultPolicy))
  BY PolicyAssumption DEF Normal, normalize, OrDefault

LEMMA StatusErrorType ==
  ASSUME NEW status \in Nat, NEW header, header.n \in Int
  PROVE  statusError(status, header) \in APIErrors
  <1>1. StatusKind(status) \in Kinds
    BY DEF StatusKind, Kinds
  <1>2. parseRetryAfter(header) \in Int
    <2>1. header.n * Second \in Int
      BY DurationAssumption
    <2>2. Wrap(header.n * Second) \in Int
      BY <2>1, WrapType
    <2>3. QED
      BY <2>2 DEF parseRetryAfter
  <1>3. QED
    BY <1>1, <1>2 DEF statusError, APIError, APIErrors, Causes

LEMMA TransportErrorType ==
  ASSUME NEW chain
  PROVE  transportError(chain) \in APIErrors
  BY DEF transportError, APIError, APIErrors, classify, CauseOf, Kinds, Causes

LEMMA BodyErrorTypes ==
  ASSUME NEW status \in Nat
  PROVE  /\ \A cause \in Causes : bodyReadError(status, cause) \in APIErrors
         /\ bodyTooLarge(status) \in APIErrors
         /\ \A body \in BodyShapes : decodeError(status, body) \in APIErrors
  BY DEF bodyReadError, bodyTooLarge, decodeError, APIError, APIErrors, Kinds, Causes

\* A pause is at least one unit, and no pause is longer than PauseCap.
LEMMA BackoffBounds ==
  ASSUME NEW p, Normal(p), NEW n \in Nat, NEW hint \in Int,
         NEW d \in backoff(p, n, hint)
  PROVE  d \in Nat \ {0} /\ d <= PauseCap(p)
  <1>1. 2 ^ n \in Int
    OBVIOUS
  <1>2. Capped(p, n) \in Int /\ Capped(p, n) <= p.MaxDelay
    BY <1>1, WrapType DEF Capped, Shifted, Normal
  <1>3. PICK j \in 0 .. Capped(p, n) \div 2 - 1 :
           d = IF hint <= 0 THEN Capped(p, n) - Capped(p, n) \div 4 + j
               ELSE IF hint < p.MaxWait THEN hint ELSE p.MaxWait
    BY DEF backoff
  <1>4. CASE hint <= 0
    BY <1>2, <1>3, <1>4 DEF PauseCap, Normal
  <1>5. CASE hint > 0
    BY <1>2, <1>3, <1>5 DEF PauseCap, Normal
  <1>6. QED
    BY <1>4, <1>5

\* The retry panics on a delay below two units and on no other.
LEMMA BackoffPanics ==
  ASSUME NEW p, Normal(p), NEW n \in Nat, NEW hint \in Int
  PROVE  backoff(p, n, hint) = {} <=> Capped(p, n) < 2
  <1>1. 2 ^ n \in Int
    OBVIOUS
  <1>2. Capped(p, n) \in Int
    BY <1>1, WrapType DEF Capped, Shifted, Normal
  <1>3. CASE Capped(p, n) < 2
    <2>1. 0 .. Capped(p, n) \div 2 - 1 = {}
      BY <1>2, <1>3
    <2>2. QED
      BY <1>3, <2>1 DEF backoff
  <1>4. CASE Capped(p, n) >= 2
    <2>1. 0 \in 0 .. Capped(p, n) \div 2 - 1
      BY <1>2, <1>4
    <2>2. \E j \in 0 .. Capped(p, n) \div 2 - 1 : TRUE
      BY <2>1
    <2>3. PICK d : d \in backoff(p, n, hint)
      BY <2>1 DEF backoff
    <2>4. QED
      BY <1>2, <1>4, <2>3
  <1>5. QED
    BY <1>2, <1>3, <1>4

-----------------------------------------------------------------------------
(* Type correctness *)

LEMMA AttemptsType == TypeOK => Attempts \in Nat \ {0}
  BY DEF TypeOK, Attempts, Normal

LEMMA InitType == Init => TypeOK
  <1> SUFFICES ASSUME Init PROVE TypeOK
    OBVIOUS
  <1>1. Normal(policy)
    BY NormalizeNormal DEF Init
  <1>2. resp \in [status : Nat, header : RetryAfters \cup {NoResponse.header}]
    BY DEF Init, NoResponse
  <1>3. err \in APIErrors
    BY DEF Init, NoError, APIError, APIErrors, Causes
  <1>4. QED
    BY <1>1, <1>2, <1>3 DEF Init, TypeOK

\* The two ways on after a failed exchange keep the loop's variables typed.
LEMMA ReturnType ==
  ASSUME TypeOK, NEW e \in APIErrors, Return(e)
  PROVE  /\ err' \in APIErrors
         /\ pc' = "failed"
         /\ attempt' \in Nat
         /\ delay' \in Nat
  BY DEF TypeOK, Return

LEMMA ContinueType ==
  ASSUME TypeOK, NEW e \in APIErrors, Continue(e)
  PROVE  /\ err' \in APIErrors
         /\ pc' \in {"sleep", "panic", "failed"}
         /\ attempt' \in Nat
         /\ delay' \in Nat
  <1>1. e.hint \in Int
    BY DEF APIErrors
  <1>2. \A d \in backoff(policy, attempt, e.hint) : d \in Nat
    BY <1>1, BackoffBounds DEF TypeOK
  <1>3. QED
    BY <1>2 DEF Continue, TypeOK

LEMMA NextType == TypeOK /\ [Next]_vars => TypeOK'
  <1> SUFFICES ASSUME TypeOK, [Next]_vars PROVE TypeOK'
    OBVIOUS
  <1>1. ASSUME NEW how \in {"canceled", "expired"}, CtxDone(how) PROVE TypeOK'
    BY <1>1 DEF TypeOK, CtxDone, Normal
  <1>2. CASE Send
    BY <1>2 DEF TypeOK, Send, Normal
  <1>3. CASE TransportFail
    <2>1. PICK e \in APIErrors : Return(e) \/ Continue(e)
      BY <1>3, TransportErrorType DEF TransportFail
    <2>2. QED
      BY <1>3, <2>1, ReturnType, ContinueType DEF TransportFail, TypeOK, Normal
  <1>4. CASE Headers
    <2>1. resp' \in [status : Nat, header : RetryAfters \cup {NoResponse.header}]
      BY <1>4, UpstreamAssumption DEF Headers
    <2>2. QED
      BY <1>4, <2>1 DEF Headers, TypeOK, Normal
  <1>5. CASE BodyFail
    <2>1. PICK e \in APIErrors : Return(e) \/ Continue(e)
      <3>1. PICK cause \in Causes : LET e == bodyReadError(resp.status, cause) IN
                                    Return(e) \/ Continue(e)
        BY <1>5 DEF BodyFail, Causes
      <3>2. bodyReadError(resp.status, cause) \in APIErrors
        BY BodyErrorTypes DEF TypeOK
      <3>3. QED
        BY <3>1, <3>2
    <2>2. QED
      BY <1>5, <2>1, ReturnType, ContinueType DEF BodyFail, TypeOK, Normal
  <1>6. CASE BodyTooLarge
    <2>1. PICK e \in APIErrors : Return(e)
      BY <1>6, BodyErrorTypes DEF BodyTooLarge, TypeOK
    <2>2. QED
      BY <1>6, <2>1, ReturnType DEF BodyTooLarge, TypeOK, Normal
  <1>7. CASE BodyRead
    <2>1. resp.status \in Nat /\ resp.header.n \in Int
      BY UpstreamAssumption DEF TypeOK, NoResponse
    <2>2. statusError(resp.status, resp.header) \in APIErrors
      BY <2>1, StatusErrorType
    <2>3. \/ \E e \in APIErrors : Return(e) \/ Continue(e)
          \/ pc' = "value" /\ UNCHANGED <<attempt, err, delay>>
      BY <1>7, <2>1, <2>2, BodyErrorTypes DEF BodyRead
    <2>4. QED
      BY <1>7, <2>3, ReturnType, ContinueType DEF BodyRead, TypeOK, Normal
  <1>8. CASE Wake
    BY <1>8 DEF Wake, TypeOK, Normal
  <1>9. CASE SleepCancelled
    <2> DEFINE gone == APIError("cancelled", FALSE, 0, 0,
                                IF ctx = "canceled" THEN "canceled" ELSE "deadline")
    <2>1. gone \in APIErrors /\ Return(gone)
      BY <1>9 DEF SleepCancelled, APIError, APIErrors, Kinds, Causes
    <2>2. QED
      BY <1>9, <2>1, ReturnType DEF SleepCancelled, TypeOK, Normal
  <1>10. CASE UNCHANGED vars
    BY <1>10 DEF vars, TypeOK, Normal
  <1>11. QED
    BY <1>1, <1>2, <1>3, <1>4, <1>5, <1>6, <1>7, <1>8, <1>9, <1>10 DEF Next, Done

\* The variables of one FetchJSON call keep their types, for every policy a
\* caller can configure.
THEOREM TypeCorrect == Spec => []TypeOK
  BY InitType, NextType, PTL DEF Spec

-----------------------------------------------------------------------------
(* What one step does *)

\* The three outcomes of "continue".
LEMMA ContinueStep ==
  ASSUME TypeOK, NEW e \in APIErrors, Continue(e)
  PROVE  \/ /\ pc' = "sleep"
            /\ attempt + 1 < Attempts /\ attempt' = attempt + 1
            /\ delay' \in Nat \ {0} /\ delay' <= PauseCap(policy)
         \/ /\ pc' = "panic"
            /\ attempt + 1 < Attempts /\ attempt' = attempt + 1
            /\ Capped(policy, attempt) < 2
         \/ /\ pc' = "failed"
            /\ attempt + 1 >= Attempts /\ attempt' = attempt
  <1>1. e.hint \in Int /\ Normal(policy) /\ attempt \in Nat
    BY DEF APIErrors, TypeOK
  <1>2. \A d \in backoff(policy, attempt, e.hint) : d \in Nat \ {0} /\ d <= PauseCap(policy)
    BY <1>1, BackoffBounds
  <1>3. backoff(policy, attempt, e.hint) = {} => Capped(policy, attempt) < 2
    BY <1>1, BackoffPanics
  <1>4. QED
    BY <1>2, <1>3 DEF Continue

EndExchange == TransportFail \/ BodyFail \/ BodyTooLarge \/ BodyRead

\* The end of an exchange goes round the loop, returns an error, or succeeds.
\* It goes round after a transport failure only with a live context, and
\* returns a transient error to a live context only when no attempt is left.
LEMMA ExchangeStep ==
  ASSUME TypeOK, EndExchange
  PROVE  /\ pc \in {"headers", "body"}
         /\ UNCHANGED <<policy, idempotent, ctx, resp, calls, late, waited>>
         /\ \/ \E e \in APIErrors : Continue(e) /\ (ctx = "live" \/ pc = "body")
            \/ \E e \in APIErrors :
                  /\ Return(e)
                  /\ ctx = "live" /\ Transient(e) => attempt + 1 >= Attempts
            \/ pc = "body" /\ pc' = "value" /\ attempt' = attempt
  <1>1. resp.status \in Nat /\ resp.header.n \in Int
    BY UpstreamAssumption DEF TypeOK, NoResponse
  <1>2. CASE TransportFail
    BY <1>2, TransportErrorType DEF TransportFail, GiveUp, Transient
  <1>3. CASE BodyFail
    <2>1. PICK cause \in Causes :
             LET e == bodyReadError(resp.status, cause) IN
             IF GiveUp(e) THEN Return(e) ELSE Continue(e)
      BY <1>3 DEF BodyFail, Causes
    <2>2. bodyReadError(resp.status, cause) \in APIErrors
      BY <1>1, BodyErrorTypes
    <2>3. QED
      BY <1>3, <2>1, <2>2 DEF BodyFail, GiveUp, Transient
  <1>4. CASE BodyTooLarge
    <2>1. bodyTooLarge(resp.status) \in APIErrors /\ ~Transient(bodyTooLarge(resp.status))
      BY <1>1, BodyErrorTypes DEF bodyTooLarge, APIError, Transient
    <2>2. QED
      BY <1>4, <2>1 DEF BodyTooLarge
  <1>5. CASE BodyRead
    <2> DEFINE e == statusError(resp.status, resp.header)
    <2>1. e \in APIErrors
      BY <1>1, StatusErrorType
    <2>2. Transient(e) => retryableStatus(resp.status)
      BY DEF statusError, APIError, Transient
    <2>3. \A body \in BodyShapes : /\ decodeError(resp.status, body) \in APIErrors
                                   /\ ~Transient(decodeError(resp.status, body))
      BY <1>1, BodyErrorTypes DEF decodeError, APIError, Transient
    <2>4. attempt \in Nat /\ Attempts \in Nat
      BY AttemptsType DEF TypeOK
    <2> HIDE DEF e
    <2>5. \/ Continue(e)
          \/ Return(e) /\ ~(retryableStatus(resp.status) /\ attempt + 1 < Attempts)
          \/ \E body \in BodyShapes : Return(decodeError(resp.status, body))
          \/ pc' = "value" /\ attempt' = attempt
      BY <1>5 DEF BodyRead, e
    <2>6. pc = "body" /\ UNCHANGED <<policy, idempotent, ctx, resp, calls, late, waited>>
      BY <1>5 DEF BodyRead
    <2>7. QED
      BY <2>1, <2>2, <2>3, <2>4, <2>5, <2>6
  <1>6. QED
    BY <1>2, <1>3, <1>4, <1>5 DEF EndExchange

\* Every other step of Do, by what it changes.
LEMMA OtherStep ==
  ASSUME TypeOK, [Next]_vars, ~EndExchange
  PROVE  /\ UNCHANGED <<policy, idempotent>>
         /\ \/ /\ ~Ended /\ ctx = "live" /\ ctx' # "live"
               /\ UNCHANGED <<pc, attempt, err, delay, calls, late, waited>>
            \/ Send
            \/ Headers
            \/ Wake
            \/ /\ pc = "sleep" /\ ctx # "live" /\ pc' = "failed"
               /\ UNCHANGED <<ctx, attempt, delay, calls, late, waited>>
            \/ UNCHANGED vars
  BY DEF Next, EndExchange, CtxDone, Send, Headers, Wake, SleepCancelled, Return, Done, vars

-----------------------------------------------------------------------------
(* The budget of requests *)

\* The strengthening that makes RequestBudget inductive: the number of calls
\* made is the loop counter, one more while an exchange is under way.
CallCount ==
    /\ attempt < Attempts
    /\ pc \in {"send", "sleep", "panic"} => calls = attempt
    /\ pc \in {"sleep", "panic"} => attempt > 0
    /\ pc \in {"headers", "body", "value"} => calls = attempt + 1
    /\ pc = "failed" => calls \in {attempt, attempt + 1}

LEMMA NextCallCount == TypeOK /\ CallCount /\ [Next]_vars => CallCount'
  <1> SUFFICES ASSUME TypeOK, CallCount, [Next]_vars PROVE CallCount'
    OBVIOUS
  <1>1. attempt \in Nat /\ calls \in Nat /\ Attempts \in Nat
    BY AttemptsType DEF TypeOK
  <1>2. CASE EndExchange
    <2>1. Attempts' = Attempts /\ calls' = calls /\ calls = attempt + 1
      BY <1>2, ExchangeStep DEF Attempts, CallCount
    <2>2. CASE \E e \in APIErrors : Continue(e)
      BY <1>1, <2>1, <2>2, ContinueStep DEF CallCount
    <2>3. CASE \E e \in APIErrors : Return(e)
      BY <1>1, <2>1, <2>3 DEF CallCount, Return
    <2>4. CASE pc' = "value" /\ attempt' = attempt
      BY <1>1, <2>1, <2>4 DEF CallCount
    <2>5. QED
      BY <1>2, <2>2, <2>3, <2>4, ExchangeStep
  <1>3. CASE ~EndExchange
    <2>1. Attempts' = Attempts
      BY <1>3, OtherStep DEF Attempts
    <2>2. QED
      BY <1>1, <1>3, <2>1, OtherStep DEF CallCount, Send, Headers, Wake, vars
  <1>4. QED
    BY <1>2, <1>3

LEMMA Counted == Spec => [](TypeOK /\ CallCount)
  <1>1. Init => CallCount
    <2>1. Init => attempt = 0 /\ calls = 0 /\ pc = "send"
      BY DEF Init
    <2>2. QED
      BY <2>1, InitType, AttemptsType DEF CallCount
  <1>2. QED
    BY <1>1, InitType, NextType, NextCallCount, PTL DEF Spec

\* Do never makes more calls than its policy allows, and a request that is
\* not idempotent is sent once.
THEOREM BudgetKept == Spec => []RequestBudget
  <1>1. TypeOK /\ CallCount => RequestBudget
    BY AttemptsType DEF TypeOK, CallCount, RequestBudget
  <1>2. QED
    BY <1>1, Counted, PTL

-----------------------------------------------------------------------------
(* The caller that leaves *)

\* The strengthening of LateCallBound: the one late call ends in an error.
LateIsLast == late = 0 \/ (late = 1 /\ ctx # "live" /\ pc \in {"headers", "failed"})

LEMMA NextLate == TypeOK /\ LateIsLast /\ [Next]_vars => LateIsLast'
  <1> SUFFICES ASSUME TypeOK, LateIsLast, [Next]_vars PROVE LateIsLast'
    OBVIOUS
  <1>1. CASE EndExchange
    <2>1. CASE late = 0
      BY <1>1, <2>1, ExchangeStep DEF LateIsLast
    <2>2. CASE late = 1
      <3>1. ~(\E e \in APIErrors : Continue(e) /\ (ctx = "live" \/ pc = "body"))
        BY <2>2 DEF LateIsLast
      <3>2. \E e \in APIErrors : Return(e)
        BY <1>1, <2>2, <3>1, ExchangeStep DEF LateIsLast
      <3>3. QED
        BY <1>1, <2>2, <3>2, ExchangeStep DEF LateIsLast, Return
    <2>3. QED
      BY <2>1, <2>2 DEF LateIsLast
  <1>2. CASE ~EndExchange
    BY <1>2, OtherStep DEF LateIsLast, Send, Headers, Wake, vars, Ended
  <1>3. QED
    BY <1>1, <1>2

\* At most one call is begun after the caller has left, and it is the last.
THEOREM LateCallBounded == Spec => []LateCallBound
  <1>1. Init => LateIsLast
    BY DEF Init, LateIsLast
  <1>2. LateIsLast => LateCallBound
    BY DEF LateIsLast, LateCallBound
  <1>3. QED
    BY <1>1, <1>2, InitType, NextType, NextLate, PTL DEF Spec

-----------------------------------------------------------------------------
(* Giving up *)

LEMMA NextSpent ==
  TypeOK /\ CallCount /\ GivesUpOnlyWhenSpent /\ [Next]_vars => GivesUpOnlyWhenSpent'
  <1> SUFFICES ASSUME TypeOK, CallCount, GivesUpOnlyWhenSpent, [Next]_vars
               PROVE  GivesUpOnlyWhenSpent'
    OBVIOUS
  <1>1. attempt \in Nat /\ calls \in Nat /\ Attempts \in Nat
    BY AttemptsType DEF TypeOK
  <1>2. CASE EndExchange
    <2>1. /\ Attempts' = Attempts /\ calls' = calls /\ ctx' = ctx
          /\ calls = attempt + 1 /\ attempt < Attempts
      BY <1>2, ExchangeStep DEF Attempts, CallCount
    <2>2. CASE \E e \in APIErrors : Continue(e)
      BY <1>1, <2>1, <2>2, ContinueStep DEF GivesUpOnlyWhenSpent
    <2>3. CASE \E e \in APIErrors : /\ Return(e)
                                    /\ ctx = "live" /\ Transient(e) => attempt + 1 >= Attempts
      BY <1>1, <2>1, <2>3 DEF GivesUpOnlyWhenSpent, Return, Transient
    <2>4. CASE pc' = "value"
      BY <2>4 DEF GivesUpOnlyWhenSpent
    <2>5. QED
      BY <1>2, <2>2, <2>3, <2>4, ExchangeStep
  <1>3. CASE ~EndExchange
    <2>1. Attempts' = Attempts
      BY <1>3, OtherStep DEF Attempts
    <2>2. QED
      BY <1>3, <2>1, OtherStep
         DEF GivesUpOnlyWhenSpent, Transient, Send, Headers, Wake, vars, Ended
  <1>4. QED
    BY <1>2, <1>3

\* A transient failure is returned to a caller that is still there only after
\* every attempt was spent.
THEOREM NeverGivesUpEarly == Spec => []GivesUpOnlyWhenSpent
  <1>1. Init => GivesUpOnlyWhenSpent
    BY DEF Init, GivesUpOnlyWhenSpent
  <1>2. QED
    BY <1>1, Counted, NextSpent, PTL DEF Spec

-----------------------------------------------------------------------------
(* The time spent waiting *)

LEMMA PauseCapType == TypeOK => PauseCap(policy) \in Nat
  BY DEF TypeOK, Normal, PauseCap

LEMMA NextWait == TypeOK /\ WaitBudget /\ [Next]_vars => WaitBudget'
  <1> SUFFICES ASSUME TypeOK, WaitBudget, [Next]_vars PROVE WaitBudget'
    OBVIOUS
  <1> DEFINE C == PauseCap(policy)
  <1>1. attempt \in Nat /\ waited \in Nat /\ delay \in Nat /\ C \in Nat
    BY PauseCapType DEF TypeOK
  <1>2. (attempt + 1) * C = attempt * C + C /\ attempt * C \in Nat
    BY <1>1
  <1>3. policy' = policy => PauseCap(policy)' = C
    BY DEF PauseCap
  <1> HIDE DEF C
  <1>4. CASE EndExchange
    <2>1. waited' = waited /\ PauseCap(policy)' = C /\ waited <= attempt * C
      BY <1>1, <1>3, <1>4, ExchangeStep DEF WaitBudget, C
    <2>2. CASE \E e \in APIErrors : Continue(e)
      <3>1. \/ /\ pc' = "sleep" /\ attempt' = attempt + 1
               /\ delay' \in Nat \ {0} /\ delay' <= C
            \/ pc' # "sleep" /\ attempt' = attempt + 1
            \/ pc' # "sleep" /\ attempt' = attempt
        BY <2>2, ContinueStep DEF C
      <3>2. QED
        BY <1>1, <1>2, <2>1, <3>1 DEF WaitBudget
    <2>3. CASE \E e \in APIErrors : Return(e)
      BY <1>1, <2>1, <2>3 DEF WaitBudget, Return
    <2>4. CASE pc' = "value" /\ attempt' = attempt
      BY <1>1, <2>1, <2>4 DEF WaitBudget
    <2>5. QED
      BY <1>4, <2>2, <2>3, <2>4, ExchangeStep
  <1>5. CASE ~EndExchange
    <2>1. PauseCap(policy)' = C
      BY <1>3, <1>5, OtherStep
    <2>2. /\ waited + (IF pc = "sleep" THEN delay ELSE 0) <= attempt * C
          /\ pc = "sleep" => delay > 0
      BY DEF WaitBudget, C
    <2>3. QED
      BY <1>1, <1>2, <1>5, <2>1, <2>2, OtherStep DEF WaitBudget, Send, Headers, Wake, vars
  <1>6. QED
    BY <1>4, <1>5

\* However the server sets Retry-After, a call sleeps no longer than its
\* policy allows for the retries it made, and never goes on without a pause.
THEOREM WaitBounded == Spec => []WaitBudget
  <1>1. Init => WaitBudget
    <2>1. Init => attempt = 0 /\ waited = 0 /\ pc = "send" /\ PauseCap(policy) \in Nat
      BY InitType, PauseCapType DEF Init
    <2>2. QED
      BY <2>1 DEF WaitBudget
  <1>2. QED
    BY <1>1, InitType, NextType, NextWait, PTL DEF Spec

LEMMA NextPanic ==
  TypeOK /\ PanicOnlyWhenDegenerate /\ [Next]_vars => PanicOnlyWhenDegenerate'
  <1> SUFFICES ASSUME TypeOK, PanicOnlyWhenDegenerate, [Next]_vars
               PROVE  PanicOnlyWhenDegenerate'
    OBVIOUS
  <1>2. CASE EndExchange
    <2>1. policy' = policy /\ attempt \in Nat
      BY <1>2, ExchangeStep DEF TypeOK
    <2>2. CASE \E e \in APIErrors : Continue(e)
      <3>1. pc' = "panic" => attempt' - 1 = attempt /\ Capped(policy, attempt) < 2
        BY <2>1, <2>2, ContinueStep
      <3>2. QED
        BY <2>1, <3>1 DEF PanicOnlyWhenDegenerate
    <2>3. CASE ~(\E e \in APIErrors : Continue(e))
      BY <1>2, <2>3, ExchangeStep DEF PanicOnlyWhenDegenerate, Return
    <2>4. QED
      BY <2>2, <2>3
  <1>3. CASE ~EndExchange
    BY <1>3, OtherStep DEF PanicOnlyWhenDegenerate, Send, Headers, Wake, vars, Ended
  <1>4. QED
    BY <1>2, <1>3

\* Do panics on a degenerate delay only.
THEOREM PanicsOnlyWhenDegenerate == Spec => []PanicOnlyWhenDegenerate
  <1>1. Init => PanicOnlyWhenDegenerate
    BY DEF Init, PanicOnlyWhenDegenerate
  <1>2. QED
    BY <1>1, InitType, NextType, NextPanic, PTL DEF Spec

-----------------------------------------------------------------------------
(* Refinement *)

LEMMA InitRefines == Init => Contract!Init
  <1> SUFFICES ASSUME Init PROVE Contract!Init
    OBVIOUS
  <1>1. Attempts \in Nat \ {0}
    BY InitType, AttemptsType
  <1>2. Outcome = "pending"
    BY DEF Init, Outcome
  <1>3. QED
    BY <1>1, <1>2 DEF Init, Contract!Init

LEMMA OutcomeKept ==
  UNCHANGED <<pc, err>> => Outcome' = Outcome
  BY DEF Outcome, Transient

LEMMA NextRefines ==
  TypeOK /\ TypeOK' /\ CallCount /\ CallCount' /\ LateIsLast /\ LateIsLast' /\ [Next]_vars
     => [Contract!Next]_Contract!contract
  <1> SUFFICES ASSUME TypeOK, TypeOK', CallCount, CallCount', LateIsLast, LateIsLast',
                      [Next]_vars
               PROVE  [Contract!Next]_Contract!contract
    OBVIOUS
  <1> USE DEF Contract!contract
  <1>1. attempt \in Nat /\ calls \in Nat /\ Attempts \in Nat
    BY AttemptsType DEF TypeOK
  <1>2. CASE EndExchange
    <2>1. /\ Attempts' = Attempts
          /\ UNCHANGED <<calls, ctx, late>>
          /\ calls = attempt + 1
      BY <1>2, ExchangeStep DEF Attempts, CallCount
    <2>2. Outcome = "pending"
      BY <1>2, ExchangeStep DEF Outcome
    <2>3. CASE Outcome' = "pending"
      BY <2>1, <2>2, <2>3
    <2>4. CASE Outcome' # "pending"
      <3>1. Outcome' \in Contract!Outcomes
        BY <2>4 DEF Outcome, Contract!Outcomes
      <3>2. Outcome' = "transient" => ctx # "live" \/ calls = Attempts
        <4>1. ASSUME NEW e \in APIErrors, Continue(e), pc' = "failed"
              PROVE  calls = Attempts
          BY <1>1, <2>1, <4>1, ContinueStep DEF CallCount
        <4>2. ASSUME NEW e \in APIErrors, Return(e), Transient(err)', ctx = "live",
                     ctx = "live" /\ Transient(e) => attempt + 1 >= Attempts
              PROVE  calls = Attempts
          BY <1>1, <2>1, <4>2 DEF Return, CallCount, Transient
        <4>3. Outcome' = "transient" => pc' = "failed" /\ Transient(err)'
          BY DEF Outcome
        <4>4. QED
          BY <1>2, <4>1, <4>2, <4>3, ExchangeStep
      <3>3. QED
        BY <1>1, <2>1, <2>2, <3>1, <3>2 DEF Contract!Next, Contract!Return
    <2>5. QED
      BY <2>3, <2>4
  <1>3. CASE ~EndExchange
    <2>1. Attempts' = Attempts
      BY <1>3, OtherStep DEF Attempts
    <2>2. CASE ~Ended /\ ctx = "live" /\ ctx' # "live"
               /\ UNCHANGED <<pc, attempt, err, delay, calls, late, waited>>
      BY <2>1, <2>2, OutcomeKept DEF Contract!Next, Contract!Leave
    <2>3. CASE Send
      <3>1. Outcome = "pending" /\ Outcome' = "pending"
        BY <2>3 DEF Send, Outcome
      <3>2. late = 0 /\ calls < Attempts
        BY <1>1, <2>3 DEF Send, LateIsLast, CallCount
      <3>3. QED
        BY <2>1, <2>3, <3>1, <3>2 DEF Send, Contract!Next, Contract!Call
    <2>4. CASE Headers \/ Wake
      <3>1. Outcome = "pending" /\ Outcome' = "pending"
        BY <2>4 DEF Headers, Wake, Outcome
      <3>2. QED
        BY <2>1, <2>4, <3>1 DEF Headers, Wake
    <2>5. CASE /\ pc = "sleep" /\ ctx # "live" /\ pc' = "failed"
               /\ UNCHANGED <<ctx, attempt, delay, calls, late, waited>>
      <3>1. Outcome = "pending" /\ Outcome' \in Contract!Outcomes
        BY <2>5 DEF Outcome, Contract!Outcomes
      <3>2. calls > 0
        BY <1>1, <2>5 DEF CallCount
      <3>3. QED
        BY <2>1, <2>5, <3>1, <3>2 DEF Contract!Next, Contract!Return
    <2>6. CASE UNCHANGED vars
      BY <2>1, <2>6, OutcomeKept DEF vars
    <2>7. QED
      BY <1>3, <2>2, <2>3, <2>4, <2>5, <2>6, OtherStep
  <1>4. QED
    BY <1>2, <1>3

\* Do implements the retry contract.
THEOREM DoImplementsContract == Spec => ImplementsContract
  <1>1. Init => LateIsLast
    BY DEF Init, LateIsLast
  <1>2. Spec => [](TypeOK /\ CallCount /\ LateIsLast)
    BY <1>1, InitType, NextType, NextLate, Counted, PTL DEF Spec
  <1>3. QED
    BY <1>2, InitRefines, NextRefines, PTL DEF Spec, ImplementsContract, Contract!Spec

-----------------------------------------------------------------------------
(* What one step does *)

\* Do starts again with the same policy and context.
Restart == /\ UNCHANGED <<policy, idempotent, ctx>>
           /\ pc' = "send" /\ attempt' = 0 /\ resp' = NoResponse /\ err' = NoError
           /\ delay' = 0 /\ calls' = 0 /\ late' = 0 /\ waited' = 0

\* The failures a stage of a call may end with.
Failure(e) ==
    \/ e = Labelled(Validation) /\ pc = "send"
    \/ e = Labelled(err) /\ pc = "failed"
    \/ e = Labelled(NoEntries) /\ pc = "value" /\ op \in Pages
    \/ /\ pc = "value" /\ op = "mods"
       /\ \E kind \in {"not_found", "server_error"} : e = Labelled(apiStatusError(kind))
    \/ e = Incomplete /\ pc = "value" /\ op = "login"

LEMMA ClientStep ==
  ASSUME [ClientNext]_clientVars
  PROVE  \/ Http
         \/ \E how \in {"canceled", "expired"} : Leave(how)
         \/ \E e : stage # "done" /\ Failure(e) /\ Fail(e)
         \/ \E r : /\ stage # "done" /\ pc = "value" /\ Return_(r) /\ UNCHANGED errs
                   /\ IF op \in Posts THEN r \in Verdicts ELSE r = "items"
         \/ UNCHANGED clientVars
  <1>1. CASE LoginReply
    BY <1>1 DEF LoginReply, Failure, Verdicts, Refusal, Posts
  <1>2. CASE ValidateReply
    BY <1>2 DEF ValidateReply, Verdicts, Posts
  <1>3. CASE Refuse \/ RequestFails \/ PageFails \/ PayloadFails
    BY <1>3 DEF Refuse, RequestFails, PageFails, PayloadFails, Failure
  <1>4. CASE Deliver
    BY <1>4 DEF Deliver
  <1>5. QED
    BY <1>1, <1>2, <1>3, <1>4 DEF ClientNext, ClientDone

LEMMA FailStep ==
  ASSUME NEW e, Fail(e)
  PROVE  /\ errs' = Append(errs, e)
         /\ op' = op
         /\ \/ /\ op = "feed" /\ stage = "first" /\ ctx = "live" /\ Restart
               /\ stage' = "second" /\ UNCHANGED result
               /\ asked' = asked + calls /\ lateAsked' = lateAsked + late
            \/ /\ ~(op = "feed" /\ stage = "first" /\ ctx = "live")
               /\ UNCHANGED <<vars, asked, lateAsked>>
               /\ stage' = "done" /\ result' = "error"
  BY DEF Fail, AskSecond, Return_, Restart

-----------------------------------------------------------------------------
(* The run of Do inside a call *)

DoInv == TypeOK /\ CallCount /\ LateIsLast /\ GivesUpOnlyWhenSpent

LEMMA ConfigurationKept == TypeOK /\ [Next]_vars => UNCHANGED <<policy, idempotent>>
  BY ExchangeStep, OtherStep

LEMMA DoInvRestart == DoInv /\ Restart => DoInv'
  <1> SUFFICES ASSUME DoInv, Restart PROVE DoInv'
    OBVIOUS
  <1>1. TypeOK'
    BY DEF DoInv, TypeOK, Restart, NoResponse, NoError, APIError, APIErrors, Causes, Normal
  <1>2. CallCount' /\ LateIsLast' /\ GivesUpOnlyWhenSpent'
    BY AttemptsType
       DEF DoInv, Restart, CallCount, LateIsLast, GivesUpOnlyWhenSpent, Attempts, TypeOK, Normal
  <1>3. QED
    BY <1>1, <1>2 DEF DoInv

LEMMA DoInvLeave ==
  ASSUME DoInv, NEW how \in {"canceled", "expired"}, Leave(how)
  PROVE  DoInv'
  BY DEF DoInv, Leave, TypeOK, CallCount, LateIsLast, GivesUpOnlyWhenSpent, Transient,
         Attempts, Ended, Normal

LEMMA DoInvNext == DoInv /\ [ClientNext]_clientVars => DoInv'
  <1> SUFFICES ASSUME DoInv, [ClientNext]_clientVars PROVE DoInv'
    OBVIOUS
  <1>1. [Next]_vars => DoInv'
    BY NextType, NextCallCount, NextLate, NextSpent DEF DoInv
  <1>2. Http \/ UNCHANGED vars => DoInv'
    BY <1>1 DEF Http
  <1>3. ASSUME NEW e, Fail(e) PROVE DoInv'
    BY <1>2, <1>3, FailStep, DoInvRestart
  <1>4. QED
    BY <1>2, <1>3, DoInvLeave, ClientStep DEF Return_, clientVars

LEMMA DoInvInit == ClientInit => DoInv
  <1>1. Init => CallCount
    BY InitType, AttemptsType DEF Init, CallCount
  <1>2. QED
    BY <1>1, InitType DEF ClientInit, Init, DoInv, LateIsLast, GivesUpOnlyWhenSpent

-----------------------------------------------------------------------------
(* The budget of a call *)

\* What makes the budget inductive: a second request is made only for a feed
\* and only while the caller waits, so nothing before it was late.
Budgeted ==
    /\ op \in Ops
    /\ idempotent <=> op \notin Posts
    /\ asked \in Nat
    /\ asked <= IF op = "feed" THEN policy.MaxAttempts ELSE 0
    /\ stage = "first" => asked = 0
    /\ lateAsked = 0
    /\ stage \in {"first", "second", "done"}

LEMMA BudgetedNext ==
  DoInv /\ Budgeted /\ [ClientNext]_clientVars => Budgeted'
  <1> SUFFICES ASSUME DoInv, Budgeted, [ClientNext]_clientVars PROVE Budgeted'
    OBVIOUS
  <1>1. CASE Http
    BY <1>1, ConfigurationKept DEF Http, Budgeted, DoInv, here
  <1>2. ASSUME NEW how \in {"canceled", "expired"}, Leave(how) PROVE Budgeted'
    BY <1>2 DEF Leave, Budgeted, here
  <1>3. ASSUME NEW e, Fail(e) PROVE Budgeted'
    <2>1. CASE Restart
      <3>1. (op = "feed" /\ stage = "first" /\ ctx = "live") \/ UNCHANGED <<vars, asked, lateAsked>>
        BY <1>3, FailStep
      <3>2. ctx = "live" => late = 0
        BY DEF DoInv, LateIsLast
      <3>3. calls \in Nat /\ calls <= Attempts
        BY AttemptsType DEF DoInv, CallCount, TypeOK
      <3>4. op = "feed" => Attempts = policy.MaxAttempts
        BY DEF Budgeted, Attempts, Posts
      <3>5. QED
        BY <1>3, <2>1, <3>1, <3>2, <3>3, <3>4, FailStep DEF Budgeted, Restart, vars
    <2>2. CASE ~Restart
      BY <1>3, <2>2, FailStep DEF Budgeted, vars
    <2>3. QED
      BY <2>1, <2>2
  <1>4. ASSUME NEW r, Return_(r) PROVE Budgeted'
    BY <1>4 DEF Return_, Budgeted, vars
  <1>5. CASE UNCHANGED clientVars
    BY <1>5 DEF clientVars, vars, here, Budgeted
  <1>6. QED
    BY <1>1, <1>2, <1>3, <1>4, <1>5, ClientStep

LEMMA CallInv == ClientSpec => [](DoInv /\ Budgeted)
  <1>1. ClientInit => Budgeted
    <2>1. ClientInit => policy.MaxAttempts \in Nat
      BY DoInvInit DEF DoInv, TypeOK, Normal
    <2>2. QED
      BY <2>1 DEF ClientInit, Budgeted
  <1>2. QED
    BY <1>1, DoInvInit, DoInvNext, BudgetedNext, PTL DEF ClientSpec

\* However a call goes, the upstream sees no more requests than the policy
\* allows: one for a POST, twice the attempts for a feed with its fallback.
THEOREM CallBudgetKept == ClientSpec => []UpstreamBudget
  <1>1. DoInv /\ Budgeted => UpstreamBudget
    <2> SUFFICES ASSUME DoInv, Budgeted PROVE UpstreamBudget
      OBVIOUS
    <2>1. calls \in Nat /\ calls <= Attempts /\ policy.MaxAttempts \in Nat
      BY AttemptsType DEF DoInv, CallCount, TypeOK, Normal
    <2>2. QED
      BY <2>1 DEF Budgeted, UpstreamBudget, Attempts, Posts
  <1>2. QED
    BY <1>1, CallInv, PTL

\* A caller that leaves is followed by at most one more request, although a
\* second feed might be asked.
THEOREM LateOverBothFeeds == ClientSpec => []OneLateCall
  <1>1. DoInv /\ Budgeted => OneLateCall
    BY DEF DoInv, LateIsLast, Budgeted, OneLateCall
  <1>2. QED
    BY <1>1, CallInv, PTL

-----------------------------------------------------------------------------
(* Types *)

LEMMA FailureType ==
  ASSUME DoInv, NEW e, Failure(e)
  PROVE  e \in Reported
  <1>1. \A kind : legacy(kind) \in Sentinels
    BY DEF legacy, Sentinels
  <1>2. {"not_found", "server_error", "invalid_response"} \subseteq Kinds
    BY DEF Kinds
  <1>3. CASE e = Labelled(err)
    BY <1>1, <1>3 DEF Labelled, DoInv, TypeOK, APIErrors, Reported
  <1>4. CASE e = Labelled(Validation)
    <2>1. Validation \in [kind : Kinds \cup {"none", "validation"}, retryable : BOOLEAN,
                          status : Nat, hint : Int, cause : Causes]
      BY DEF Validation, APIError, Causes
    <2>2. QED
      BY <1>1, <1>4, <2>1 DEF Labelled, Reported
  <1>7. CASE e = Incomplete
    BY <1>7 DEF Incomplete, APIError, Causes, Reported, Sentinels
  <1>5. CASE e = Labelled(NoEntries)
    BY <1>1, <1>2, <1>5 DEF Labelled, NoEntries, APIError, Causes, Reported, DoInv, TypeOK
  <1>6. ASSUME NEW kind \in {"not_found", "server_error"}, e = Labelled(apiStatusError(kind))
        PROVE  e \in Reported
    BY <1>1, <1>2, <1>6 DEF Labelled, apiStatusError, APIError, Causes, Reported
  <1>8. QED
    BY <1>3, <1>4, <1>5, <1>6, <1>7 DEF Failure

LEMMA TypeNext ==
  DoInv /\ Budgeted /\ ClientTypeOK /\ [ClientNext]_clientVars => ClientTypeOK'
  <1> SUFFICES ASSUME DoInv, Budgeted, ClientTypeOK, [ClientNext]_clientVars
               PROVE  ClientTypeOK'
    OBVIOUS
  <1>1. DoInv' /\ Budgeted' => /\ TypeOK' /\ op' \in Ops
                              /\ stage' \in {"first", "second", "done"}
                              /\ asked' \in Nat /\ lateAsked' \in Nat
    BY DEF DoInv, Budgeted
  <1>2. errs' \in Seq(Reported) /\ result' \in {"none", "items", "error"} \cup Verdicts
    <2>1. errs \in Seq(Reported) /\ result \in {"none", "items", "error"} \cup Verdicts
      BY DEF ClientTypeOK
    <2>2. ASSUME NEW e, Failure(e), Fail(e)
          PROVE  errs' \in Seq(Reported) /\ result' \in {"none", "items", "error"} \cup Verdicts
      <3>1. e \in Reported
        BY <2>2, FailureType
      <3>2. errs' = Append(errs, e) /\ result' \in {result, "error"}
        BY <2>2, FailStep
      <3>3. QED
        BY <2>1, <3>1, <3>2
    <2>3. Http \/ (\E how \in {"canceled", "expired"} : Leave(how)) \/ UNCHANGED clientVars
            => UNCHANGED <<errs, result>>
      BY DEF Http, Leave, clientVars, here
    <2>4. ASSUME NEW r, Return_(r), UNCHANGED errs,
                 IF op \in Posts THEN r \in Verdicts ELSE r = "items"
          PROVE  errs' \in Seq(Reported) /\ result' \in {"none", "items", "error"} \cup Verdicts
      BY <2>1, <2>4 DEF Return_
    <2>5. QED
      BY <2>1, <2>2, <2>3, <2>4, ClientStep
  <1>3. QED
    BY <1>1, <1>2, DoInvNext, BudgetedNext DEF ClientTypeOK

\* Every variable of a call keeps its type.
THEOREM TypeCorrectCall == ClientSpec => []ClientTypeOK
  <1>1. ClientInit => ClientTypeOK
    <2>1. ClientInit => DoInv /\ <<>> \in Seq(Reported)
      BY DoInvInit
    <2>2. QED
      BY <2>1 DEF ClientInit, ClientTypeOK, DoInv
  <1>2. QED
    BY <1>1, CallInv, DoInvInit, DoInvNext, BudgetedNext, TypeNext, PTL DEF ClientSpec

-----------------------------------------------------------------------------
(* Both feeds *)

LEMMA FailureOfFeed ==
  ASSUME DoInv, Budgeted, NEW e, Failure(e), op = "feed", ctx = "live",
         Transient(e.error)
  PROVE  calls = policy.MaxAttempts
  <1>1. ~Transient(Validation) /\ ~Transient(NoEntries)
    BY DEF Transient, Validation, NoEntries, APIError
  <1>2. e = Labelled(err) /\ pc = "failed"
    BY <1>1 DEF Failure, Labelled
  <1>3. Transient(err)
    BY <1>2 DEF Labelled
  <1>4. QED
    BY <1>2, <1>3 DEF DoInv, GivesUpOnlyWhenSpent, Budgeted, Attempts, Posts

LEMMA AppendOne ==
  ASSUME NEW d, NEW e
  PROVE  Len(Append(<<d>>, e)) = 2 /\ Append(<<d>>, e)[1] = d /\ Append(<<d>>, e)[2] = e
  OBVIOUS

\* What is known of the feeds asked so far while the caller waits.
FeedsAsked ==
    op = "feed" =>
        /\ stage # "done" => result = "none"
        /\ stage = "first" => errs = <<>>
        /\ stage = "second" =>
              \E e : errs = <<e>> /\ (Transient(e.error) => asked = policy.MaxAttempts)
        /\ stage = "done" /\ result = "error" /\ ctx = "live" =>
              /\ Len(errs) = 2
              /\ Transient(errs[1].error) => asked = policy.MaxAttempts
              /\ Transient(errs[2].error) => calls = policy.MaxAttempts

LEMMA FeedsAskedNext ==
  DoInv /\ Budgeted /\ FeedsAsked /\ [ClientNext]_clientVars => FeedsAsked'
  <1> SUFFICES ASSUME DoInv, Budgeted, FeedsAsked, [ClientNext]_clientVars, (op = "feed")'
               PROVE  FeedsAsked'
    BY DEF FeedsAsked
  <1>1. CASE Http
    BY <1>1, ConfigurationKept DEF Http, FeedsAsked, DoInv, here
  <1>2. ASSUME NEW how \in {"canceled", "expired"}, Leave(how) PROVE FeedsAsked'
    BY <1>2 DEF Leave, FeedsAsked, here
  <1>3. ASSUME NEW e, Failure(e), Fail(e), stage # "done" PROVE FeedsAsked'
    <2>1. op = "feed"
      BY <1>3, FailStep
    <2>2. ctx = "live" /\ Transient(e.error) => calls = policy.MaxAttempts
      BY <1>3, <2>1, FailureOfFeed
    <2>3. CASE stage = "first" /\ ctx = "live"
      <3>1. errs' = <<e>> /\ stage' = "second" /\ result' = result /\ asked' = calls
        BY <1>3, <2>1, <2>3, FailStep DEF FeedsAsked, Budgeted, DoInv, TypeOK
      <3>2. policy' = policy
        BY <1>3, <2>1, <2>3, FailStep DEF Restart
      <3>3. QED
        BY <2>1, <2>2, <2>3, <3>1, <3>2 DEF FeedsAsked
    <2>4. CASE ~(stage = "first" /\ ctx = "live")
      <3>1. /\ errs' = Append(errs, e) /\ stage' = "done"
            /\ UNCHANGED <<ctx, policy, calls, asked>>
        BY <1>3, <2>1, <2>4, FailStep DEF vars
      <3>2. CASE ctx = "live"
        <4>1. PICK d : /\ errs = <<d>>
                       /\ Transient(d.error) => asked = policy.MaxAttempts
          BY <1>3, <2>1, <2>4, <3>2 DEF FeedsAsked, Budgeted
        <4>2. Len(errs') = 2 /\ errs'[1] = d /\ errs'[2] = e
          BY <3>1, <4>1, AppendOne
        <4>3. QED
          BY <2>1, <2>2, <3>1, <3>2, <4>1, <4>2 DEF FeedsAsked
      <3>3. CASE ctx # "live"
        BY <3>1, <3>3 DEF FeedsAsked
      <3>4. QED
        BY <3>2, <3>3
    <2>5. QED
      BY <2>3, <2>4
  <1>4. ASSUME NEW r, Return_(r), IF op \in Posts THEN r \in Verdicts ELSE r = "items"
        PROVE  FeedsAsked'
    BY <1>4 DEF Return_, FeedsAsked, Posts
  <1>5. CASE UNCHANGED clientVars
    BY <1>5 DEF clientVars, vars, here, FeedsAsked
  <1>6. QED
    BY <1>1, <1>2, <1>3, <1>4, <1>5, ClientStep

\* A caller who waits learns that the news are unavailable only after both
\* feeds were asked to the end.
THEOREM NewsAskedTwice == ClientSpec => []BothFeedsAsked
  <1>1. ClientInit => FeedsAsked
    BY DEF ClientInit, FeedsAsked
  <1>2. DoInv /\ Budgeted /\ FeedsAsked => BothFeedsAsked
    BY DEF FeedsAsked, Budgeted, BothFeedsAsked
  <1>3. QED
    BY <1>1, <1>2, CallInv, DoInvInit, DoInvNext, BudgetedNext, FeedsAskedNext, PTL DEF ClientSpec

-----------------------------------------------------------------------------
(* What auth says *)

\* A kind that stands for a request without a reply has no status, but for
\* the 408.
Fits(e) == /\ e.kind \in Unsent => e.status \in {0, 408}
           /\ e.kind \notin Unsent => e.status # 0

\* The reply behind each place of Do.
ReplyFits == /\ pc = "value" => Success(resp.status)
             /\ pc = "body" => resp.status # 0
             /\ pc = "failed" => Fits(err)

LEMMA ErrorsFit ==
  /\ \A chain : Fits(transportError(chain))
  /\ \A status \in Nat \ {0} :
        /\ \A cause : Fits(bodyReadError(status, cause))
        /\ Fits(bodyTooLarge(status))
        /\ \A header : Fits(statusError(status, header))
        /\ \A body : Fits(decodeError(status, body))
  /\ \A cause : Fits(APIError("cancelled", FALSE, 0, 0, cause))
  BY DEF Fits, Unsent, transportError, classify, bodyReadError, bodyTooLarge, statusError,
         StatusKind, decodeError, APIError

LEMMA ReplyFitsNext == DoInv /\ ReplyFits /\ [Next]_vars => ReplyFits'
  <1> SUFFICES ASSUME DoInv, ReplyFits, [Next]_vars PROVE ReplyFits'
    OBVIOUS
  <1>1. \A e : Fits(e) /\ (Return(e) \/ Continue(e)) => ReplyFits'
    BY DEF Return, Continue, ReplyFits, Fits
  <1>2. resp.status \in Nat
    BY DEF DoInv, TypeOK
  <1>3. CASE TransportFail
    BY <1>1, <1>3, ErrorsFit DEF TransportFail
  <1>4. CASE Headers
    BY <1>4, UpstreamAssumption DEF Headers, ReplyFits
  <1>5. CASE BodyFail \/ BodyTooLarge
    BY <1>1, <1>2, <1>5, ErrorsFit DEF BodyFail, BodyTooLarge, ReplyFits
  <1>6. CASE BodyRead
    <2>1. resp.status \in Nat \ {0} /\ resp' = resp
      BY <1>2, <1>6 DEF BodyRead, ReplyFits
    <2>2. CASE pc' = "value" /\ Success(resp.status)
      BY <2>1, <2>2 DEF ReplyFits
    <2>3. QED
      BY <1>1, <1>6, <2>1, <2>2, ErrorsFit DEF BodyRead
  <1>7. CASE SleepCancelled
    BY <1>1, <1>7, ErrorsFit DEF SleepCancelled
  <1>8. CASE Send \/ Wake \/ Done \/ UNCHANGED vars
    BY <1>8 DEF Send, Wake, Done, vars, ReplyFits
  <1>9. ASSUME NEW how \in {"canceled", "expired"}, CtxDone(how) PROVE ReplyFits'
    BY <1>9 DEF CtxDone, ReplyFits
  <1>10. QED
    BY <1>3, <1>4, <1>5, <1>6, <1>7, <1>8, <1>9 DEF Next

\* A POST has one stage; VerdictNeedsReply holds once it is over.
Judged ==
    /\ ReplyFits
    /\ op \in Posts => stage # "second" /\ (stage = "first" => errs = <<>>)
    /\ VerdictNeedsReply

LEMMA FailureOfPost ==
  ASSUME Judged, NEW e, Failure(e), op \in Posts
  PROVE  /\ e.sentinel = "Network" => e.error.status \in {0, 408}
         /\ e.sentinel # "Network" => e.error.status # 0
  <1>1. CASE e = Labelled(Validation)
    BY <1>1 DEF Labelled, Validation, APIError, legacy, Unsent, Unusable, Posts
  <1>2. CASE e = Labelled(err) /\ pc = "failed"
    <2>1. Fits(err)
      BY <1>2 DEF Judged, ReplyFits
    <2>2. e.error = err /\ e.sentinel = legacy(err.kind)
      BY <1>2 DEF Labelled
    <2>3. legacy(err.kind) = "Network" <=> err.kind \in Unsent
      BY DEF legacy, Unsent, Unusable, Posts
    <2>4. QED
      BY <2>1, <2>2, <2>3 DEF Fits
  <1>3. CASE e = Incomplete
    BY <1>3 DEF Incomplete, APIError
  <1>4. QED
    BY <1>1, <1>2, <1>3 DEF Failure, Posts, Pages

LEMMA JudgedNext ==
  DoInv /\ Budgeted /\ Judged /\ [ClientNext]_clientVars => Judged'
  <1> SUFFICES ASSUME DoInv, Budgeted, Judged, [ClientNext]_clientVars PROVE Judged'
    OBVIOUS
  <1>1. CASE Http
    <2>1. ReplyFits'
      BY <1>1, ReplyFitsNext DEF Http, Judged
    <2>2. QED
      BY <1>1, <2>1 DEF Http, here, Judged, VerdictNeedsReply
  <1>2. ASSUME NEW how \in {"canceled", "expired"}, Leave(how) PROVE Judged'
    BY <1>2 DEF Leave, here, Judged, VerdictNeedsReply, ReplyFits, Posts
  <1>3. ASSUME NEW e, stage # "done", Failure(e), Fail(e) PROVE Judged'
    <2>1. CASE op \notin Posts
      <3>1. op' \notin Posts
        BY <1>3, <2>1, FailStep
      <3>2. ReplyFits'
        BY <1>3, FailStep DEF Restart, Judged, ReplyFits, vars
      <3>3. QED
        BY <3>1, <3>2 DEF Judged, VerdictNeedsReply
    <2>2. CASE op \in Posts
      <3>1. op # "feed" /\ stage = "first" /\ errs = <<>>
        BY <1>3, <2>2 DEF Posts, Judged, Budgeted
      <3>2. /\ errs' = <<e>> /\ stage' = "done" /\ result' = "error"
            /\ UNCHANGED <<op, pc, resp, err>>
        BY <1>3, <3>1, FailStep DEF vars
      <3>3. ReplyFits'
        BY <3>2 DEF Judged, ReplyFits
      <3>4. "error" \notin Verdicts
        BY DEF Verdicts
      <3>5. errs'[1] = e /\ Len(errs') = 1
        BY <3>2
      <3>6. VerdictNeedsReply'
        BY <1>3, <2>2, <3>2, <3>4, <3>5, FailureOfPost DEF VerdictNeedsReply
      <3>7. QED
        BY <3>2, <3>3, <3>6 DEF Judged
    <2>3. QED
      BY <2>1, <2>2
  <1>4. ASSUME NEW r, stage # "done", pc = "value", Return_(r), UNCHANGED errs,
               IF op \in Posts THEN r \in Verdicts ELSE r = "items"
        PROVE  Judged'
    <2>1. ReplyFits' /\ Success(resp.status)
      BY <1>4 DEF Return_, vars, Judged, ReplyFits
    <2>2. op \in Posts => calls = 1
      BY <1>4, AttemptsType DEF DoInv, CallCount, TypeOK, Budgeted, Attempts
    <2>3. QED
      BY <1>4, <2>1, <2>2 DEF Return_, vars, Judged, VerdictNeedsReply, Budgeted
  <1>5. CASE UNCHANGED clientVars
    BY <1>5 DEF clientVars, vars, here, Judged, VerdictNeedsReply, ReplyFits
  <1>6. QED
    BY <1>1, <1>2, <1>3, <1>4, <1>5, ClientStep

\* auth judges an account only on a reply it has read, and its sentinels tell
\* a request without a reply from one that was answered.
THEOREM VerdictsRest == ClientSpec => []VerdictNeedsReply
  <1>1. ClientInit => Judged
    BY DEF ClientInit, Init, Judged, ReplyFits, VerdictNeedsReply
  <1>2. Judged => VerdictNeedsReply
    BY DEF Judged
  <1>3. QED
    BY <1>1, <1>2, CallInv, DoInvInit, DoInvNext, BudgetedNext, JudgedNext, PTL DEF ClientSpec
=============================================================================
