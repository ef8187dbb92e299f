------------------------------- MODULE HttpDo -------------------------------
(***************************************************************************)
(* One call of vshttp.FetchJSON: the retry loop of Do, then CheckStatus    *)
(* and DecodeJSON. The caller's context may be cancelled or expire between *)
(* any two steps; the upstream may fail at every point of an exchange.     *)
(*                                                                         *)
(* net/http is external: a request begun under a finished context is       *)
(* refused at once with the context's error, and one in progress may still *)
(* be answered or fail in any way.                                         *)
(***************************************************************************)
EXTENDS Vshttp

CONSTANTS
    Policies,      \* the RetryPolicy values callers configure
    DefaultPolicy, \* DefaultRetryPolicy()
    Statuses,      \* status codes the upstream answers with
    RetryAfters,   \* Retry-After headers it may send
    Chains         \* error chains of transport failures with a live context

\* MaxDelay leaves room for its jitter (in the program: below 233 years).
ASSUME PolicyAssumption ==
    /\ Normal(DefaultPolicy)
    /\ \A p \in Policies : /\ p.MaxAttempts \in Int
                           /\ p.BaseDelay \in Int
                           /\ p.MaxDelay \in Int
                           /\ p.MaxWait \in Int
    /\ \A p \in Policies \cup {DefaultPolicy} : p.MaxDelay + p.MaxDelay \div 4 < Half

ASSUME UpstreamAssumption ==
    /\ Statuses \subseteq Nat \ {0}
    /\ Chains \subseteq SUBSET (Facets \ {"canceled"})
    /\ \A h \in RetryAfters : h.form \in {"none", "seconds", "date"} /\ h.n \in Int

VARIABLES
    policy,      \* the normalized policy of this call
    idempotent,  \* GET or HEAD without a body
    ctx,         \* the caller's context: "live", "canceled" or "expired"
    pc,          \* where Do stands
    attempt,     \* loop counter
    resp,        \* status and Retry-After header of the response being read
    err,         \* lastErr; at the end the error returned
    delay,       \* the pause chosen by backoff
    calls,       \* history: client.Do calls begun
    late,        \* history: those begun after the context was done
    waited       \* history: total time slept

vars == <<policy, idempotent, ctx, pc, attempt, resp, err, delay, calls, late, waited>>

NoResponse == [status |-> 0, header |-> [form |-> "none", n |-> 0]]

Attempts == IF idempotent THEN policy.MaxAttempts ELSE 1

Ended == pc \in {"value", "failed", "panic"}

Init == /\ policy \in { normalize(p, DefaultPolicy) : p \in Policies }
        /\ idempotent \in BOOLEAN
        /\ ctx = "live"
        /\ pc = "send"
        /\ attempt = 0
        /\ resp = NoResponse
        /\ err = NoError
        /\ delay = 0
        /\ calls = 0
        /\ late = 0
        /\ waited = 0

Return(e) == /\ err' = e
             /\ pc' = "failed"
             /\ UNCHANGED <<attempt, delay>>

\* Mutant: the loop runs one round too many.
ContinueOneMore(e) ==
    /\ err' = e
    /\ \/ /\ attempt < Attempts
          /\ attempt' = attempt + 1
          /\ \/ /\ backoff(policy, attempt, e.hint) = {}
                /\ pc' = "panic"
                /\ UNCHANGED delay
             \/ /\ delay' \in backoff(policy, attempt, e.hint)
                /\ pc' = "sleep"
       \/ /\ attempt >= Attempts
          /\ pc' = "failed"
          /\ UNCHANGED <<attempt, delay>>

\* "continue": the next round of the loop begins with the choice of a pause,
\* unless this was the last one; then lastErr is returned.
Continue(e) ==
    /\ err' = e
    /\ \/ /\ attempt + 1 < Attempts
          /\ attempt' = attempt + 1
          /\ \/ /\ backoff(policy, attempt, e.hint) = {}
                /\ pc' = "panic"
                /\ UNCHANGED delay
             \/ /\ delay' \in backoff(policy, attempt, e.hint)
                /\ pc' = "sleep"
       \/ /\ attempt + 1 >= Attempts
          /\ pc' = "failed"
          /\ UNCHANGED <<attempt, delay>>

-----------------------------------------------------------------------------

CtxDone(how) ==
    /\ ~Ended
    /\ ctx = "live"
    /\ ctx' = how
    /\ UNCHANGED <<policy, idempotent, pc, attempt, resp, err, delay, calls, late, waited>>

\* client.Do is called.
Send ==
    /\ pc = "send"
    /\ pc' = "headers"
    /\ calls' = calls + 1
    /\ late' = IF ctx = "live" THEN late ELSE late + 1
    /\ UNCHANGED <<policy, idempotent, ctx, attempt, resp, err, delay, waited>>

\* The chains client.Do may report: its context's error once that is done,
\* and nothing else when the context was done before it began.
CtxChain == IF ctx = "canceled" THEN {"canceled"} ELSE {"deadline", "timeout"}
PossibleChains == CASE ctx = "live" -> Chains
                    [] ctx # "live" /\ late = 0 -> Chains \cup {CtxChain}
                    [] OTHER -> {CtxChain}

\* Mutant: a timeout of the client is taken for the caller's deadline.
GiveUpOnTimeout(e) == ctx # "live" \/ ~e.retryable \/ e.kind = "timeout"

\* After a failed exchange: is it returned at once?
GiveUp(e) == ctx # "live" \/ ~e.retryable

\* client.Do returns an error.
TransportFail ==
    /\ pc = "headers"
    /\ \E chain \in PossibleChains :
          LET e == transportError(chain) IN
          IF GiveUp(e) THEN Return(e) ELSE Continue(e)
    /\ UNCHANGED <<policy, idempotent, ctx, resp, calls, late, waited>>

\* client.Do returns a response; its body is yet to be read.
Headers ==
    /\ pc = "headers"
    /\ late = 0
    /\ \E status \in Statuses, header \in RetryAfters :
          resp' = [status |-> status, header |-> header]
    /\ pc' = "body"
    /\ UNCHANGED <<policy, idempotent, ctx, attempt, err, delay, calls, late, waited>>

\* Reading the body breaks off: the connection, the client's own timeout, or
\* the caller's context.
BodyFail ==
    /\ pc = "body"
    /\ \E cause \in {"other", "deadline"} \cup (IF ctx = "canceled" THEN {"canceled"} ELSE {}) :
          LET e == bodyReadError(resp.status, cause) IN
          IF GiveUp(e) THEN Return(e) ELSE Continue(e)
    /\ UNCHANGED <<policy, idempotent, ctx, resp, calls, late, waited>>

BodyTooLarge ==
    /\ pc = "body"
    /\ Return(bodyTooLarge(resp.status))
    /\ UNCHANGED <<policy, idempotent, ctx, resp, calls, late, waited>>

\* The body is read. A retryable status is retried while attempts are left;
\* otherwise Do returns the response, and FetchJSON checks and decodes it.
BodyRead ==
    /\ pc = "body"
    /\ \/ /\ retryableStatus(resp.status) /\ attempt + 1 < Attempts
          /\ Continue(statusError(resp.status, resp.header))
       \/ /\ ~(retryableStatus(resp.status) /\ attempt + 1 < Attempts)
          /\ ~Success(resp.status)
          /\ Return(statusError(resp.status, resp.header))
       \/ /\ Success(resp.status)
          /\ \E body \in BodyShapes \ {"good"} : Return(decodeError(resp.status, body))
       \/ /\ Success(resp.status)
          /\ pc' = "value"
          /\ UNCHANGED <<attempt, err, delay>>
    /\ UNCHANGED <<policy, idempotent, ctx, resp, calls, late, waited>>

\* Mutant: no timer is armed for a pause that the server asked for.
WakeUnhinted ==
    /\ pc = "sleep"
    /\ err.hint <= 0
    /\ pc' = "send"
    /\ waited' = waited + delay
    /\ UNCHANGED <<policy, idempotent, ctx, attempt, resp, err, delay, calls, late>>

\* The timer of sleep fires. The select may pick it even though the context
\* is done too.
Wake ==
    /\ pc = "sleep"
    /\ pc' = "send"
    /\ waited' = waited + delay
    /\ UNCHANGED <<policy, idempotent, ctx, attempt, resp, err, delay, calls, late>>

\* Mutant: sleep waits for its timer only.
SleepDeaf == pc = "sleep" /\ pc = "send" /\ UNCHANGED vars

\* sleep sees the context first. The error is of kind cancelled even when the
\* context expired; its cause tells the two apart.
SleepCancelled ==
    /\ pc = "sleep"
    /\ ctx # "live"
    /\ Return(APIError("cancelled", FALSE, 0, 0,
                       IF ctx = "canceled" THEN "canceled" ELSE "deadline"))
    /\ UNCHANGED <<policy, idempotent, ctx, resp, calls, late, waited>>

Exchange == TransportFail \/ Headers \/ BodyFail \/ BodyTooLarge \/ BodyRead

Done == Ended /\ UNCHANGED vars

Next == \/ \E how \in {"canceled", "expired"} : CtxDone(how)
        \/ Send
        \/ TransportFail \/ Headers \/ BodyFail \/ BodyTooLarge \/ BodyRead
        \/ Wake \/ SleepCancelled
        \/ Done

\* The goroutine runs, the select of sleep sees a finished context, and
\* net/http aborts an exchange whose context is done. Neither that a live
\* exchange ends nor that a timer fires in time is assumed here.
Fairness == /\ WF_vars(Send)
            /\ WF_vars(SleepCancelled)
            /\ WF_vars(ctx # "live" /\ Exchange)

Spec == Init /\ [][Next]_vars
LiveSpec == Spec /\ Fairness

-----------------------------------------------------------------------------
(* Properties *)

\* Types of the variables of one FetchJSON call.
TypeOK ==
    /\ Normal(policy)
    /\ idempotent \in BOOLEAN
    /\ ctx \in {"live", "canceled", "expired"}
    /\ pc \in {"send", "headers", "body", "sleep", "value", "failed", "panic"}
    /\ attempt \in Nat
    /\ resp \in [status : Nat, header : RetryAfters \cup {NoResponse.header}]
    /\ err \in APIErrors
    /\ delay \in Nat
    /\ calls \in Nat
    /\ late \in Nat
    /\ waited \in Nat

\* Do never costs the upstream more calls than the policy allows, and a
\* request that is not idempotent is sent exactly once, through every mix of
\* transport failures, body failures, retried statuses and cancellations.
RequestBudget == calls <= Attempts

\* After the caller's context is done at most one more client.Do is begun
\* (sleep's select may lose the race), and it is the last.
LateCallBound == late <= 1 /\ (late = 1 => pc \notin {"sleep", "send"})

\* A failure Do would retry if it had attempts left. A 408 is the exception
\* the code makes: it is marked retryable and never retried.
Transient(e) == e.retryable /\ e.status # 408

\* An error marked Retryable reaches a caller whose context is live only
\* after every attempt was spent.
GivesUpOnlyWhenSpent ==
    pc = "failed" /\ Transient(err) /\ ctx = "live" => calls = Attempts

\* The time slept between attempts is bounded by the policy, and no retry goes
\* out without a pause before it, whatever the upstream puts in Retry-After
\* (a number of seconds may wrap to a negative Duration or to zero) and
\* however far the delay is shifted.
WaitBudget ==
    /\ waited + (IF pc = "sleep" THEN delay ELSE 0) <= attempt * PauseCap(policy)
    /\ pc = "sleep" => delay > 0

\* Do panics only on a policy whose delay is degenerate: below two units, or
\* shifted out of the width of a Duration.
PanicOnlyWhenDegenerate ==
    pc = "panic" => Capped(policy, attempt - 1) < 2

\* The retry contract is implemented.
Outcome == CASE pc = "value" -> "value"
             [] pc = "panic" -> "panic"
             [] pc = "failed" /\ Transient(err) -> "transient"
             [] pc = "failed" /\ ~Transient(err) -> "final"
             [] OTHER -> "pending"

Contract == INSTANCE RetryContract
    WITH budget <- Attempts, used <- calls, gone <- ctx # "live",
         outcome <- Outcome

\* Every behaviour of Do is one that RetryContract allows.
ImplementsContract == Contract!Spec

\* A caller that leaves gets its call back, although a live exchange may hang
\* for ever and a server may have asked for a pause of any length.
CancelledCallEnds == ctx # "live" ~> Ended

\* If exchanges end (the transport's and the client's timeouts see to it) and
\* timers fire, every call ends.
EveryCallEnds == WF_vars(Exchange) /\ WF_vars(Wake) => <>Ended

\* What vshttp_test.go says of a cancelled call: its error is not retryable.
CancelNeverRetryable ==
    pc = "failed" /\ err.cause = "canceled" => ~err.retryable
=============================================================================
