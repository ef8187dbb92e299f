----------------------------- MODULE ApiClients -----------------------------
(***************************************************************************)
(* One call of a client that keeps nothing between calls:                  *)
(* news.Client.List, which asks a second feed when the first one fails,    *)
(* auth.Client.Login and Validate, servers.Client.Get, and the requests    *)
(* behind the catalogs of versions and moddb. A call is one or two runs of *)
(* HttpDo and what the client makes of their outcome: a result, or errors  *)
(* labelled with the sentinel of the client's package.                     *)
(*                                                                         *)
(* What a reply says is chosen by the upstream, which is external.         *)
(***************************************************************************)
EXTENDS HttpDo, Sequences

noRetry == [MaxAttempts |-> 1, BaseDelay |-> 0, MaxDelay |-> 0, MaxWait |-> 0]

ASSUME NoRetryAssumption == noRetry \in Policies

VARIABLES
    op,        \* the operation called
    stage,     \* "first" request, "second" one, or "done"
    asked,     \* history: client.Do calls of the requests before this one
    lateAsked, \* history: those of them begun after the context was done
    errs,      \* failures of the requests made: [error, sentinel]
    result     \* what the caller gets: "none" until the call is done

here == <<op, stage, asked, lateAsked, errs, result>>
clientVars == <<vars, here>>

Posts == {"login", "validate"}  \* sent by auth, never repeated
Pages == {"feed", "server"}     \* read by a parser of the client, not as JSON
Ops == Posts \cup Pages \cup {"releases", "mods"}

-----------------------------------------------------------------------------
(* Sentinels *)

Unusable == {"invalid_json", "invalid_response", "response_too_large"}
Unsent == {"network", "timeout", "dns", "tls", "cancelled", "validation"}

\* Mutant: a reply that broke off counts as a failure of the network.
legacyBodyIsNetwork(kind) ==
    CASE op = "mods" /\ kind = "not_found" -> "NotFound"
      [] kind \in Unusable -> "Invalid"
      [] op \in Posts /\ kind \in Unsent \cup {"body_read"} -> "Network"
      [] op \in Posts /\ kind \notin Unsent \cup Unusable \cup {"body_read"} -> "Server"
      [] OTHER -> "Unavailable"

\* Mutant: a kind without a sentinel of its own stays as it is.
legacyBare(kind) ==
    CASE op = "mods" /\ kind = "not_found" -> "NotFound"
      [] kind \in Unusable -> "Invalid"
      [] OTHER -> kind

\* legacy: the sentinel of the package for a kind of failure. Only moddb tells
\* a missing mod apart, and only auth the network from the server.
legacy(kind) ==
    CASE op = "mods" /\ kind = "not_found" -> "NotFound"
      [] kind \in Unusable \/ (op \in Posts /\ kind = "body_read") -> "Invalid"
      [] op \in Posts /\ kind \in Unsent -> "Network"
      [] op \in Posts /\ kind \notin Unsent \cup Unusable \cup {"body_read"} -> "Server"
      [] OTHER -> "Unavailable"

Labelled(e) == [error |-> e, sentinel |-> legacy(e.kind)]

\* A request that cannot be built, a page without entries (Get forgets the
\* status), a catalog whose payload carries another status than 200, and a
\* login reply that says it is valid and is not complete.
Validation == APIError("validation", FALSE, 0, 0, "other")
NoEntries == APIError("invalid_response", FALSE,
                      IF op = "feed" THEN resp.status ELSE 0, 0, "other")
apiStatusError(kind) == APIError(kind, FALSE, 0, 0, "other")
Incomplete == [error |-> APIError("validation", FALSE, 200, 0, "other"),
               sentinel |-> "Invalid"]

-----------------------------------------------------------------------------
(* The steps of a call *)

ClientInit ==
    /\ Init
    /\ op \in Ops
    /\ idempotent <=> op \notin Posts
    /\ op \in Posts => policy = normalize(noRetry, DefaultPolicy)
    /\ stage = "first"
    /\ asked = 0
    /\ lateAsked = 0
    /\ errs = <<>>
    /\ result = "none"

\* A step of Do, CheckStatus and, unless the body is a page, DecodeJSON.
Http ==
    /\ stage # "done"
    /\ ~Ended
    /\ Next
    /\ op \in Pages => err'.kind \notin {"invalid_json", "invalid_response"}
    /\ UNCHANGED here

\* The context ends between the return of Do and the look at ctx.Err.
Leave(how) ==
    /\ op = "feed" /\ stage = "first" /\ Ended
    /\ ctx = "live"
    /\ ctx' = how
    /\ UNCHANGED <<policy, idempotent, pc, attempt, resp, err, delay, calls, late, waited, here>>

Return_(r) ==
    /\ stage' = "done"
    /\ result' = r
    /\ UNCHANGED <<vars, op, asked, lateAsked>>

\* The fallback feed is asked: a run of Do from its beginning.
AskSecond ==
    /\ stage' = "second"
    /\ asked' = asked + calls
    /\ lateAsked' = lateAsked + late
    /\ pc' = "send"
    /\ attempt' = 0
    /\ resp' = NoResponse
    /\ err' = NoError
    /\ delay' = 0
    /\ calls' = 0
    /\ late' = 0
    /\ waited' = 0
    /\ UNCHANGED <<policy, idempotent, ctx, op, result>>

\* Mutant: the fallback is asked although the caller has left.
FailDeaf(e) ==
    /\ errs' = Append(errs, e)
    /\ \/ op = "feed" /\ stage = "first" /\ AskSecond
       \/ ~(op = "feed" /\ stage = "first") /\ Return_("error")

\* Mutant: the fallback is asked only after a failure worth a retry.
FailRetryable(e) ==
    /\ errs' = Append(errs, e)
    /\ \/ op = "feed" /\ stage = "first" /\ ctx = "live" /\ e.error.retryable /\ AskSecond
       \/ /\ ~(op = "feed" /\ stage = "first" /\ ctx = "live" /\ e.error.retryable)
          /\ Return_("error")

\* The request of this stage failed. The first feed's failure is followed by
\* a request to the second unless the context is done.
Fail(e) ==
    /\ errs' = Append(errs, e)
    /\ \/ op = "feed" /\ stage = "first" /\ ctx = "live" /\ AskSecond
       \/ ~(op = "feed" /\ stage = "first" /\ ctx = "live") /\ Return_("error")

\* The endpoint is no URL, or the ID of a server is empty.
Refuse == stage # "done" /\ pc = "send" /\ calls = 0 /\ Fail(Labelled(Validation))

RequestFails == stage # "done" /\ pc = "failed" /\ Fail(Labelled(err))

\* No entry of the page is usable.
PageFails ==
    /\ op \in Pages /\ stage # "done" /\ pc = "value"
    /\ Fail(Labelled(NoEntries))

PayloadFails ==
    /\ op = "mods" /\ stage # "done" /\ pc = "value"
    /\ \E kind \in {"not_found", "server_error"} : Fail(Labelled(apiStatusError(kind)))

Deliver ==
    /\ op \notin Posts /\ stage # "done" /\ pc = "value"
    /\ Return_("items")
    /\ UNCHANGED errs

\* What Login makes of a reply that is no valid session.
Refusal(reason) ==
    CASE reason \in {"invalidemailorpassword", "invalidtotpcode"} -> "InvalidCredentials"
      [] reason = "ipchanged" -> "IPChanged"
      [] reason = "temporarilyblocked" -> "TemporarilyBlocked"
      [] OTHER -> "Unknown"

Reasons == {"invalidemailorpassword", "invalidtotpcode", "ipchanged", "temporarilyblocked", ""}

\* The reply says valid, with the four fields of a session or not; or it asks
\* for a TOTP code, with a pre-login token or not; or it refuses.
LoginReply ==
    /\ op = "login" /\ stage # "done" /\ pc = "value"
    /\ \/ Return_("session") /\ UNCHANGED errs
       \/ Return_("challenge") /\ UNCHANGED errs
       \/ Fail(Incomplete)
       \/ \E reason \in Reasons : Return_(Refusal(reason)) /\ UNCHANGED errs

ValidateReply ==
    /\ op = "validate" /\ stage # "done" /\ pc = "value"
    /\ \E valid \in {"valid", "expired"} : Return_(valid)
    /\ UNCHANGED errs

Over == stage = "done" \/ pc = "panic"

ClientDone == Over /\ UNCHANGED clientVars

ClientNext ==
    \/ Http \/ \E how \in {"canceled", "expired"} : Leave(how)
    \/ Refuse \/ RequestFails \/ PageFails \/ PayloadFails \/ Deliver
    \/ LoginReply \/ ValidateReply
    \/ ClientDone

ClientSpec == ClientInit /\ [][ClientNext]_clientVars

-----------------------------------------------------------------------------
(* Properties *)

Verdicts == {"session", "challenge", "valid", "expired", "Unknown", "InvalidCredentials",
             "IPChanged", "TemporarilyBlocked"}

Sentinels == {"NotFound", "Invalid", "Network", "Server", "Unavailable"}

Reported == [error : [kind : Kinds \cup {"none", "validation"}, retryable : BOOLEAN,
                      status : Nat, hint : Int, cause : Causes],
             sentinel : Sentinels]

\* Types of a call and of the run of Do it is in.
ClientTypeOK ==
    /\ TypeOK
    /\ op \in Ops
    /\ stage \in {"first", "second", "done"}
    /\ asked \in Nat
    /\ lateAsked \in Nat
    /\ errs \in Seq(Reported)
    /\ result \in {"none", "items", "error"} \cup Verdicts

\* A call costs the upstream no more than the attempts of its policy, twice
\* that with a fallback feed, and a login or a validation is sent at most
\* once: a TOTP code cannot be spent twice by one call.
UpstreamBudget ==
    asked + calls <= IF op \in Posts THEN 1
                     ELSE IF op = "feed" THEN 2 * policy.MaxAttempts
                     ELSE policy.MaxAttempts

\* After the caller has left at most one more client.Do is begun, over both
\* feeds together.
OneLateCall == lateAsked + late <= 1

\* A caller who still waits is told that the news are unavailable only after
\* both feeds were asked, and each asked to the end: a feed whose failure is
\* worth a retry was sent every attempt, however the other one failed.
BothFeedsAsked ==
    op = "feed" /\ result = "error" /\ ctx = "live" =>
        /\ Len(errs) = 2
        /\ Transient(errs[1].error) => asked = policy.MaxAttempts
        /\ Transient(errs[2].error) => calls = policy.MaxAttempts

\* auth says something about an account only if its one request was answered
\* with a 2xx reply that was read to its end. Otherwise the sentinel of its
\* error says whether a reply was seen: ErrNetwork means none was, but for a
\* 408, which counts as a timeout.
VerdictNeedsReply ==
    op \in Posts /\ stage = "done" =>
        IF result \in Verdicts
        THEN Success(resp.status) /\ calls = 1 /\ errs = <<>>
        ELSE /\ Len(errs) = 1
             /\ errs[1].sentinel = "Network" => errs[1].error.status \in {0, 408}
             /\ errs[1].sentinel # "Network" => errs[1].error.status # 0
=============================================================================
