------------------------------- MODULE Vshttp -------------------------------
(***************************************************************************)
(* The pure part of package vshttp: how failures are classified, which of  *)
(* them are worth another attempt, and how long to wait before it.         *)
(* Durations are integers of the width of time.Duration; an APIError keeps *)
(* the fields that decisions are made on (its texts are left out).         *)
(***************************************************************************)
EXTENDS Integers

CONSTANTS
    Half,    \* a Duration lies in -Half .. Half - 1 (2^63 in the program)
    Second   \* time.Second, in the unit of Duration

ASSUME DurationAssumption == Half \in Nat \ {0} /\ Second \in Nat \ {0}

Duration == -Half .. Half - 1

\* Two's complement truncation of an integer to a Duration.
Wrap(x) == ((x + Half) % (2 * Half)) - Half

-----------------------------------------------------------------------------
(* Errors *)

Kinds == {"network", "timeout", "cancelled", "dns", "tls", "http_status",
          "rate_limit", "unauthorized", "forbidden", "not_found",
          "server_error", "response_too_large", "body_read", "invalid_json",
          "invalid_response"}

\* What errors.Is finds in the Cause chain: one of the context sentinels or
\* anything else.
Causes == {"canceled", "deadline", "other"}

\* An APIError. status is 0 when no response was received, hint is RetryAfter.
APIError(kind, retryable, status, hint, cause) ==
    [kind |-> kind, retryable |-> retryable, status |-> status,
     hint |-> hint, cause |-> cause]

APIErrors == [kind : Kinds \cup {"none"}, retryable : BOOLEAN, status : Nat,
              hint : Int, cause : Causes]

\* The error variable before the first failure.
NoError == APIError("none", FALSE, 0, 0, "other")

\* The properties of a transport error that classify asks about, each
\* somewhere in the error's chain.
Facets == {"canceled", "deadline", "dns", "tls", "timeout"}

CauseOf(chain) == IF "canceled" \in chain THEN "canceled"
                  ELSE IF "deadline" \in chain THEN "deadline" ELSE "other"

\* classify: the first matching test wins.
classify(chain) ==
    IF "canceled" \in chain THEN [kind |-> "cancelled", retryable |-> FALSE]
    ELSE IF "deadline" \in chain THEN [kind |-> "timeout", retryable |-> TRUE]
    ELSE IF "dns" \in chain THEN [kind |-> "dns", retryable |-> TRUE]
    ELSE IF "tls" \in chain THEN [kind |-> "tls", retryable |-> FALSE]
    ELSE IF "timeout" \in chain THEN [kind |-> "timeout", retryable |-> TRUE]
    ELSE [kind |-> "network", retryable |-> TRUE]

transportError(chain) ==
    APIError(classify(chain).kind, classify(chain).retryable, 0, 0, CauseOf(chain))

-----------------------------------------------------------------------------
(* Statuses *)

\* Status codes: any integer; 2xx is success.
Success(status) == status >= 200 /\ status < 300

retryableStatus(status) == status \in {429, 502, 503, 504}

\* A Retry-After header: absent or unreadable ("none"), a decimal number of
\* seconds, or a date whose distance from now is n.
parseRetryAfter(header) ==
    CASE header.form = "seconds" /\ header.n >= 0 -> Wrap(header.n * Second)
      [] header.form = "date" /\ header.n >= 0 -> header.n
      [] OTHER -> 0

StatusKind(status) ==
    CASE status = 401 -> "unauthorized"
      [] status = 403 -> "forbidden"
      [] status = 404 -> "not_found"
      [] status = 408 -> "timeout"
      [] status = 429 -> "rate_limit"
      [] status >= 500 -> "server_error"
      [] OTHER -> "http_status"

\* statusError: only a 429 carries the Retry-After hint; a 408 is marked
\* retryable although Do does not retry it.
statusError(status, header) ==
    APIError(StatusKind(status),
             status = 408 \/ retryableStatus(status),
             status,
             IF status = 429 THEN parseRetryAfter(header) ELSE 0,
             "other")

\* readBody's two failures. A read that broke off is worth a retry, an
\* oversized body is not.
bodyReadError(status, cause) == APIError("body_read", TRUE, status, 0, cause)
bodyTooLarge(status) == APIError("response_too_large", FALSE, status, 0, "other")

\* DecodeJSON by the shape of the body: blank, not JSON, JSON of the wrong
\* type, or fine.
BodyShapes == {"blank", "broken", "mistyped", "good"}

decodeError(status, body) ==
    APIError(IF body = "broken" THEN "invalid_json" ELSE "invalid_response",
             FALSE, status, 0, "other")

-----------------------------------------------------------------------------
(* Retry policy *)

OrDefault(d, default) == IF d <= 0 THEN default ELSE d

\* normalize: zero and negative fields take their defaults.
normalize(p, default) ==
    [MaxAttempts |-> IF p.MaxAttempts < 1 THEN 1 ELSE p.MaxAttempts,
     BaseDelay   |-> OrDefault(p.BaseDelay, default.BaseDelay),
     MaxDelay    |-> OrDefault(p.MaxDelay, default.MaxDelay),
     MaxWait     |-> OrDefault(p.MaxWait, default.MaxWait)]

Normal(p) == /\ p.MaxAttempts \in Nat \ {0}
             /\ p.BaseDelay \in Nat \ {0}
             /\ p.MaxDelay \in Nat \ {0}
             /\ p.MaxWait \in Nat \ {0}

\* BaseDelay << attempt in the width of a Duration.
Shifted(p, attempt) == Wrap(p.BaseDelay * 2 ^ attempt)

Capped(p, attempt) ==
    IF Shifted(p, attempt) > p.MaxDelay THEN p.MaxDelay ELSE Shifted(p, attempt)

\* Mutant: the hint of the server is not capped by MaxWait.
delaysHintUncapped(p, attempt, hint) ==
    LET d == Capped(p, attempt) IN
    { IF hint > 0 THEN hint ELSE d - d \div 4 + j : j \in 0 .. d \div 2 - 1 }

\* Mutant: a hint is taken as soon as there is one, be it negative.
delaysHintSigned(p, attempt, hint) ==
    LET d == Capped(p, attempt) IN
    { IF hint = 0 THEN d - d \div 4 + j
      ELSE IF hint < p.MaxWait THEN hint ELSE p.MaxWait : j \in 0 .. d \div 2 - 1 }

\* Mutant: the jitter is drawn below a quarter of the delay.
delaysQuarterJitter(p, attempt, hint) ==
    LET d == Capped(p, attempt) IN
    { IF hint <= 0 THEN d - d \div 4 + j
      ELSE IF hint < p.MaxWait THEN hint ELSE p.MaxWait : j \in 0 .. d \div 4 - 1 }

\* backoff: every delay it may choose. The jitter is drawn before the hint is
\* looked at, and rand.Int64N panics on a bound that is not positive: the set
\* is then empty.
backoff(p, attempt, hint) ==
    LET d == Capped(p, attempt) IN
    { IF hint <= 0 THEN d - d \div 4 + j
      ELSE IF hint < p.MaxWait THEN hint ELSE p.MaxWait : j \in 0 .. d \div 2 - 1 }

\* The longest pause one retry may cost: jitter is added after the cap, so
\* MaxDelay may be exceeded by a quarter.
PauseCap(p) == IF p.MaxWait > p.MaxDelay + p.MaxDelay \div 4
               THEN p.MaxWait ELSE p.MaxDelay + p.MaxDelay \div 4
=============================================================================
