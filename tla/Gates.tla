-------------------------------- MODULE Gates --------------------------------
(***************************************************************************)
(* What a request passes before its handler: the rate limiter               *)
(* (middleware/rateLimit.ts), the captcha (captcha.ts), the administrator's  *)
(* secret (adminAuth.ts) and the demonstration switch (tamperDemo.ts). A    *)
(* limiter's memory is a function from its callers to buckets.              *)
(***************************************************************************)
EXTENDS Naturals, FiniteSets

CONSTANTS
    windowMs, max,      \* of one limiter
    SweepThreshold      \* SWEEP_THRESHOLD

LimiterAssumption == {windowMs, max, SweepThreshold} \subseteq Nat \ {0}

Admitted == 200     \* passed on to the handler

\* A caller the limiter does not know has the bucket of a window long over.
NoBucket == [count |-> 0, resetAt |-> 0]

Expired(bucket, now) == bucket.resetAt <= now

Live(buckets) == { k \in DOMAIN buckets : buckets[k] # NoBucket }

sweepExpired(buckets, now) ==
    IF Cardinality(Live(buckets)) < SweepThreshold THEN buckets
    ELSE [k \in DOMAIN buckets |-> IF Expired(buckets[k], now) THEN NoBucket ELSE buckets[k]]

\* The window is fixed: it starts with the first request after the last one ended.
Counted(bucket, now) ==
    IF Expired(bucket, now) THEN [count |-> 1, resetAt |-> now + windowMs]
    ELSE [bucket EXCEPT !.count = @ + 1]

rateLimit(buckets, key, now) ==
    LET swept == sweepExpired(buckets, now)
        bucket == Counted(swept[key], now)
    IN  [buckets |-> [swept EXCEPT ![key] = bucket],
         status |-> IF bucket.count > max THEN 429 ELSE Admitted]

\* Open without a secret; with one, closed to a missing or refused token, and to everybody
\* while the provider cannot be reached.
captcha(configured, token, provider) ==
    CASE ~configured -> Admitted
      [] configured /\ ~token -> 403
      [] configured /\ token /\ provider = "down" -> 503
      [] configured /\ token /\ provider # "down" -> IF provider = "accepts" THEN Admitted ELSE 403

requireAdminSecret(configured, matches) ==
    IF ~configured THEN 503 ELSE IF matches THEN Admitted ELSE 401

\* The demonstration routes do not exist unless they are switched on.
tamperRoute(enabled, configured, matches) ==
    IF enabled THEN requireAdminSecret(configured, matches) ELSE 404

\* POST /voter/register and /voter/session: the limiter comes first, and a request that the
\* captcha refuses has been counted.
voterRoute(buckets, key, now, answer) ==
    LET limited == rateLimit(buckets, key, now)
    IN  [buckets |-> limited.buckets,
         status |-> IF limited.status = Admitted THEN answer ELSE limited.status]
=============================================================================
