----------------------------- MODULE MCSessions -----------------------------
(***************************************************************************)
(* Instances of Sessions for TLC. The assumptions check the gates its       *)
(* routes pass (Gates), over every sequence of requests of two callers on a *)
(* clock of a few ticks.                                                    *)
(***************************************************************************)
EXTENDS Sessions, TLC, SequencesExt

\* Requests, sessions, devices and holders are interchangeable.
SessionSymmetry ==
    Permutations(Requests) \cup Permutations(SessionIds) \cup Permutations(Devices)
        \cup Permutations(Holders)

\* Two requests per window of two ticks; one limiter sweeps always, the other never.
Sweeping == INSTANCE Gates WITH windowMs <- 2, max <- 2, SweepThreshold <- 1
Keeping == INSTANCE Gates WITH windowMs <- 2, max <- 2, SweepThreshold <- 9

ASSUME GatesAreAssumed == Sweeping!LimiterAssumption /\ Keeping!LimiterAssumption

Callers == {"a", "b"}
Arrivals == { s \in [1..6 -> [key : Callers, now : 1..3]] :
                \A i \in 1..5 : s[i].now <= s[i + 1].now }

Nobody == [k \in Callers |-> Keeping!NoBucket]

\* The answers of a limiter to a sequence of requests.
Answers6(limit(_, _, _), arrivals) ==
    FoldLeft(LAMBDA state, request :
                LET reply == limit(state.buckets, request.key, request.now)
                IN  [buckets |-> reply.buckets, given |-> Append(state.given, reply.status)],
             [buckets |-> Nobody, given |-> <<>>], arrivals).given

\* Of one caller the limiter admits at most twice its maximum in any span of a window's
\* length, whatever its windows' phase; it refuses no caller's first two requests, and
\* sweeping changes no answer.
ASSUME \A s \in Arrivals :
          LET given == Answers6(Keeping!rateLimit, s)
              passed(k, from, to) ==
                  { i \in 1..6 : /\ s[i].key = k /\ given[i] = Keeping!Admitted
                                 /\ s[i].now \in from..to }
          IN  /\ given = Answers6(Sweeping!rateLimit, s)
              /\ \A k \in Callers : /\ Cardinality(passed(k, 1, 2)) <= 4
                                    /\ Cardinality(passed(k, 2, 3)) <= 4
              /\ \A i \in 1..6 : Cardinality({ j \in 1..i : s[j].key = s[i].key }) <= 2
                                   => given[i] = Keeping!Admitted

\* Four in two ticks do pass: two at the end of a window and two at the start of the next.
ASSUME LET given == Answers6(Keeping!rateLimit,
                        [i \in 1..6 |-> [key |-> "a", now |-> IF i = 1 THEN 1 ELSE IF i = 2 THEN 2 ELSE 3]])
       IN  { i \in 1..6 : given[i] = Keeping!Admitted } = 1..4

\* A gate that is configured lets nobody by without its secret, and a demonstration route that
\* is switched off answers a good secret and a bad one alike.
ASSUME /\ \A provider \in {"accepts", "refuses", "down"}, token \in BOOLEAN :
             Keeping!captcha(TRUE, token, provider) = Keeping!Admitted <=> token /\ provider = "accepts"
       /\ \A on, configured, matches \in BOOLEAN :
             /\ Keeping!tamperRoute(on, configured, matches) = Keeping!Admitted
                    <=> on /\ configured /\ matches
             /\ ~on => Keeping!tamperRoute(on, configured, matches)
                            = Keeping!tamperRoute(on, configured, ~matches)

\* Requests the captcha refused count towards the limit of those it would admit.
ASSUME LET second == Keeping!voterRoute(Keeping!voterRoute(Nobody, "a", 1, 403).buckets, "a", 1, 403)
       IN  Keeping!voterRoute(second.buckets, "a", 1, Keeping!Admitted).status = 429
=============================================================================
