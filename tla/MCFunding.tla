------------------------------ MODULE MCFunding -------------------------------
(* TLC instances of Funding, and the operators of Retry, which carry its     *)
(* calls to Citrus, against what they are documented to do.                  *)
EXTENDS Funding, Retry, TLC

Symmetry == Permutations(Asks)

Tries == [1..3 -> [kind : {"ok", "again", "fatal"}, ms : {0, 2}]]
Pauses == [1..2 -> 0..1]
Total(f, n) == LET sum[k \in 0..3] == IF k = 0 THEN 0 ELSE sum[k - 1] + f[k] IN sum[n]
Unlimited == 100

\* "Only retries when isRetryable(error)": the first attempt that is not to be
\* repeated decides, or the last one allowed.
ASSUME FirstFinalDecides ==
  \A try \in Tries, pause \in Pauses :
    LET r == WithRetry(try, pause, 3, Unlimited)
    IN  /\ \A k \in 1..(r.attempts - 1) : try[k].kind = "again"
        /\ try[r.attempts].kind # "again" \/ r.attempts = 3
        /\ r.end = try[r.attempts].kind

\* FT-R3: no attempt begins and no sleep ends at the deadline or after it, and
\* the deadline cuts off only what would have.
ASSUME DeadlineKept ==
  \A try \in Tries, pause \in Pauses, deadline \in 0..8 :
    LET r == WithRetry(try, pause, 3, deadline)
        free == WithRetry(try, pause, 3, Unlimited)
        work == [k \in 1..3 |-> try[k].ms]
        Begins(k) == Total(work, k - 1) + Total(pause, k - 1)
    IN  /\ r.attempts > 0 => Begins(r.attempts) < deadline
        /\ r.end # "deadline" => r = free
        /\ r.end = "deadline" => r.attempts < free.attempts /\ Begins(r.attempts + 1) >= deadline

\* The default sleeps stay below 250 + 500 + 1000 ms.
ASSUME DefaultBackoffs ==
  \A a \in 0..2 : Backoffs(a, 250, 1000) = 0..(250 * 2^a - 1)

\* take() never sleeps too short a time: it looks again with tokens enough.
Minute == 60
ASSUME OneSleepIsEnough ==
  \A rate \in 1..4, tokens \in 0..(2 * Minute), weight \in {Minute, 2 * Minute} :
    LET ms == WaitMs(tokens, weight, rate)
    IN  /\ Refilled(tokens, ms, rate, 2 * Minute) >= weight
        /\ ms = 0 <=> tokens >= weight
=============================================================================
