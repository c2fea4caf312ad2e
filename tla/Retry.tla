--------------------------------- MODULE Retry ---------------------------------
(***************************************************************************)
(* How outgoing calls are repeated and paced: withRetry() and its backoff  *)
(* (shared/retry.ts), which carry the calls to Citrus, to the agent and to *)
(* the ports of a closing channel, and the bucket of CitrusClient          *)
(* (shared/token-bucket.ts).  Pure: time is an argument, in milliseconds.  *)
(***************************************************************************)
EXTENDS Integers

MinOf(x, y) == IF x < y THEN x ELSE y

\* Full jitter: any delay below the bound, 0 when the bound is 0.
Backoffs(attempt, base, cap) ==
  LET bound == MinOf(base * 2^attempt, cap) IN IF bound = 0 THEN {0} ELSE 0..(bound - 1)

(* A call of withRetry() whose attempt k would end as try[k].kind ("ok",     *)
(* "again" for a retryable error, "fatal") after try[k].ms, with a sleep of  *)
(* pause[k] after it: how it ends, after how many attempts, and when.        *)
WithRetry(try, pause, maxAttempts, deadline) ==
  LET Ended(end, k, t) == [end |-> end, attempts |-> k, at |-> t]
      from[k \in Nat, t \in Nat] ==
        LET now == t + try[k].ms
        IN  IF t >= deadline THEN Ended("deadline", k - 1, t)
            ELSE IF try[k].kind # "again" \/ k = maxAttempts THEN Ended(try[k].kind, k, now)
            ELSE IF now + pause[k] >= deadline THEN Ended("deadline", k, now)
            ELSE from[k + 1, now + pause[k]]
  IN  from[1, 0]

----------------------------------------------------------------------------
(* The bucket: a token is Minute units, of which `rate` come in a millisecond. *)

Refilled(tokens, elapsed, rate, capacity) == MinOf(capacity, tokens + elapsed * rate)

\* take(): how long it sleeps before it looks again, 0 when it need not.
WaitMs(tokens, weight, rate) ==
  IF tokens >= weight THEN 0
  ELSE ((weight - tokens) * 1000 + rate - 1) \div rate + 1
=============================================================================
